--------------------------- MODULE ReceiverProofs ---------------------------
(***************************************************************************)
(* Theorems about the two receivers that put together what the other side  *)
(* sent from what a line brings that disturbs it: UartProtocol, for any    *)
(* lengths of the messages and of the buffer, headers in payloads and any  *)
(* number of lost bytes; and Client, for any buffers, sequence numbers,    *)
(* length of the queue, faults and connections.                            *)
(***************************************************************************)
EXTENDS UartProtocol, Client, SequenceTheorems, TLAPS

Byte ==
  [seen : SUBSET (Kind \X (0 .. UART_HEADER_LENGTH - 1)), id : 0 .. Ids - 1, place : Nat]

StateOK ==
  /\ message \in Message
  /\ sent \in Nat /\ sent < Total(message.kind)
  /\ buffer \in Seq(Byte)
  /\ wanted \in Nat /\ discarded \in Nat /\ losses \in Nat
  /\ found \subseteq Kind
  /\ at \in {"search", "check", "callback"}

\* The searching reads fill the buffer in steps of one read, and never run ahead of the
\* search by more than a header and a read.
SearchKnown ==
  at = "search" =>
    /\ (available + wanted) % UART_READ_SIZE = 0
    /\ available + wanted <= UART_BUFFER_LENGTH
    /\ discarded + UART_HEADER_LENGTH <= available + wanted
    /\ available + wanted <= discarded + UART_HEADER_LENGTH + UART_READ_SIZE
    /\ discarded = 0 => available + wanted = UART_READ_SIZE

HeaderOf(k) ==
  \A i \in 0 .. UART_HEADER_LENGTH - 1 : <<k, i>> \in buffer[discarded + i + 1].seen

\* Once a header is found, the message it announces is what is read, and it fits.
FoundKnown ==
  at \in {"check", "callback"} =>
    \E k \in Kind :
      /\ found = {k}
      /\ available >= discarded + UART_HEADER_LENGTH /\ HeaderOf(k)
      /\ available + wanted = MessageEnd(k)
      /\ MessageEnd(k) <= UART_BUFFER_LENGTH
      /\ at = "callback" => wanted = 0 /\ ChecksumMatches(k)

UartInv == StateOK /\ SearchKnown /\ FoundKnown
------------------------------------------------------------------------------
LEMMA Multiples ==
  ASSUME NEW r \in Nat \ {0}, NEW n \in Nat
  PROVE  n % r = 0 <=> \E i \in Nat : n = i * r
PROOF
  <1>1. n = (r * (n \div r)) + (n % r) /\ n \div r \in Nat /\ n % r \in 0 .. r - 1
    OBVIOUS
  <1>2. ASSUME NEW i \in Nat, n = i * r
        PROVE  n % r = 0
    <2> DEFINE q == n \div r
               m == n % r
    <2>1. (i - q) * r = m /\ q \in Nat /\ m \in 0 .. r - 1
      BY <1>1, <1>2
    <2> HIDE DEF q, m
    <2>2. i - q > 0 => (i - q) * r >= r
      BY <2>1
    <2>3. i - q < 0 => (i - q) * r < 0
      BY <2>1
    <2>4. m = 0
      BY <2>1, <2>2, <2>3
    <2> QED
      BY <2>4 DEF m
  <1>3. ASSUME n % r = 0
        PROVE  \E i \in Nat : n = i * r
    <2> DEFINE q == n \div r
    <2>1. q \in Nat /\ n = q * r
      BY <1>1, <1>3
    <2> QED
      BY <2>1
  <1> QED
    BY <1>2, <1>3

\* Reads of one size fill a buffer that holds a whole number of them.
LEMMA NextReadFits ==
  ASSUME NEW r \in Nat \ {0}, NEW size \in Nat, size % r = 0,
         NEW n \in Nat, n % r = 0
  PROVE  /\ (n + r) % r = 0
         /\ n < size => n + r <= size
PROOF
  <1>1. PICK i \in Nat : n = i * r
    BY Multiples
  <1>2. PICK j \in Nat : size = j * r
    BY Multiples
  <1>3. n + r = (i + 1) * r
    BY <1>1
  <1>4. (n + r) % r = 0
    <2> DEFINE next == n + r
    <2>1. next \in Nat /\ i + 1 \in Nat /\ next = (i + 1) * r
      BY <1>3
    <2> HIDE DEF next
    <2>2. next % r = 0
      BY <2>1, Multiples
    <2> QED
      BY <2>2 DEF next
  <1>5. ASSUME n < size
        PROVE  n + r <= size
    <2>1. i < j
      BY <1>1, <1>2, <1>5
    <2>2. (i + 1) * r <= j * r
      BY <2>1
    <2> QED
      BY <1>2, <1>3, <2>2
  <1> QED
    BY <1>4, <1>5

\* The sizes that the steps of the search compare
LEMMA Sizes ==
  /\ UART_HEADER_LENGTH \in Nat \ {0} /\ UART_READ_SIZE = UART_HEADER_LENGTH
  /\ UART_BUFFER_LENGTH \in Nat /\ UART_BUFFER_LENGTH >= UART_READ_SIZE
  /\ UART_READ_SIZE % UART_READ_SIZE = 0
  /\ \A k \in Kind : Total(k) \in Nat /\ Total(k) >= UART_HEADER_LENGTH + UART_READ_SIZE
PROOF
  <1>1. /\ UART_HEADER_LENGTH \in Nat \ {0} /\ UART_READ_SIZE = UART_HEADER_LENGTH
        /\ UART_BUFFER_LENGTH \in Nat \ {0} /\ UART_CHECKSUM_LENGTH \in Nat \ {0}
        /\ UART_BUFFER_LENGTH % UART_READ_SIZE = 0
    BY UartAssumption
  <1>2. UART_BUFFER_LENGTH >= UART_READ_SIZE /\ UART_READ_SIZE % UART_READ_SIZE = 0
    <2>1. 0 % UART_READ_SIZE = 0
      BY <1>1
    <2> QED
      BY <1>1, <2>1, NextReadFits
  <1>3. \A k \in Kind : Total(k) \in Nat /\ Total(k) >= UART_HEADER_LENGTH + UART_READ_SIZE
    <2> TAKE k \in Kind
    <2>1. Length[k] \in Nat \ {0} /\ UART_READ_SIZE <= Length[k] + UART_CHECKSUM_LENGTH
      BY UartAssumption
    <2> QED
      BY <1>1, <2>1 DEF Total
  <1> QED
    BY <1>1, <1>2, <1>3
------------------------------------------------------------------------------
LEMMA UartInvInit == UartInit => UartInv
PROOF
  <1> SUFFICES ASSUME UartInit
               PROVE  UartInv
    OBVIOUS
  <1>1. StateOK
    <2>1. message \in Message /\ message.kind \in Kind
      BY DEF UartInit, Message
    <2>2. sent \in Nat
      BY <2>1, Sizes DEF UartInit
    <2> QED
      BY <2>1, <2>2, Sizes DEF UartInit, StateOK
  <1>2. available = 0
    BY DEF UartInit, available
  <1> QED
    BY <1>1, <1>2, Sizes DEF UartInit, UartInv, SearchKnown, FoundKnown

\* Nothing of the buffer matters when the task starts over.
LEMMA StartOverKeeps ==
  ASSUME UartInv, StartOver, UNCHANGED sender
  PROVE  UartInv'
PROOF
  <1>1. StateOK'
    BY Sizes DEF UartInv, StateOK, StartOver, sender
  <1>2. available' = 0
    BY DEF StartOver, available
  <1> QED
    BY <1>1, <1>2, Sizes DEF StartOver, UartInv, SearchKnown, FoundKnown

\* A byte of the stream, as the buffer holds it
LEMMA ArrivingByte ==
  ASSUME StateOK
  PROVE  ByteOf(message, sent) \in Byte
PROOF
  <1>1. message.kind \in Kind /\ message.decoy \subseteq Kind /\ message.id \in 0 .. Ids - 1
    BY UartAssumption DEF StateOK, Message
  <1>2. Seen(message, sent) \subseteq Kind \X (0 .. UART_HEADER_LENGTH - 1)
    BY <1>1, Sizes DEF StateOK, Seen
  <1> QED
    BY <1>1, <1>2 DEF StateOK, Byte, ByteOf

LEMMA LeavingByte ==
  ASSUME StateOK, ByteLeaves
  PROVE  message' \in Message /\ sent' \in Nat /\ sent' < Total(message'.kind)
PROOF
  <1>1. CASE sent + 1 < Total(message.kind)
    BY <1>1 DEF StateOK, ByteLeaves
  <1>2. CASE ~(sent + 1 < Total(message.kind))
    <2>1. message' \in Message /\ sent' = 0
      BY <1>2 DEF ByteLeaves
    <2>2. message'.kind \in Kind
      BY <2>1 DEF Message
    <2> QED
      BY <2>1, <2>2, Sizes
  <1> QED
    BY <1>1, <1>2

LEMMA SearchKeeps ==
  ASSUME UartInv, Search
  PROVE  UartInv'
PROOF
  <1> USE DEF UartInv
  <1>1. at = "search" /\ wanted = 0 /\ UNCHANGED sender
    BY DEF Search
  <1>2. available \in Nat /\ discarded \in Nat
    BY DEF StateOK, available
  <1>3. CASE SkipByte /\ ~BufferExhausted(discarded + 1)
    <2>1. /\ discarded' = discarded + 1 /\ UNCHANGED <<buffer, found, at>>
          /\ wanted' = IF NeedsMore(discarded + 1) THEN UART_READ_SIZE ELSE 0
      BY <1>3 DEF SkipByte
    <2>2. StateOK' /\ FoundKnown'
      BY <1>1, <2>1, Sizes DEF StateOK, FoundKnown, available, sender
    <2>3. available' = available
      BY <2>1 DEF available
    <2>4. CASE NeedsMore(discarded + 1)
      <3>1. available = discarded + UART_HEADER_LENGTH
        BY <1>1, <1>2, <2>4, Sizes DEF SearchKnown, NeedsMore
      <3>2. available < UART_BUFFER_LENGTH
        BY <1>2, <1>3, <3>1, Sizes DEF BufferExhausted
      <3>3. /\ (available + UART_READ_SIZE) % UART_READ_SIZE = 0
            /\ available + UART_READ_SIZE <= UART_BUFFER_LENGTH
        <4>1. available % UART_READ_SIZE = 0 /\ UART_BUFFER_LENGTH % UART_READ_SIZE = 0
          BY <1>1, <1>2, UartAssumption DEF SearchKnown
        <4> QED
          BY <1>2, <3>2, <4>1, Sizes, NextReadFits
      <3>4. SearchKnown'
        BY <1>1, <1>2, <2>1, <2>3, <2>4, <3>1, <3>3, Sizes DEF SearchKnown
      <3> QED
        BY <2>2, <3>4
    <2>5. CASE ~NeedsMore(discarded + 1)
      <3>1. SearchKnown'
        BY <1>1, <1>2, <2>1, <2>3, <2>5, Sizes DEF SearchKnown, NeedsMore
      <3> QED
        BY <2>2, <3>1
    <2> QED
      BY <2>4, <2>5
  <1>4. CASE SkipByte /\ BufferExhausted(discarded + 1)
    BY <1>1, <1>4, StartOverKeeps DEF SkipByte
  <1>5. CASE ReadRest
    <2>1. PICK k \in HeadersHere :
            IF MessageEnd(k) > UART_BUFFER_LENGTH
              THEN StartOver
              ELSE /\ found' = {k}
                   /\ wanted' = IF MessageEnd(k) > available THEN MessageEnd(k) - available ELSE 0
                   /\ at' = "check"
                   /\ UNCHANGED <<buffer, discarded>>
      BY <1>5 DEF ReadRest
    <2>2. CASE MessageEnd(k) > UART_BUFFER_LENGTH
      BY <1>1, <2>1, <2>2, StartOverKeeps
    <2>3. CASE ~(MessageEnd(k) > UART_BUFFER_LENGTH)
      <3>1. k \in Kind /\ HeaderOf(k)
        BY DEF HeadersHere, HeaderOf
      <3>2. MessageEnd(k) \in Nat /\ MessageEnd(k) >= available
        BY <1>1, <1>2, <3>1, Sizes DEF SearchKnown, MessageEnd
      <3>3. wanted' \in Nat /\ available + wanted' = MessageEnd(k)
        BY <1>2, <2>1, <2>3, <3>2
      <3>4. /\ UNCHANGED <<buffer, discarded>> /\ found' = {k} /\ at' = "check"
        BY <2>1, <2>3
      <3>5. StateOK' /\ SearchKnown'
        BY <1>1, <3>1, <3>3, <3>4
        DEF StateOK, SearchKnown, available, sender
      <3>6. available' = available /\ MessageEnd(k)' = MessageEnd(k) /\ HeaderOf(k)'
        BY <3>1, <3>4 DEF available, MessageEnd, HeaderOf
      <3>7. available >= discarded + UART_HEADER_LENGTH
        BY <1>1, <1>2, Sizes DEF SearchKnown
      <3>8. MessageEnd(k) <= UART_BUFFER_LENGTH
        BY <2>3, <3>2, Sizes
      <3>9. FoundKnown'
        BY <3>1, <3>3, <3>4, <3>6, <3>7, <3>8 DEF FoundKnown
      <3> QED
        BY <3>5, <3>9
    <2> QED
      BY <2>2, <2>3
  <1> QED
    BY <1>3, <1>4, <1>5 DEF Search

LEMMA CheckKeeps ==
  ASSUME UartInv, CheckMessage
  PROVE  UartInv'
PROOF
  <1> USE DEF UartInv
  <1>1. at = "check" /\ wanted = 0 /\ UNCHANGED sender
    BY DEF CheckMessage
  <1>2. PICK k \in found :
          IF ChecksumMatches(k)
            THEN at' = "callback" /\ UNCHANGED <<buffer, wanted, discarded, found>>
            ELSE StartOver
    BY DEF CheckMessage
  <1>3. CASE ChecksumMatches(k)
    <2>1. at' = "callback" /\ UNCHANGED <<buffer, wanted, discarded, found>>
      BY <1>2, <1>3
    <2>2. StateOK' /\ SearchKnown'
      BY <1>1, <2>1 DEF StateOK, SearchKnown, available, sender
    <2>3. /\ available' = available /\ MessageEnd(k)' = MessageEnd(k)
          /\ HeaderOf(k)' <=> HeaderOf(k)
          /\ ChecksumMatches(k)'
      BY <1>3, <2>1 DEF available, MessageEnd, HeaderOf, ChecksumMatches, MessageBytes
    <2>4. /\ k \in Kind /\ found = {k}
          /\ available >= discarded + UART_HEADER_LENGTH /\ HeaderOf(k)
          /\ available + wanted = MessageEnd(k) /\ MessageEnd(k) <= UART_BUFFER_LENGTH
      BY <1>1 DEF FoundKnown
    <2>5. FoundKnown'
      BY <1>1, <2>1, <2>3, <2>4 DEF FoundKnown
    <2> QED
      BY <2>2, <2>5
  <1>4. CASE ~ChecksumMatches(k)
    BY <1>1, <1>2, <1>4, StartOverKeeps
  <1> QED
    BY <1>3, <1>4

LEMMA ArrivalKeeps ==
  ASSUME UartInv, ByteArrives
  PROVE  UartInv'
PROOF
  <1> USE DEF UartInv
  <1> DEFINE b == ByteOf(message, sent)
  <1>1. b \in Byte
    BY ArrivingByte
  <1>2. /\ wanted \in Nat \ {0} /\ wanted' = wanted - 1
        /\ buffer' = Append(buffer, b)
        /\ UNCHANGED <<losses, discarded, found, at>>
    BY DEF ByteArrives, StateOK
  <1> HIDE DEF b
  <1>3. /\ buffer \in Seq(Byte) /\ available \in Nat /\ available' = available + 1
        /\ \A i \in 1 .. available : buffer'[i] = buffer[i]
        /\ buffer'[available + 1] = b
    BY <1>1, <1>2 DEF StateOK, available
  <1>4. StateOK'
    <2>1. message' \in Message /\ sent' \in Nat /\ sent' < Total(message'.kind)
      BY LeavingByte DEF ByteArrives
    <2>2. buffer' \in Seq(Byte)
      BY <1>1, <1>2, <1>3
    <2> QED
      BY <1>2, <2>1, <2>2 DEF StateOK
  <1>5. available' + wanted' = available + wanted
    BY <1>2, <1>3
  <1>6. SearchKnown'
    BY <1>2, <1>5 DEF SearchKnown
  <1>7. FoundKnown'
    <2> SUFFICES ASSUME at \in {"check", "callback"}
                 PROVE  FoundKnown'
      BY <1>2 DEF FoundKnown
    <2>1. PICK k \in Kind :
            /\ found = {k}
            /\ available >= discarded + UART_HEADER_LENGTH /\ HeaderOf(k)
            /\ available + wanted = MessageEnd(k)
            /\ MessageEnd(k) <= UART_BUFFER_LENGTH
            /\ at = "callback" => wanted = 0 /\ ChecksumMatches(k)
      BY DEF FoundKnown
    <2>2. at = "check"
      BY <1>2, <2>1
    <2>3. MessageEnd(k)' = MessageEnd(k)
      BY <1>2 DEF MessageEnd
    <2>4. HeaderOf(k)'
      <3> SUFFICES ASSUME NEW i \in 0 .. UART_HEADER_LENGTH - 1
                   PROVE  <<k, i>> \in buffer'[discarded + i + 1].seen
        BY <1>2 DEF HeaderOf
      <3>1. discarded + i + 1 \in 1 .. available
        BY <1>3, <2>1, Sizes DEF StateOK
      <3> QED
        BY <1>3, <2>1, <3>1 DEF HeaderOf
    <2>5. available' >= discarded' + UART_HEADER_LENGTH
      BY <1>2, <1>3, <2>1, Sizes DEF StateOK
    <2> QED
      BY <1>2, <1>5, <2>1, <2>2, <2>3, <2>4, <2>5 DEF FoundKnown
  <1> QED
    BY <1>4, <1>6, <1>7

LEMMA UartInvStep == UartInv /\ [UartNext]_uartVars => UartInv'
PROOF
  <1> SUFFICES ASSUME UartInv, [UartNext]_uartVars
               PROVE  UartInv'
    OBVIOUS
  <1>1. ASSUME UNCHANGED <<buffer, wanted, discarded, found, at>>,
               message' \in Message, sent' \in Nat, sent' < Total(message'.kind),
               losses' \in Nat
        PROVE  UartInv'
    BY <1>1 DEF UartInv, StateOK, SearchKnown, FoundKnown, available,
                HeaderOf, MessageEnd, ChecksumMatches, MessageBytes
  <1>2. CASE UNCHANGED uartVars
    BY <1>1, <1>2 DEF uartVars, sender, UartInv, StateOK
  <1>3. CASE ByteLost
    <2>1. message' \in Message /\ sent' \in Nat /\ sent' < Total(message'.kind)
      BY <1>3, LeavingByte DEF ByteLost, UartInv
    <2>2. losses' \in Nat
      BY <1>3 DEF ByteLost, UartInv, StateOK
    <2> QED
      BY <1>1, <1>3, <2>1, <2>2 DEF ByteLost
  <1>4. CASE MessageCallback
    BY <1>4, StartOverKeeps DEF MessageCallback
  <1> QED
    BY <1>2, <1>3, <1>4, ArrivalKeeps, SearchKeeps, CheckKeeps DEF UartNext, UartTask
------------------------------------------------------------------------------
\* Reads, the search and what it found agree in every reachable state.
THEOREM UartInvariant == UartSpec => []UartInv
  BY UartInvInit, UartInvStep, PTL DEF UartSpec

\* No read asks for more than the buffer holds, and none takes a byte beyond the message
\* that was found (uart_protocol.c:56, 85, 106), for all lengths of messages.
THEOREM ReadsFit == UartSpec => []ReadsWithinBuffer
PROOF
  <1>1. ASSUME UartInv
        PROVE  ReadsWithinBuffer
    <2>1. /\ available + wanted <= UART_BUFFER_LENGTH
          /\ at = "search" /\ wanted = 0 => discarded + UART_HEADER_LENGTH <= available
      <3>1. available \in Nat
        BY <1>1 DEF UartInv, StateOK, available
      <3>2. CASE at = "search"
        BY <1>1, <3>1, <3>2 DEF UartInv, SearchKnown
      <3>3. CASE at # "search"
        BY <1>1, <3>3 DEF UartInv, FoundKnown, StateOK
      <3> QED
        BY <3>2, <3>3
    <2>2. at \in {"check", "callback"} => \A k \in found : available + wanted = MessageEnd(k)
      BY <1>1 DEF UartInv, FoundKnown
    <2> QED
      BY <2>1, <2>2 DEF ReadsWithinBuffer
  <1> QED
    BY <1>1, UartInvariant, PTL

------------------------------------------------------------------------------
(* A receiver in step with the stream                                          *)

\* The bytes of a message in the buffer say which they are, and its header is seen.
LEMMA BytesOfMessage ==
  ASSUME NEW m \in Message, NEW n \in Nat, buffer = FirstBytes(m, n)
  PROVE  /\ available = n
         /\ \A i \in 1 .. n : buffer[i] = ByteOf(m, i - 1)
         /\ \A i \in 1 .. n : i - 1 < UART_HEADER_LENGTH => buffer[i].seen = {<<m.kind, i - 1>>}
PROOF
  <1>1. available = n /\ \A i \in 1 .. n : buffer[i] = ByteOf(m, i - 1)
    BY DEF FirstBytes, available
  <1>2. ASSUME NEW i \in 1 .. n, i - 1 < UART_HEADER_LENGTH
        PROVE  buffer[i].seen = {<<m.kind, i - 1>>}
    <2>1. Seen(m, i - 1) = {<<m.kind, i - 1>>}
      BY <1>2 DEF Seen
    <2>2. buffer[i] = ByteOf(m, i - 1) /\ ByteOf(m, i - 1).seen = Seen(m, i - 1)
      BY <1>1 DEF ByteOf
    <2> QED
      BY <2>1, <2>2
  <1> QED
    BY <1>1, <1>2

\* The header found in step is that of the message which the buffer holds.
LEMMA FoundInStep ==
  ASSUME UartInv, discarded = 0, at \in {"check", "callback"},
         NEW m \in Message, NEW n \in Nat, buffer = FirstBytes(m, n)
  PROVE  found = {m.kind} /\ n + wanted = Total(m.kind)
PROOF
  <1>1. PICK k \in Kind :
          /\ found = {k}
          /\ available >= discarded + UART_HEADER_LENGTH /\ HeaderOf(k)
          /\ available + wanted = MessageEnd(k)
    BY DEF UartInv, FoundKnown
  <1>2. available = n /\ n >= 1 /\ buffer[1].seen = {<<m.kind, 0>>}
    <2>1. available = n
      BY BytesOfMessage
    <2>2. n >= 1
      BY <1>1, <2>1, Sizes
    <2>3. 1 \in 1 .. n /\ 1 - 1 < UART_HEADER_LENGTH /\ 1 - 1 = 0
      BY <2>2, Sizes
    <2> QED
      BY <2>1, <2>2, <2>3, BytesOfMessage
  <1>3. <<k, 0>> \in buffer[1].seen
    <2>1. 0 \in 0 .. UART_HEADER_LENGTH - 1 /\ discarded + 0 + 1 = 1
      BY Sizes
    <2> QED
      BY <1>1, <2>1 DEF HeaderOf
  <1>4. k = m.kind
    BY <1>2, <1>3
  <1>5. MessageEnd(k) = Total(k)
    BY <1>1, Sizes DEF MessageEnd
  <1> QED
    BY <1>1, <1>2, <1>4, <1>5

\* In step, a message that has been read whole is handed to the callback, and nothing of
\* the next one has been taken.
LEMMA WholeInStep ==
  ASSUME UartInv, InStep, wanted = 0 \/ at = "callback", at \in {"check", "callback"}
  PROVE  /\ sent = 0
         /\ \E m \in Message : /\ buffer = FirstBytes(m, Total(m.kind))
                               /\ found = {m.kind}
PROOF
  <1>1. wanted = 0
    BY DEF UartInv, FoundKnown
  <1>2. CASE buffer = FirstBytes(message, sent)
    <2>1. message \in Message /\ sent \in Nat /\ sent < Total(message.kind)
      BY DEF UartInv, StateOK
    <2>2. sent + wanted = Total(message.kind)
      BY <1>2, <2>1, FoundInStep DEF InStep
    <2> QED
      BY <1>1, <2>1, <2>2
  <1>3. ASSUME sent = 0, NEW m \in Message, buffer = FirstBytes(m, Total(m.kind))
        PROVE  sent = 0 /\ \E o \in Message : /\ buffer = FirstBytes(o, Total(o.kind))
                                              /\ found = {o.kind}
    <2>1. Total(m.kind) \in Nat
      BY Sizes DEF Message
    <2>2. found = {m.kind}
      BY <1>3, <2>1, FoundInStep DEF InStep
    <2> QED
      BY <1>3, <2>2
  <1> QED
    BY <1>2, <1>3 DEF InStep

LEMMA ArrivalInStep ==
  ASSUME UartInv, InStep, ByteArrives
  PROVE  InStep' /\ buffer' # << >>
PROOF
  <1>1. /\ wanted > 0 /\ ByteLeaves
        /\ buffer' = Append(buffer, ByteOf(message, sent)) /\ discarded' = 0
    BY DEF ByteArrives, InStep
  <1>2. /\ message \in Message /\ message.kind \in Kind
        /\ sent \in Nat /\ sent < Total(message.kind) /\ wanted \in Nat
    BY DEF UartInv, StateOK, Message
  <1>3. ASSUME sent = 0, NEW m \in Message, buffer = FirstBytes(m, Total(m.kind))
        PROVE  FALSE
    <2>1. m.kind \in Kind /\ Total(m.kind) \in Nat
          /\ Total(m.kind) >= UART_HEADER_LENGTH + UART_READ_SIZE
      BY Sizes DEF Message
    <2>2. CASE at = "search"
      <3>1. available = Total(m.kind)
        BY <1>3, <2>1, BytesOfMessage
      <3>2. available + wanted = UART_READ_SIZE
        BY <2>2 DEF UartInv, SearchKnown, InStep
      <3> QED
        BY <1>1, <1>2, <2>1, <3>1, <3>2, Sizes
    <2>3. CASE at # "search"
      <3>1. at \in {"check", "callback"}
        BY <2>3 DEF UartInv, StateOK
      <3>2. Total(m.kind) + wanted = Total(m.kind)
        BY <1>3, <2>1, <3>1, FoundInStep DEF InStep
      <3> QED
        BY <1>1, <1>2, <2>1, <3>2
    <2> QED
      BY <2>2, <2>3
  <1>4. buffer = FirstBytes(message, sent)
    BY <1>3 DEF InStep
  <1>5. buffer' = FirstBytes(message, sent + 1)
    <2>1. /\ buffer \in Seq(Byte) /\ ByteOf(message, sent) \in Byte
          /\ Len(buffer) = sent
          /\ \A i \in 1 .. sent : buffer[i] = ByteOf(message, i - 1)
      BY <1>2, <1>4, ArrivingByte, BytesOfMessage DEF UartInv, StateOK, available
    <2>2. /\ buffer' \in Seq(Byte) /\ Len(buffer') = sent + 1
          /\ \A i \in 1 .. sent : buffer'[i] = buffer[i]
          /\ buffer'[sent + 1] = ByteOf(message, sent)
      BY <1>1, <2>1
    <2>3. \A i \in 1 .. sent + 1 : buffer'[i] = ByteOf(message, i - 1)
      <3> TAKE i \in 1 .. sent + 1
      <3>1. CASE i \in 1 .. sent
        BY <2>1, <2>2, <3>1
      <3>2. CASE i = sent + 1
        <4>1. i - 1 = sent
          BY <1>2, <3>2
        <4> QED
          BY <2>2, <3>2, <4>1
      <3> QED
        BY <1>2, <3>1, <3>2
    <2>4. buffer' = [i \in 1 .. sent + 1 |-> buffer'[i]]
      BY <2>2
    <2> QED
      BY <2>3, <2>4 DEF FirstBytes
  <1>6. buffer' # << >>
    <2>1. Len(buffer') = Len(buffer) + 1 /\ Len(buffer) \in Nat
      BY <1>1 DEF UartInv, StateOK
    <2> QED
      BY <2>1
  <1>7. CASE sent + 1 < Total(message.kind)
    <2>1. sent' = sent + 1 /\ message' = message
      BY <1>1, <1>7 DEF ByteLeaves
    <2>2. FirstBytes(message', sent') = FirstBytes(message, sent + 1)
      BY <2>1
    <2> QED
      BY <1>1, <1>5, <1>6, <2>2 DEF InStep
  <1>8. CASE ~(sent + 1 < Total(message.kind))
    <2>1. sent' = 0 /\ sent + 1 = Total(message.kind)
      BY <1>1, <1>2, <1>8, Sizes DEF ByteLeaves
    <2>2. \E m \in Message : buffer' = FirstBytes(m, Total(m.kind))
      BY <1>2, <1>5, <2>1
    <2> QED
      BY <1>1, <1>6, <2>1, <2>2 DEF InStep
  <1> QED
    BY <1>7, <1>8

LEMMA SearchInStep ==
  ASSUME UartInv, InStep, Search
  PROVE  InStep' /\ buffer' = buffer
PROOF
  <1>1. /\ at = "search" /\ wanted = 0 /\ UNCHANGED sender
        /\ discarded = 0 /\ available = UART_READ_SIZE
    BY DEF Search, InStep, UartInv, SearchKnown, StateOK, available
  <1>2. PICK m \in Message, n \in Nat : buffer = FirstBytes(m, n)
    <2>1. \A m \in Message : Total(m.kind) \in Nat
      BY Sizes DEF Message
    <2> QED
      BY <2>1 DEF InStep, UartInv, StateOK
  <1>3. n = UART_HEADER_LENGTH /\ m.kind \in Kind
    BY <1>1, <1>2, BytesOfMessage, Sizes DEF Message
  <1>4. \A i \in 0 .. UART_HEADER_LENGTH - 1 : buffer[discarded + i + 1].seen = {<<m.kind, i>>}
    <2> TAKE i \in 0 .. UART_HEADER_LENGTH - 1
    <2>1. discarded + i + 1 = i + 1 /\ i + 1 \in 1 .. n /\ (i + 1) - 1 = i
          /\ i < UART_HEADER_LENGTH
      BY <1>1, <1>3, Sizes
    <2> QED
      BY <1>2, <2>1, BytesOfMessage
  <1>5. HeadersHere = {m.kind}
    <2>1. 0 \in 0 .. UART_HEADER_LENGTH - 1
      BY Sizes
    <2>2. \A k \in Kind : (\A i \in 0 .. UART_HEADER_LENGTH - 1 :
                              <<k, i>> \in buffer[discarded + i + 1].seen) <=> k = m.kind
      BY <1>4, <2>1
    <2> QED
      BY <1>3, <2>2 DEF HeadersHere
  <1>6. MessageEnd(m.kind) <= UART_BUFFER_LENGTH
    <2>1. Total(m.kind) <= UART_BUFFER_LENGTH
      BY <1>3, UartAssumption DEF Total
    <2>2. MessageEnd(m.kind) = Total(m.kind)
      BY <1>1, <1>3, Sizes DEF MessageEnd
    <2> QED
      BY <2>1, <2>2
  <1>7. UNCHANGED <<buffer, discarded>>
    <2>1. ReadRest
      BY <1>5 DEF Search, SkipByte
    <2>2. PICK k \in HeadersHere : IF MessageEnd(k) > UART_BUFFER_LENGTH
                                     THEN StartOver
                                     ELSE UNCHANGED <<buffer, discarded>>
      BY <2>1 DEF ReadRest
    <2>3. k = m.kind
      BY <1>5
    <2>4. ~(MessageEnd(k) > UART_BUFFER_LENGTH)
      <3>1. MessageEnd(k) \in Nat /\ UART_BUFFER_LENGTH \in Nat
        BY <1>1, <1>3, <2>3, Sizes DEF MessageEnd
      <3> QED
        BY <1>6, <2>3, <3>1
    <2> QED
      BY <2>2, <2>4
  <1>8. FirstBytes(message, sent)' = FirstBytes(message, sent)
    BY <1>1 DEF sender
  <1> QED
    BY <1>1, <1>7, <1>8 DEF InStep, sender

\* The places and numbers of a whole message are what its checksum was computed over.
LEMMA ChecksumInStep ==
  ASSUME discarded = 0, NEW m \in Message, buffer = FirstBytes(m, Total(m.kind)),
         buffer \in Seq(Byte)
  PROVE  ChecksumMatches(m.kind)
PROOF
  <1> DEFINE total == Total(m.kind)
  <1>1. total \in Nat /\ total >= 1
    BY Sizes DEF Message
  <1>2. Len(buffer) = total /\ \A i \in 1 .. total : buffer[i] = ByteOf(m, i - 1)
    BY <1>1, BytesOfMessage DEF available
  <1>3. MessageBytes(m.kind) = SubSeq(buffer, 1, total)
    BY <1>1 DEF MessageBytes
  <1>4. SubSeq(buffer, 1, total) = buffer
    BY <1>1, <1>2
  <1>5. DOMAIN buffer = 1 .. total /\ 1 \in 1 .. total
    BY <1>1, <1>2
  <1> HIDE DEF total
  <1>6. \A i \in 1 .. total : buffer[i].place = i - 1 /\ buffer[i].id = m.id
    <2>1. \A i \in 1 .. total : ByteOf(m, i - 1).place = i - 1 /\ ByteOf(m, i - 1).id = m.id
      BY DEF ByteOf
    <2> QED
      BY <1>2, <2>1
  <1> QED
    BY <1>3, <1>4, <1>5, <1>6 DEF ChecksumMatches

LEMMA CheckInStep ==
  ASSUME UartInv, InStep, CheckMessage
  PROVE  InStep' /\ buffer' = buffer
PROOF
  <1>1. at = "check" /\ wanted = 0 /\ UNCHANGED sender
    BY DEF CheckMessage
  <1>2. PICK m \in Message : buffer = FirstBytes(m, Total(m.kind)) /\ found = {m.kind}
    BY <1>1, WholeInStep
  <1>3. ChecksumMatches(m.kind)
    BY <1>2, ChecksumInStep DEF InStep, UartInv, StateOK
  <1>4. UNCHANGED <<buffer, discarded>>
    BY <1>2, <1>3 DEF CheckMessage
  <1>5. FirstBytes(message, sent)' = FirstBytes(message, sent)
    BY <1>1 DEF sender
  <1> QED
    BY <1>1, <1>4, <1>5 DEF InStep, sender

LEMMA CallbackInStep ==
  ASSUME UartInv, InStep, MessageCallback
  PROVE  InStep'
PROOF
  <1>1. at = "callback" /\ StartOver /\ UNCHANGED sender
    BY DEF MessageCallback
  <1>2. sent = 0
    BY <1>1, WholeInStep
  <1>3. buffer' = << >> /\ discarded' = 0 /\ sent' = 0
    BY <1>1, <1>2 DEF StartOver, sender
  <1>4. FirstBytes(message', sent') = << >>
    BY <1>3 DEF FirstBytes
  <1> QED
    BY <1>3, <1>4 DEF InStep

\* A receiver in step stays so while nothing is lost, and drops nothing that it has not
\* handed to the callback, whatever payloads look like and in whatever order kinds come.
THEOREM InStepKept == UartSpec => StaysInStep
PROOF
  <1>1. ASSUME UartInv, [UartNext]_uartVars, InStep, losses' = losses
        PROVE  InStep' /\ (buffer' = << >> => buffer = << >> \/ at = "callback")
    <2>1. CASE UNCHANGED uartVars
      BY <1>1, <2>1 DEF uartVars, sender, InStep
    <2>2. CASE ByteArrives
      BY <1>1, <2>2, ArrivalInStep
    <2>3. CASE Search
      BY <1>1, <2>3, SearchInStep
    <2>4. CASE CheckMessage
      BY <1>1, <2>4, CheckInStep
    <2>5. CASE MessageCallback
      BY <1>1, <2>5, CallbackInStep DEF MessageCallback
    <2>6. ~ByteLost
      <3>1. losses \in Nat
        BY <1>1 DEF UartInv, StateOK
      <3> QED
        BY <1>1, <3>1 DEF ByteLost
    <2> QED
      BY <1>1, <2>1, <2>2, <2>3, <2>4, <2>5, <2>6 DEF UartNext, UartTask
  <1>2. UartInv /\ [UartNext]_uartVars
          => [InStep /\ losses' = losses =>
                InStep' /\ (buffer' = << >> => buffer = << >> \/ at = "callback")]_uartVars
    BY <1>1
  <1> QED
    BY <1>2, UartInvariant, PTL DEF UartSpec, StaysInStep
------------------------------------------------------------------------------
(* TCPClientTransport.receive: the packets cut out of the stream.              *)

Unit == [long : BOOLEAN, number : Nat]

\* What tcp_receive has not cut into packets yet, while its connection is up
Uncut == tcpBuffer \o wire
PacketUnits == HeaderUnits + PayloadUnits

\* The number of the packet that a unit belongs to, from the count of the units behind it
NumberBefore(following) == tcpSent - 1 - (following \div PacketUnits)

\* Packet after packet is on its way; a header that has been read waits for its own payload.
StreamKnown ==
  tpc \in {"close", "forget", "lock", "recv", "put"} =>
    /\ \A i \in 1 .. Len(Uncut) : Uncut[i].number = NumberBefore(Len(Uncut) - i)
    /\ state = "header" => Len(Uncut) % PacketUnits = 0
    /\ state = "payload" =>
         /\ Len(Uncut) % PacketUnits = PayloadUnits
         /\ \A u \in 1 .. HeaderUnits : header[u].number = NumberBefore(Len(Uncut))

TcpTypeOK ==
  /\ tcpSent \in Nat
  /\ wire \in Seq(Unit) /\ tcpBuffer \in Seq(Unit)
  /\ tpc \in {"connect", "close", "forget", "lock", "recv", "put", "end", "over"}
  /\ state \in {"header", "payload"}
  /\ state = "payload" => header \in Seq(Unit) /\ Len(header) = HeaderUnits

tcpVars == <<tcpSent, wire, tpc, tcpBuffer, state, header, tcpPacket>>
TcpInv == TcpTypeOK /\ StreamKnown /\ PacketsWhole

\* Packets of four units, of which two are the header
LEMMA Fourths ==
  ASSUME NEW n \in Nat
  PROVE  /\ (n + 4) % 4 = n % 4 /\ (n + 4) \div 4 = (n \div 4) + 1
         /\ n % 4 = 0 /\ n >= 2 => (n - 2) % 4 = 2 /\ (n - 1) \div 4 = (n - 2) \div 4
         /\ n % 4 = 2 =>
              /\ n >= 2 /\ (n - 2) % 4 = 0
              /\ (n - 1) \div 4 = n \div 4 /\ (n - 2) \div 4 = n \div 4
         /\ 0 \div 4 = 0 /\ 1 \div 4 = 0 /\ 2 \div 4 = 0 /\ 3 \div 4 = 0
  OBVIOUS

\* Names that keep the provers from looking into the sequences
Joined(s, t) == s \o t
Start(s, n) == SubSeq(s, 1, n)
Rest(s, n) == SubSeq(s, n + 1, Len(s))

\* What a chunk brings is moved from the wire to the buffer.
LEMMA ChunkMoved ==
  ASSUME NEW S, NEW b \in Seq(S), NEW w \in Seq(S), NEW n \in 1 .. Len(w)
  PROVE  /\ Joined(b, Start(w, n)) \in Seq(S) /\ Rest(w, n) \in Seq(S)
         /\ Len(Joined(b, Start(w, n))) = Len(b) + n
         /\ Joined(Joined(b, Start(w, n)), Rest(w, n)) = Joined(b, w)
PROOF
  <1> DEFINE chunk == SubSeq(w, 1, n)
             left == SubSeq(w, n + 1, Len(w))
             got == b \o chunk
  <1>1. chunk \in Seq(S) /\ Len(chunk) = n /\ \A i \in 1 .. n : chunk[i] = w[i]
    OBVIOUS
  <1>2. /\ left \in Seq(S) /\ Len(left) = Len(w) - n
        /\ \A i \in 1 .. Len(w) - n : left[i] = w[n + i]
    OBVIOUS
  <1> HIDE DEF chunk, left
  <1>3. /\ got \in Seq(S) /\ Len(got) = Len(b) + n
        /\ \A i \in 1 .. Len(b) + n : got[i] = IF i <= Len(b) THEN b[i] ELSE chunk[i - Len(b)]
    BY <1>1, ConcatProperties
  <1> HIDE DEF got
  <1>4. /\ got \o left \in Seq(S) /\ Len(got \o left) = Len(b) + Len(w)
        /\ \A i \in 1 .. Len(got) + Len(left) :
             (got \o left)[i] = IF i <= Len(got) THEN got[i] ELSE left[i - Len(got)]
    <2>1. got \in Seq(S) /\ left \in Seq(S)
      BY <1>2, <1>3
    <2>2. /\ got \o left \in Seq(S) /\ Len(got \o left) = Len(got) + Len(left)
          /\ \A i \in 1 .. Len(got) + Len(left) :
               (got \o left)[i] = IF i <= Len(got) THEN got[i] ELSE left[i - Len(got)]
      BY <2>1, ConcatProperties
    <2>3. Len(got) + Len(left) = Len(b) + Len(w)
      BY <1>2, <1>3
    <2>4. QED
      BY <2>2, <2>3
  <1>5. /\ b \o w \in Seq(S) /\ Len(b \o w) = Len(b) + Len(w)
        /\ \A i \in 1 .. Len(b) + Len(w) :
             (b \o w)[i] = IF i <= Len(b) THEN b[i] ELSE w[i - Len(b)]
    BY ConcatProperties
  <1>6. ASSUME NEW i \in 1 .. Len(b) + Len(w)
        PROVE  (got \o left)[i] = (b \o w)[i]
    <2>1. CASE i <= Len(b) + n
      BY <2>1, <1>1, <1>2, <1>3, <1>4, <1>5
    <2>2. CASE ~(i <= Len(b) + n)
      <3> DEFINE j == i - Len(b) - n
      <3>1. /\ j \in 1 .. Len(w) - n /\ j = i - Len(got) /\ n + j = i - Len(b)
            /\ i \in 1 .. Len(got) + Len(left) /\ ~(i <= Len(got)) /\ ~(i <= Len(b))
        BY <2>2, <1>2, <1>3
      <3> HIDE DEF j
      <3>2. (got \o left)[i] = left[j]
        BY <3>1, <1>4
      <3>3. (b \o w)[i] = w[n + j]
        BY <3>1, <1>5
      <3>4. QED
        BY <3>1, <3>2, <3>3, <1>2
    <2>3. QED
      BY <2>1, <2>2
  <1>7. got \o left = b \o w
    BY <1>4, <1>5, <1>6, SeqEqual
  <1>8. QED
    BY <1>2, <1>3, <1>7 DEF got, chunk, left, Joined, Start, Rest

\* Units are cut off the front of the buffer.
LEMMA FrontCut ==
  ASSUME NEW S, NEW g \in Seq(S), NEW l \in Seq(S), NEW k \in 0 .. Len(g)
  PROVE  /\ Rest(g, k) \in Seq(S)
         /\ Len(Joined(Rest(g, k), l)) = Len(Joined(g, l)) - k
         /\ \A i \in 1 .. Len(Joined(g, l)) - k : Joined(Rest(g, k), l)[i] = Joined(g, l)[i + k]
PROOF
  <1> DEFINE rest == SubSeq(g, k + 1, Len(g))
  <1>1. /\ rest \in Seq(S) /\ Len(rest) = Len(g) - k
        /\ \A i \in 1 .. Len(g) - k : rest[i] = g[i + k]
    OBVIOUS
  <1> HIDE DEF rest
  <1>2. /\ Len(rest \o l) = Len(rest) + Len(l)
        /\ \A i \in 1 .. Len(rest) + Len(l) :
             (rest \o l)[i] = IF i <= Len(rest) THEN rest[i] ELSE l[i - Len(rest)]
    BY <1>1, ConcatProperties
  <1>3. /\ Len(g \o l) = Len(g) + Len(l)
        /\ \A i \in 1 .. Len(g) + Len(l) :
             (g \o l)[i] = IF i <= Len(g) THEN g[i] ELSE l[i - Len(g)]
    BY ConcatProperties
  <1>4. ASSUME NEW i \in 1 .. Len(g \o l) - k
        PROVE  (rest \o l)[i] = (g \o l)[i + k]
    <2>1. i \in 1 .. Len(rest) + Len(l) /\ i + k \in 1 .. Len(g) + Len(l)
      BY <1>1, <1>3
    <2>2. CASE i <= Len(rest)
      BY <2>1, <2>2, <1>1, <1>2, <1>3
    <2>3. CASE ~(i <= Len(rest))
      <3>1. i - Len(rest) = i + k - Len(g)
        BY <1>1
      <3>2. QED
        BY <2>1, <2>3, <3>1, <1>1, <1>2, <1>3
    <2>4. QED
      BY <2>2, <2>3
  <1>5. Len(rest \o l) = Len(g \o l) - k
    BY <1>1, <1>2, <1>3
  <1>6. QED
    BY <1>1, <1>4, <1>5 DEF rest, Joined, Rest

LEMMA JoinedElements ==
  ASSUME NEW S, NEW s \in Seq(S), NEW t \in Seq(S)
  PROVE  /\ Joined(s, t) \in Seq(S)
         /\ Len(Joined(s, t)) = Len(s) + Len(t)
         /\ \A i \in 1 .. Len(s) + Len(t) :
              Joined(s, t)[i] = IF i <= Len(s) THEN s[i] ELSE t[i - Len(s)]
BY ConcatProperties DEF Joined

LEMMA TcpInit == ClientInit => TcpInv
PROOF
  <1> SUFFICES ASSUME ClientInit
               PROVE  TcpInv
    OBVIOUS
  <1>1. TcpTypeOK
    BY DEF ClientInit, TcpTypeOK
  <1>2. StreamKnown
    BY DEF ClientInit, StreamKnown
  <1>3. PacketsWhole
    BY DEF ClientInit, PacketsWhole
  <1>4. QED
    BY <1>1, <1>2, <1>3 DEF TcpInv

\* The first two units are cut off what has been received.
LEMMA TwoCut ==
  ASSUME NEW got \in Seq(Unit), NEW left \in Seq(Unit), Len(got) >= 2,
         Joined(got, left) = Uncut, wire' = left, tcpBuffer' = Rest(got, 2)
  PROVE  /\ tcpBuffer' \in Seq(Unit)
         /\ Len(Uncut) \in Nat /\ Len(Uncut) >= 2 /\ Len(Uncut') = Len(Uncut) - 2
         /\ \A i \in 1 .. Len(Uncut) - 2 : Uncut'[i] = Uncut[i + 2]
         /\ Start(got, 2) \in Seq(Unit) /\ Len(Start(got, 2)) = 2
         /\ Start(got, 2)[1] = Uncut[1] /\ Start(got, 2)[2] = Uncut[2]
PROOF
  <1>1. /\ tcpBuffer' \in Seq(Unit) /\ Len(Uncut') = Len(Uncut) - 2
        /\ \A i \in 1 .. Len(Uncut) - 2 : Uncut'[i] = Uncut[i + 2]
    <2>1. 2 \in 0 .. Len(got)
      OBVIOUS
    <2>2. Uncut' = Joined(Rest(got, 2), left)
      BY DEF Uncut, Joined
    <2>3. QED
      BY <2>1, <2>2, FrontCut
  <1>2. got[1] = Uncut[1] /\ got[2] = Uncut[2] /\ Len(Uncut) >= 2 /\ Len(Uncut) \in Nat
    <2>1. /\ Joined(got, left) \in Seq(Unit)
          /\ Len(Joined(got, left)) = Len(got) + Len(left)
          /\ \A i \in 1 .. Len(got) + Len(left) :
               Joined(got, left)[i] = IF i <= Len(got) THEN got[i] ELSE left[i - Len(got)]
      BY JoinedElements
    <2>2. Len(got) \in Nat /\ Len(left) \in Nat
      OBVIOUS
    <2>3. /\ 1 \in 1 .. Len(got) + Len(left) /\ 2 \in 1 .. Len(got) + Len(left)
          /\ 1 <= Len(got) /\ 2 <= Len(got)
      BY <2>2
    <2>4. Joined(got, left)[1] = got[1] /\ Joined(got, left)[2] = got[2]
      BY <2>1, <2>3
    <2>5. Len(Joined(got, left)) >= 2 /\ Len(Joined(got, left)) \in Nat
      BY <2>1, <2>2
    <2>6. QED
      BY <2>4, <2>5
  <1>3. /\ Start(got, 2) \in Seq(Unit) /\ Len(Start(got, 2)) = 2
        /\ Start(got, 2)[1] = got[1] /\ Start(got, 2)[2] = got[2]
    BY DEF Start
  <1>4. QED
    BY <1>1, <1>2, <1>3

\* The next header, and the payload from the units that follow it
LEMMA HeaderCut ==
  ASSUME TcpInv, state = "header", tpc = "recv",
         NEW got \in Seq(Unit), NEW left \in Seq(Unit), Len(got) >= 2,
         Joined(got, left) = Uncut,
         wire' = left, header' = Start(got, 2), tcpBuffer' = Rest(got, 2),
         state' = "payload", UNCHANGED <<tpc, tcpPacket, tcpSent>>
  PROVE  TcpInv'
PROOF
  <1> DEFINE len == Len(Uncut)
  <1>1. /\ tcpBuffer' \in Seq(Unit)
        /\ len \in Nat /\ len >= 2 /\ Len(Uncut') = len - 2
        /\ \A i \in 1 .. len - 2 : Uncut'[i] = Uncut[i + 2]
    BY TwoCut
  <1>2. /\ header' \in Seq(Unit) /\ Len(header') = 2
        /\ header'[1] = Uncut[1] /\ header'[2] = Uncut[2]
    BY TwoCut
  <1>3. /\ \A i \in 1 .. len : Uncut[i].number = tcpSent - 1 - ((len - i) \div 4)
        /\ len % 4 = 0
    BY DEF TcpInv, StreamKnown, NumberBefore, PacketUnits, HeaderUnits, PayloadUnits
  <1>4. TcpTypeOK'
    BY <1>1, <1>2 DEF TcpTypeOK, TcpInv, HeaderUnits
  <1>5. StreamKnown'
    <2>1. \A i \in 1 .. len - 2 : Uncut'[i].number = tcpSent - 1 - ((len - 2 - i) \div 4)
      <3> SUFFICES ASSUME NEW i \in 1 .. len - 2
                   PROVE  Uncut'[i].number = tcpSent - 1 - ((len - 2 - i) \div 4)
        OBVIOUS
      <3>1. Uncut'[i] = Uncut[i + 2] /\ i + 2 \in 1 .. len /\ len - (i + 2) = len - 2 - i
        BY <1>1
      <3> HIDE DEF len
      <3>2. QED
        BY <3>1, <1>3
    <2> HIDE DEF len
    <2>2. (len - 2) % 4 = 2 /\ (len - 1) \div 4 = (len - 2) \div 4
      BY <1>1, <1>3, Fourths
    <2>3. /\ header'[1].number = tcpSent - 1 - ((len - 2) \div 4)
          /\ header'[2].number = tcpSent - 1 - ((len - 2) \div 4)
      <3>1. 1 \in 1 .. len /\ 2 \in 1 .. len
        BY <1>1
      <3>2. /\ Uncut[1].number = tcpSent - 1 - ((len - 1) \div 4)
            /\ Uncut[2].number = tcpSent - 1 - ((len - 2) \div 4)
        BY <3>1, <1>3
      <3>3. QED
        BY <3>2, <2>2, <1>2
    <2>4. Len(Uncut') = len - 2
      BY <1>1 DEF len
    <2>5. \A u \in 1 .. 2 : header'[u].number = tcpSent' - 1 - (Len(Uncut') \div 4)
      BY <2>3, <2>4
    <2>6. \A i \in 1 .. Len(Uncut') : Uncut'[i].number = tcpSent' - 1 - ((Len(Uncut') - i) \div 4)
      BY <2>1, <2>4
    <2>7. Len(Uncut') % 4 = 2
      BY <2>2, <2>4
    <2>8. QED
      BY <2>5, <2>6, <2>7 DEF StreamKnown, NumberBefore, PacketUnits, HeaderUnits, PayloadUnits
  <1>6. PacketsWhole'
    BY DEF TcpInv, PacketsWhole
  <1>7. QED
    BY <1>4, <1>5, <1>6 DEF TcpInv

\* A payload that is there as a whole: the packet is the one its header announced.
LEMMA PayloadCut ==
  ASSUME TcpInv, state = "payload", tpc = "recv",
         NEW got \in Seq(Unit), NEW left \in Seq(Unit), Len(got) >= 2,
         Joined(got, left) = Uncut,
         wire' = left, tcpPacket' = Joined(header, Start(got, 2)),
         tcpBuffer' = Rest(got, 2),
         state' = "header", tpc' = "put", UNCHANGED tcpSent
  PROVE  TcpInv'
PROOF
  <1> DEFINE len == Len(Uncut)
             body == Start(got, 2)
  <1>1. /\ tcpBuffer' \in Seq(Unit)
        /\ len \in Nat /\ len >= 2 /\ Len(Uncut') = len - 2
        /\ \A i \in 1 .. len - 2 : Uncut'[i] = Uncut[i + 2]
    BY TwoCut
  <1>2. body \in Seq(Unit) /\ Len(body) = 2 /\ body[1] = Uncut[1] /\ body[2] = Uncut[2]
    BY TwoCut
  <1>3. TcpTypeOK'
    BY <1>1 DEF TcpTypeOK, TcpInv
  <1>4. /\ \A i \in 1 .. len : Uncut[i].number = tcpSent - 1 - ((len - i) \div 4)
        /\ len % 4 = 2
        /\ \A u \in 1 .. 2 : header[u].number = tcpSent - 1 - (len \div 4)
    BY DEF TcpInv, StreamKnown, NumberBefore, PacketUnits, HeaderUnits, PayloadUnits
  <1>5. StreamKnown'
    <2>1. \A i \in 1 .. len - 2 : Uncut'[i].number = tcpSent - 1 - ((len - 2 - i) \div 4)
      <3> SUFFICES ASSUME NEW i \in 1 .. len - 2
                   PROVE  Uncut'[i].number = tcpSent - 1 - ((len - 2 - i) \div 4)
        OBVIOUS
      <3>1. Uncut'[i] = Uncut[i + 2] /\ i + 2 \in 1 .. len /\ len - (i + 2) = len - 2 - i
        BY <1>1
      <3> HIDE DEF len
      <3>2. QED
        BY <3>1, <1>4
    <2>2. (len - 2) % 4 = 0
      BY <1>4, <1>1, Fourths
    <2> HIDE DEF len
    <2>3. Len(Uncut') = len - 2
      BY <1>1 DEF len
    <2>4. Len(Uncut') % PacketUnits = 0
      BY <2>2, <2>3 DEF PacketUnits, HeaderUnits, PayloadUnits
    <2>5. \A i \in 1 .. Len(Uncut') : Uncut'[i].number = tcpSent' - 1 - ((Len(Uncut') - i) \div 4)
      BY <2>1, <2>3
    <2>6. QED
      BY <2>4, <2>5 DEF StreamKnown, NumberBefore, PacketUnits, HeaderUnits, PayloadUnits
  <1>6. PacketsWhole'
    <2>1. header \in Seq(Unit) /\ Len(header) = 2
      BY DEF TcpInv, TcpTypeOK, HeaderUnits
    <2>2. tcpPacket' = Joined(header, body)
      OBVIOUS
    <2> HIDE DEF body
    <2>3. /\ Len(tcpPacket') = 4
          /\ tcpPacket'[1] = header[1] /\ tcpPacket'[2] = header[2]
          /\ tcpPacket'[3] = body[1] /\ tcpPacket'[4] = body[2]
      <3>1. /\ Len(Joined(header, body)) = Len(header) + Len(body)
            /\ \A i \in 1 .. Len(header) + Len(body) :
                 Joined(header, body)[i] = IF i <= Len(header) THEN header[i]
                                           ELSE body[i - Len(header)]
        <4>1. header \in Seq(Unit) /\ body \in Seq(Unit)
          BY <1>2, <2>1
        <4>2. \A s, t \in Seq(Unit) :
                /\ Len(Joined(s, t)) = Len(s) + Len(t)
                /\ \A i \in 1 .. Len(s) + Len(t) :
                     Joined(s, t)[i] = IF i <= Len(s) THEN s[i] ELSE t[i - Len(s)]
          BY JoinedElements
        <4>3. QED
          BY <4>1, <4>2, Zenon
      <3>2. QED
        BY <3>1, <2>1, <2>2, <1>2
    <2>4. body[1].number = header[1].number /\ body[2].number = header[1].number
          /\ header[2].number = header[1].number
      <3>1. 1 \in 1 .. len /\ 2 \in 1 .. len /\ 1 \in 1 .. 2 /\ 2 \in 1 .. 2
        BY <1>1
      <3>2. /\ Uncut[1].number = tcpSent - 1 - ((len - 1) \div 4)
            /\ Uncut[2].number = tcpSent - 1 - ((len - 2) \div 4)
        BY <3>1, <1>4
      <3>3. (len - 1) \div 4 = len \div 4 /\ (len - 2) \div 4 = len \div 4
        BY <1>1, <1>4, Fourths
      <3>4. QED
        BY <3>1, <3>2, <3>3, <1>2, <1>4
    <2>5. QED
      BY <2>3, <2>4 DEF PacketsWhole, HeaderUnits, PayloadUnits
  <1>7. QED
    BY <1>3, <1>5, <1>6 DEF TcpInv

\* Part of a header or of a payload
LEMMA RestAwaited ==
  ASSUME TcpInv, tpc = "recv",
         NEW n \in 1 .. Len(wire),
         wire' = Rest(wire, n),
         tcpBuffer' = Joined(tcpBuffer, Start(wire, n)),
         UNCHANGED <<tpc, state, header, tcpPacket, tcpSent>>
  PROVE  TcpInv'
PROOF
  <1>1. tcpBuffer' \in Seq(Unit) /\ wire' \in Seq(Unit) /\ Uncut' = Uncut
    <2>1. tcpBuffer \in Seq(Unit) /\ wire \in Seq(Unit)
      BY DEF TcpInv, TcpTypeOK
    <2>2. QED
      BY <2>1, ChunkMoved DEF Uncut, Joined
  <1>2. QED
    BY <1>1 DEF TcpInv, TcpTypeOK, StreamKnown, PacketsWhole, NumberBefore

LEMMA TcpReceiveKeeps ==
  ASSUME TcpInv, TcpReceive
  PROVE  TcpInv'
PROOF
  <1>1. PICK n \in 1 .. Len(wire) :
        LET got == tcpBuffer \o SubSeq(wire, 1, n) IN
        /\ wire' = SubSeq(wire, n + 1, Len(wire))
        /\ \/ /\ state = "header" /\ Len(got) < HeaderUnits
              /\ tcpBuffer' = got /\ UNCHANGED <<tpc, state, header, tcpPacket>>
           \/ /\ state = "header" /\ Len(got) >= HeaderUnits
              /\ header' = SubSeq(got, 1, HeaderUnits)
              /\ tcpBuffer' = SubSeq(got, HeaderUnits + 1, Len(got))
              /\ state' = "payload" /\ UNCHANGED <<tpc, tcpPacket>>
           \/ /\ state = "payload" /\ header[1].long
              /\ tpc' = "end" /\ tcpBuffer' = <<>> /\ state' = "header" /\ header' = NoHeader
              /\ UNCHANGED tcpPacket
           \/ /\ state = "payload" /\ ~header[1].long /\ Len(got) < PayloadUnits
              /\ tcpBuffer' = got /\ UNCHANGED <<tpc, state, header, tcpPacket>>
           \/ /\ state = "payload" /\ ~header[1].long /\ Len(got) >= PayloadUnits
              /\ tcpPacket' = header \o SubSeq(got, 1, PayloadUnits)
              /\ tcpBuffer' = SubSeq(got, PayloadUnits + 1, Len(got))
              /\ state' = "header" /\ header' = NoHeader /\ tpc' = "put"
    BY DEF TcpReceive
  <1> DEFINE got == Joined(tcpBuffer, Start(wire, n))
             left == Rest(wire, n)
  <1>2. tpc = "recv" /\ UNCHANGED tcpSent
    BY DEF TcpReceive
  <1>3. tcpBuffer \in Seq(Unit) /\ wire \in Seq(Unit)
    BY DEF TcpInv, TcpTypeOK
  <1>4. /\ got \in Seq(Unit) /\ left \in Seq(Unit)
        /\ Len(got) = Len(tcpBuffer) + n /\ Joined(got, left) = Uncut
    <2>1. Uncut = Joined(tcpBuffer, wire)
      BY DEF Uncut, Joined
    <2>2. QED
      BY <2>1, <1>3, ChunkMoved
  <1>5. wire' = left
    BY <1>1 DEF Rest
  <1>6. CASE state = "header" /\ state' = "payload"
    <2>1. /\ Len(got) >= 2 /\ header' = Start(got, 2) /\ tcpBuffer' = Rest(got, 2)
          /\ UNCHANGED <<tpc, tcpPacket>>
      BY <1>1, <1>6 DEF HeaderUnits, Joined, Start, Rest
    <2> HIDE DEF got, left
    <2>2. QED
      BY <2>1, <1>2, <1>4, <1>5, <1>6, HeaderCut
  <1>7. CASE state = "payload" /\ tpc' = "end"
    <2>1. tcpBuffer' = <<>> /\ state' = "header" /\ tcpPacket' = tcpPacket
      BY <1>1, <1>2, <1>7
    <2>2. wire' \in Seq(Unit)
      BY <1>4, <1>5
    <2>3. QED
      BY <1>2, <1>7, <2>1, <2>2 DEF TcpInv, TcpTypeOK, StreamKnown, PacketsWhole
  <1>8. CASE tcpBuffer' = got /\ UNCHANGED <<tpc, state, header, tcpPacket>>
    BY <1>2, <1>8, <1>5, RestAwaited
  <1>9. CASE state = "payload" /\ tpc' = "put"
    <2>1. /\ Len(got) >= 2 /\ tcpPacket' = Joined(header, Start(got, 2))
          /\ tcpBuffer' = Rest(got, 2) /\ state' = "header"
      BY <1>1, <1>2, <1>9 DEF PayloadUnits, Joined, Start, Rest
    <2> HIDE DEF got, left
    <2>2. QED
      BY <2>1, <1>2, <1>9, <1>4, <1>5, PayloadCut
  <1>10. QED
    BY <1>1, <1>2, <1>6, <1>7, <1>8, <1>9 DEF Joined, Start

\* A whole packet joins what has not been cut.
LEMMA DeckSendsTcpKeeps ==
  ASSUME TcpInv, DeckSendsTcp
  PROVE  TcpInv'
PROOF
  <1>1. /\ tcpSent' = tcpSent + 1
        /\ UNCHANGED <<tpc, tcpBuffer, state, header, tcpPacket>>
    BY DEF DeckSendsTcp, tcp
  <1>2. PICK packet : /\ packet \in Seq(Unit) /\ Len(packet) = 4
                      /\ \A i \in 1 .. 4 : packet[i].number = tcpSent
                      /\ wire' = wire \o packet
    <2>1. PICK long \in BOOLEAN :
            wire' = wire \o [u \in 1 .. HeaderUnits + PayloadUnits |->
                               [long |-> long /\ u = 1, number |-> tcpSent]]
      BY DEF DeckSendsTcp
    <2> DEFINE packet == [u \in 1 .. 4 |-> [long |-> long /\ u = 1, number |-> tcpSent]]
    <2>2. tcpSent \in Nat
      BY DEF TcpInv, TcpTypeOK
    <2>3. \A u \in 1 .. 4 : [long |-> long /\ u = 1, number |-> tcpSent] \in Unit
      BY <2>2 DEF Unit
    <2>4. packet \in Seq(Unit) /\ Len(packet) = 4
      BY <2>3
    <2>5. \A i \in 1 .. 4 : packet[i].number = tcpSent
      OBVIOUS
    <2>6. wire' = wire \o packet
      BY <2>1 DEF HeaderUnits, PayloadUnits
    <2> HIDE DEF packet
    <2>7. QED
      BY <2>4, <2>5, <2>6
  <1>3. /\ wire' \in Seq(Unit) /\ Uncut \in Seq(Unit) /\ Uncut' = Uncut \o packet
    <2>1. wire \in Seq(Unit) /\ tcpBuffer \in Seq(Unit)
      BY DEF TcpInv, TcpTypeOK
    <2>2. Uncut' = tcpBuffer \o (wire \o packet)
      BY <1>1, <1>2 DEF Uncut
    <2>3. tcpBuffer \o (wire \o packet) = (tcpBuffer \o wire) \o packet
      <3>1. \A r, t, u \in Seq(Unit) : (r \o t) \o u = r \o (t \o u)
        BY ConcatAssociative
      <3>2. QED
        BY <1>2, <2>1, <3>1, Zenon
    <2>4. QED
      BY <1>2, <2>1, <2>2, <2>3, ConcatProperties DEF Uncut
  <1>4. /\ Len(Uncut') = Len(Uncut) + 4
        /\ \A i \in 1 .. Len(Uncut) : Uncut'[i] = Uncut[i]
        /\ \A i \in Len(Uncut) + 1 .. Len(Uncut) + 4 : Uncut'[i].number = tcpSent
    <2>1. /\ Len(Uncut') = Len(Uncut) + Len(packet)
          /\ \A i \in 1 .. Len(Uncut) + Len(packet) :
               Uncut'[i] = IF i <= Len(Uncut) THEN Uncut[i] ELSE packet[i - Len(Uncut)]
      BY <1>2, <1>3, ConcatProperties
    <2>2. Len(Uncut) \in Nat
      BY <1>3
    <2> DEFINE len == Len(Uncut)
    <2> HIDE DEF len
    <2>3. len \in Nat /\ Len(packet) = 4
      BY <1>2, <2>2 DEF len
    <2>4. ASSUME NEW i \in len + 1 .. len + 4
          PROVE  Uncut'[i].number = tcpSent
      <3>1. i \in 1 .. len + 4 /\ ~(i <= len) /\ i - len \in 1 .. 4
        BY <2>3
      <3>2. Uncut'[i] = packet[i - len]
        BY <3>1, <2>1, <2>3 DEF len
      <3>3. QED
        BY <3>1, <3>2, <1>2
    <2>5. ASSUME NEW i \in 1 .. len
          PROVE  Uncut'[i] = Uncut[i]
      <3>1. i \in 1 .. len + 4 /\ i <= len
        BY <2>3
      <3>2. QED
        BY <3>1, <2>1, <2>3 DEF len
    <2>6. QED
      BY <2>1, <2>3, <2>4, <2>5 DEF len
  <1>5. TcpTypeOK' /\ PacketsWhole'
    BY <1>1, <1>3 DEF TcpInv, TcpTypeOK, PacketsWhole
  <1>6. StreamKnown'
    <2> SUFFICES ASSUME tpc \in {"close", "forget", "lock", "recv", "put"}
                 PROVE  StreamKnown'
      BY <1>1 DEF StreamKnown
    <2> DEFINE len == Len(Uncut)
    <2>1. /\ \A i \in 1 .. len : Uncut[i].number = tcpSent - 1 - ((len - i) \div 4)
          /\ state = "header" => len % 4 = 0
          /\ state = "payload" => len % 4 = 2 /\ (\A u \in 1 .. 2 : header[u].number = tcpSent - 1 - (len \div 4))
      BY DEF TcpInv, StreamKnown, NumberBefore, PacketUnits, HeaderUnits, PayloadUnits
    <2>2. len \in Nat /\ tcpSent \in Nat
      BY <1>3 DEF TcpInv, TcpTypeOK
    <2>3. /\ state = "header" => (len + 4) % 4 = 0
          /\ state = "payload" =>
               (len + 4) % 4 = 2 /\ (\A u \in 1 .. 2 : header[u].number = tcpSent - ((len + 4) \div 4))
      BY <2>1, <2>2, Fourths
    <2>4. ASSUME NEW i \in 1 .. len + 4
          PROVE  Uncut'[i].number = tcpSent - ((len + 4 - i) \div 4)
      <3>1. CASE i <= len
        <4>1. i \in 1 .. len /\ len - i \in Nat /\ len + 4 - i = (len - i) + 4
          BY <3>1, <2>2
        <4>2. (len + 4 - i) \div 4 = ((len - i) \div 4) + 1
          BY <4>1, Fourths
        <4>3. Uncut'[i].number = tcpSent - 1 - ((len - i) \div 4)
          BY <4>1, <2>1, <1>4
        <4>4. (len - i) \div 4 \in Int
          BY <4>1
        <4> HIDE DEF len
        <4>5. QED
          BY <4>2, <4>3, <4>4, <2>2
      <3>2. CASE ~(i <= len)
        <4>1. Uncut'[i].number = tcpSent
          BY <3>2, <2>2, <1>4
        <4>2. len + 4 - i \in {0, 1, 2, 3}
          BY <3>2, <2>2
        <4>3. (len + 4 - i) \div 4 = 0
          BY <4>2, Fourths
        <4>4. QED
          BY <4>1, <4>3, <2>2
      <3>3. QED
        BY <3>1, <3>2
    <2> HIDE DEF len
    <2>5. (tcpSent + 1) - 1 = tcpSent
      BY <2>2
    <2>6. Len(Uncut') = len + 4
      BY <1>4 DEF len
    <2>7. \A i \in 1 .. Len(Uncut') :
            Uncut'[i].number = tcpSent' - 1 - ((Len(Uncut') - i) \div 4)
      <3> SUFFICES ASSUME NEW i \in 1 .. Len(Uncut')
                   PROVE  Uncut'[i].number = tcpSent' - 1 - ((Len(Uncut') - i) \div 4)
        OBVIOUS
      <3>1. i \in 1 .. len + 4
        BY <2>6
      <3>2. Uncut'[i].number = tcpSent - ((len + 4 - i) \div 4)
        BY <3>1, <2>4
      <3>3. tcpSent' - 1 = tcpSent
        BY <2>5, <1>1
      <3>4. QED
        <4>1. Len(Uncut') - i = len + 4 - i
          BY <2>2, <2>6
        <4>2. QED
          BY <3>2, <3>3, <4>1
    <2>8. /\ state' = "header" => Len(Uncut') % 4 = 0
          /\ state' = "payload" =>
               /\ Len(Uncut') % 4 = 2
               /\ \A u \in 1 .. 2 : header'[u].number = tcpSent' - 1 - (Len(Uncut') \div 4)
      BY <2>3, <2>5, <2>6, <1>1
    <2>9. QED
      BY <2>7, <2>8
         DEF StreamKnown, NumberBefore, PacketUnits, HeaderUnits, PayloadUnits
  <1>7. QED
    BY <1>5, <1>6 DEF TcpInv

LEMMA TcpConnectKeeps ==
  ASSUME TcpInv, TcpConnect
  PROVE  TcpInv'
PROOF
  <1>1. /\ wire' = <<>> /\ tcpBuffer' = <<>> /\ state' = "header"
        /\ tpc' \in {"close", "lock"} /\ UNCHANGED <<tcpSent, tcpPacket>>
    BY DEF TcpConnect, EmptyBuffer
  <1>2. Len(Uncut') = 0
    BY <1>1 DEF Uncut
  <1>3. QED
    BY <1>1, <1>2
       DEF TcpInv, TcpTypeOK, StreamKnown, PacketsWhole, PacketUnits, HeaderUnits, PayloadUnits

\* The other steps of the thread leave the stream and what was cut of it alone.
LEMMA StreamKept ==
  ASSUME TcpInv, UNCHANGED <<tcpSent, wire, tcpBuffer, state, header>>,
         tpc' \in {"close", "forget", "lock", "recv", "put"} =>
           tpc \in {"close", "forget", "lock", "recv", "put"},
         tpc' \in {"connect", "close", "forget", "lock", "recv", "put", "end", "over"},
         tcpPacket' = tcpPacket \/ tcpPacket' = <<>>
  PROVE  TcpInv'
BY DEF TcpInv, TcpTypeOK, StreamKnown, PacketsWhole, Uncut, NumberBefore

LEMMA TcpStep ==
  ASSUME TcpInv, [ClientNext]_clientVars
  PROVE  TcpInv'
PROOF
  <1>1. CASE TcpConnect
    BY <1>1, TcpConnectKeeps
  <1>2. CASE TcpReceive
    BY <1>2, TcpReceiveKeeps
  <1>3. CASE DeckSendsTcp
    BY <1>3, DeckSendsTcpKeeps
  <1>4. CASE UdpClose
    BY <1>4, StreamKept DEF UdpClose, deck
  <1>5. CASE UdpForget
    BY <1>5, StreamKept DEF UdpForget, deck
  <1>6. CASE UdpConnect
    BY <1>6, StreamKept DEF UdpConnect, deck
  <1>7. CASE TcpReset
    BY <1>7 DEF TcpReset, TcpInv, TcpTypeOK, StreamKnown, PacketsWhole
  <1>8. CASE TcpPut
    BY <1>8, StreamKept DEF TcpPut, deck
  <1>9. CASE UNCHANGED tcpVars
    BY <1>9, StreamKept DEF tcpVars, TcpInv, TcpTypeOK
  <1>10. UdpThread \/ UdpReceiveClosed \/ MainReceive \/ DeckSends \/ Lose \/ Undeliverable
           \/ UNCHANGED clientVars
         => UNCHANGED tcpVars
    BY DEF UdpThread, UdpLock, UdpEnter, UdpReceive, UdpCheck, UdpPut, UdpReceiveClosed,
           MainReceive, DeckSends, Lose, Undeliverable, clientVars, deck, tcp, tcpVars
  <1>11. QED
    BY <1>1, <1>2, <1>3, <1>4, <1>5, <1>6, <1>7, <1>8, <1>9, <1>10 DEF ClientNext, TcpThread

\* However the stream is cut into chunks and wherever a connection is lost, tcp_receive
\* cuts whole packets out of it (tcp.py, TCPClientTransport.receive).
THEOREM PacketsCutWhole == ClientSpec => []PacketsWhole
PROOF
  <1>1. TcpInv => PacketsWhole
    BY DEF TcpInv
  <1>2. QED
    BY <1>1, TcpInit, TcpStep, PTL DEF ClientSpec

------------------------------------------------------------------------------
(* StreamerClient.receive: the datagrams, from the deck to the buffer.         *)

PlaceSet == [img : 0 .. Images - 1, seg : 1 .. Segments]
Datagram == [to : Nat, seq : 0 .. SeqNumbers - 1, img : 0 .. Images - 1, seg : 1 .. Segments]
Packet ==
  [function : {"OTHER"}]
    \cup [function : {"STREAMER"}, img : 0 .. Images - 1, seg : 1 .. Segments]

Place(p) == [img |-> p.img, seg |-> p.seg]
Following(p) ==
  [img |-> IF p.seg < Segments THEN p.img ELSE (p.img + 1) % Images,
   seg |-> IF p.seg < Segments THEN p.seg + 1 ELSE 1]
Follows(p, q) == Place(q) = Following(p) /\ q.seq = (p.seq + 1) % SeqNumbers

\* The datagrams in flight, and the next one
At(i) == IF i <= Len(flight) THEN flight[i] ELSE peer
InHand == upc \in {"check", "put"}

UdpTypeOK ==
  /\ conn \in Nat /\ disturbed \in BOOLEAN
  /\ flight \in Seq(Datagram)
  /\ peer \in [seq : 0 .. SeqNumbers - 1, img : 0 .. Images - 1, seg : 1 .. Segments]
  /\ nextRx \in Nat \cup {-1, None}
  /\ upc \in {"lock", "enter", "recv", "check", "put", "dead"}
  /\ InHand => datagram \in Datagram
  /\ rxq \in Seq(Packet)
  /\ expected \in {"BEGIN", "DATA"} /\ parts \in Seq(PlaceSet) /\ remaining \in Nat
  /\ expected = "DATA" => remaining > 0 /\ begun \in 0 .. Images - 1

\* Before the first reset: there is one connection, and its socket stays.
FirstConnection ==
  /\ ~closed /\ upc # "dead" /\ tpc \notin {"close", "forget"}
  /\ tpc \in {"connect", "lock"} => socket = None
  /\ socket = None => nextRx = None /\ upc = "lock"
  /\ socket # None => nextRx # None
  /\ upc = "recv" => reading = socket

\* Each datagram follows the one before it, and the expected number is that of the first.
DatagramsInOrder ==
  /\ \A i \in 1 .. Len(flight) : Follows(At(i), At(i + 1))
  /\ InHand => Follows(datagram, At(1))
  /\ nextRx >= 0 => nextRx = IF upc = "check" THEN datagram.seq ELSE At(1).seq

\* The place of the datagram that goes into the queue next
NextPlace == IF InHand THEN Place(datagram) ELSE Place(At(1))

\* The places before and behind each packet of the queue; packets of other functions have none.
Leads(places, q) ==
  \A i \in 1 .. Len(q) :
    IF q[i].function = "STREAMER"
    THEN places[i] = Place(q[i]) /\ places[i + 1] = Following(places[i])
    ELSE places[i + 1] = places[i]

\* The place that the main thread waits for, and the parts it has up to there
Awaited(p) ==
  /\ expected = "BEGIN" => p.seg = 1
  /\ expected = "DATA" =>
       /\ remaining < Segments
       /\ p = [img |-> begun, seg |-> Segments - remaining + 1]
       /\ parts = [s \in 1 .. Segments - remaining |-> [img |-> begun, seg |-> s]]

\* The queue leads from the place the main thread waits for to the next datagram's.
QueueInOrder ==
  \E places \in [1 .. Len(rxq) + 1 -> PlaceSet] :
    /\ Awaited(places[1])
    /\ Leads(places, rxq)
    /\ places[Len(rxq) + 1] = NextPlace

Undisturbed == FirstConnection /\ DatagramsInOrder /\ QueueInOrder
UdpInv == UdpTypeOK /\ BuffersIntact /\ (~disturbed => Undisturbed)

LEMMA Follower ==
  ASSUME NEW p, p.img \in 0 .. Images - 1, p.seg \in 1 .. Segments
  PROVE  Following(p) \in PlaceSet /\ Place(p) \in PlaceSet
BY SizesAssumption DEF Following, Place, PlaceSet

LEMMA Wrapped ==
  ASSUME NEW n \in Nat
  PROVE  (n + 1) % SeqNumbers \in 0 .. SeqNumbers - 1
BY SizesAssumption

\* What RemoveAt leaves of a sequence
LEMMA Removed ==
  ASSUME NEW S, NEW s \in Seq(S), NEW i \in 1 .. Len(s)
  PROVE  /\ RemoveAt(s, i) \in Seq(S)
         /\ i = 1 => /\ Len(RemoveAt(s, i)) = Len(s) - 1
                     /\ \A j \in 1 .. Len(s) - 1 : RemoveAt(s, i)[j] = s[j + 1]
PROOF
  <1> DEFINE before == SubSeq(s, 1, i - 1)
             after == SubSeq(s, i + 1, Len(s))
  <1>1. before \in Seq(S) /\ Len(before) = i - 1
    OBVIOUS
  <1>2. /\ after \in Seq(S) /\ Len(after) = Len(s) - i
        /\ \A j \in 1 .. Len(s) - i : after[j] = s[i + j]
    OBVIOUS
  <1> HIDE DEF before, after
  <1>3. /\ before \o after \in Seq(S)
        /\ Len(before \o after) = Len(before) + Len(after)
        /\ \A j \in 1 .. Len(before) + Len(after) :
             (before \o after)[j] = IF j <= Len(before) THEN before[j] ELSE after[j - Len(before)]
    BY <1>1, <1>2, ConcatProperties
  <1>4. RemoveAt(s, i) = before \o after
    BY DEF RemoveAt, before, after
  <1>5. ASSUME i = 1
        PROVE  /\ Len(before \o after) = Len(s) - 1
               /\ \A j \in 1 .. Len(s) - 1 : (before \o after)[j] = s[j + 1]
    <2>1. Len(before) = 0 /\ Len(after) = Len(s) - 1
      BY <1>1, <1>2, <1>5
    <2>2. ASSUME NEW j \in 1 .. Len(s) - 1
          PROVE  (before \o after)[j] = s[j + 1]
      <3>1. (before \o after)[j] = after[j]
        BY <2>1, <1>3
      <3>2. QED
        BY <3>1, <1>2, <1>5
    <2>3. QED
      BY <2>1, <2>2, <1>3
  <1>6. QED
    BY <1>3, <1>4, <1>5

LEMMA TypesKept ==
  ASSUME UdpTypeOK, [ClientNext]_clientVars
  PROVE  UdpTypeOK'
PROOF
  <1> USE DEF UdpTypeOK
  <1>1. CASE TcpConnect
    BY <1>1 DEF TcpConnect, sock, udp, main, InHand
  <1>2. CASE UdpClose
    BY <1>2 DEF UdpClose, deck, udp, main, InHand
  <1>3. CASE UdpForget
    BY <1>3 DEF UdpForget, deck, udp, main, InHand
  <1>4. CASE UdpConnect
    BY <1>4 DEF UdpConnect, deck, udp, main, InHand
  <1>5. CASE TcpReceive
    BY <1>5 DEF TcpReceive, sock, udp, main, InHand
  <1>6. CASE TcpPut
    <2>1. [function |-> "OTHER"] \in Packet
      BY DEF Packet
    <2>2. QED
      BY <1>6, <2>1 DEF TcpPut, deck, sock, udp, main, InHand
  <1>7. CASE TcpReset
    BY <1>7 DEF TcpReset, sock, udp, main, InHand
  <1>8. CASE UdpLock
    BY <1>8 DEF UdpLock, deck, main, InHand
  <1>9. CASE UdpEnter
    BY <1>9 DEF UdpEnter, deck, main, InHand
  <1>10. CASE UdpReceive
    <2>1. PICK i \in 1 .. Len(flight), again \in BOOLEAN :
            /\ datagram' = flight[i]
            /\ IF i = 1 /\ ~again THEN UNCHANGED <<faults, disturbed>>
               ELSE faults < MaxFaults /\ faults' = faults + 1 /\ disturbed' = TRUE
            /\ flight' = IF again THEN flight ELSE RemoveAt(flight, i)
      BY <1>10 DEF UdpReceive
    <2>2. datagram' \in Datagram /\ flight' \in Seq(Datagram) /\ disturbed' \in BOOLEAN
      <3>1. datagram' \in Datagram
        BY <2>1
      <3>2. RemoveAt(flight, i) \in Seq(Datagram)
        BY Removed
      <3>3. flight' \in Seq(Datagram)
        BY <2>1, <3>2
      <3>4. disturbed' \in BOOLEAN
        BY <2>1
      <3>5. QED
        BY <3>1, <3>3, <3>4
    <2>3. QED
      BY <1>10, <2>2 DEF UdpReceive, tcp, sock, main, InHand
  <1>11. CASE UdpReceiveClosed
    BY <1>11 DEF UdpReceiveClosed, deck, main, InHand
  <1>12. CASE UdpCheck
    <2>1. datagram \in Datagram
      BY <1>12 DEF UdpCheck, InHand
    <2>2. AfterSeq(datagram.seq) \in Nat
      BY <2>1, Wrapped, SizesAssumption DEF Datagram, AfterSeq
    <2>3. nextRx' \in Nat \cup {-1, None} /\ upc' \in {"dead", "lock", "put"}
      BY <1>12, <2>2 DEF UdpCheck
    <2>4. InHand' => datagram' \in Datagram
      BY <1>12, <2>1 DEF UdpCheck, InHand
    <2>5. QED
      BY <1>12, <2>3, <2>4 DEF UdpCheck, deck, main
  <1>13. CASE UdpPut
    <2>1. datagram \in Datagram
      BY <1>13 DEF UdpPut, InHand
    <2>2. [function |-> "STREAMER", img |-> datagram.img, seg |-> datagram.seg] \in Packet
      BY <2>1 DEF Datagram, Packet
    <2>3. QED
      BY <1>13, <2>2 DEF UdpPut, deck, main, InHand
  <1>14. CASE MainReceive
    <2> DEFINE packet == Head(rxq)
    <2>1. packet \in Packet /\ rxq' \in Seq(Packet)
      BY <1>14 DEF MainReceive
    <2> HIDE DEF packet
    <2>2. packet.function = "STREAMER" =>
            packet.img \in 0 .. Images - 1 /\ packet.seg \in 1 .. Segments
      BY <2>1 DEF Packet
    <2>3. ASSUME NEW got \in Seq(PlaceSet), NEW left \in Nat, NEW img, img \in 0 .. Images - 1,
                 Received(got, left, img)
          PROVE  /\ expected' \in {"BEGIN", "DATA"}
                 /\ parts' \in Seq(PlaceSet) /\ remaining' \in Nat
                 /\ expected' = "DATA" => remaining' > 0 /\ begun' \in 0 .. Images - 1
      <3>1. CASE left > 1
        BY <2>3, <3>1 DEF Received
      <3>2. CASE ~(left > 1)
        <4>1. expected' = "BEGIN" /\ parts' = <<>> /\ remaining' = 0
          BY <2>3, <3>2 DEF Received
        <4>2. QED
          BY <4>1
      <3>3. QED
        BY <3>1, <3>2
    <2>4. /\ expected' \in {"BEGIN", "DATA"} /\ parts' \in Seq(PlaceSet) /\ remaining' \in Nat
          /\ expected' = "DATA" => remaining' > 0 /\ begun' \in 0 .. Images - 1
      <3>1. CASE packet.function # "STREAMER"
        BY <1>14, <3>1 DEF MainReceive, packet
      <3>2. CASE packet.function = "STREAMER" /\ packet.seg = 1
        <4> DEFINE got == <<[img |-> packet.img, seg |-> 1]>>
        <4>1. got \in Seq(PlaceSet)
          BY <2>2, <3>2, SizesAssumption DEF PlaceSet
        <4>2. Received(got, Segments, packet.img)
          BY <1>14, <3>2 DEF MainReceive, packet
        <4> HIDE DEF got
        <4>3. QED
          BY <4>1, <4>2, <2>2, <2>3, <3>2, SizesAssumption
      <3>3. CASE packet.function = "STREAMER" /\ packet.seg # 1 /\ expected = "DATA"
        <4> DEFINE got == Append(parts, [img |-> packet.img, seg |-> packet.seg])
        <4>1. got \in Seq(PlaceSet)
          BY <2>2, <3>3 DEF PlaceSet
        <4>2. Received(got, remaining, begun)
          BY <1>14, <3>3 DEF MainReceive, packet
        <4> HIDE DEF got
        <4>3. QED
          BY <4>1, <4>2, <2>3, <3>3
      <3>4. CASE packet.function = "STREAMER" /\ packet.seg # 1 /\ expected = "BEGIN"
        <4>1. expected' = "BEGIN" /\ parts' = <<>> /\ remaining' = 0
          BY <1>14, <3>4 DEF MainReceive, packet
        <4>2. QED
          BY <4>1
      <3>5. QED
        BY <3>1, <3>2, <3>3, <3>4
    <2>5. QED
      BY <1>14, <2>1, <2>4 DEF MainReceive, deck, sock, udp, InHand
  <1>15. CASE DeckSends
    <2>1. [to |-> conn, seq |-> peer.seq, img |-> peer.img, seg |-> peer.seg] \in Datagram
      BY DEF Datagram
    <2>2. flight' \in Seq(Datagram)
      BY <1>15, <2>1 DEF DeckSends
    <2>3. peer' \in [seq : 0 .. SeqNumbers - 1, img : 0 .. Images - 1, seg : 1 .. Segments]
      <3>1. (peer.seq + 1) % SeqNumbers \in 0 .. SeqNumbers - 1
        BY Wrapped
      <3>2. (peer.img + 1) % Images \in 0 .. Images - 1
        BY SizesAssumption
      <3>3. QED
        <4> DEFINE seq == (peer.seq + 1) % SeqNumbers
                   img == IF peer.seg < Segments THEN peer.img ELSE (peer.img + 1) % Images
                   seg == IF peer.seg < Segments THEN peer.seg + 1 ELSE 1
        <4>1. peer' = [seq |-> seq, img |-> img, seg |-> seg]
          BY <1>15 DEF DeckSends
        <4>2. seq \in 0 .. SeqNumbers - 1 /\ img \in 0 .. Images - 1
          BY <3>1, <3>2
        <4>3. seg \in 1 .. Segments
          BY SizesAssumption
        <4> HIDE DEF seq, img, seg
        <4>4. QED
          BY <4>1, <4>2, <4>3
    <2>4. QED
      BY <1>15, <2>2, <2>3 DEF DeckSends, tcp, sock, udp, main, InHand
  <1>16. CASE DeckSendsTcp
    BY <1>16 DEF DeckSendsTcp, sock, udp, main, InHand
  <1>17. CASE Lose
    BY <1>17, Removed DEF Lose, sock, udp, main, InHand
  <1>18. CASE Undeliverable
    BY <1>18 DEF Undeliverable, sock, udp, main, InHand
  <1>19. CASE UNCHANGED clientVars
    BY <1>19 DEF clientVars, deck, sock, udp, main, InHand
  <1>20. QED
    BY <1>1, <1>2, <1>3, <1>4, <1>5, <1>6, <1>7, <1>8, <1>9, <1>10, <1>11, <1>12, <1>13, <1>14,
       <1>15, <1>16, <1>17, <1>18, <1>19 DEF ClientNext, TcpThread, UdpThread

\* The steps that disturb the order, and nothing restores it.
LEMMA NotDisturbed ==
  ASSUME UdpTypeOK, [ClientNext]_clientVars, ~disturbed'
  PROVE  /\ ~disturbed
         /\ ~TcpReset /\ ~Lose /\ ~Undeliverable
PROOF
  <1>1. TcpReset \/ Lose \/ Undeliverable => disturbed'
    BY DEF TcpReset, Lose, Undeliverable
  <1>2. UdpReceive => disturbed' = disturbed \/ disturbed'
    BY DEF UdpReceive
  <1>3. TcpThread \/ UdpReceiveClosed \/ MainReceive \/ DeckSends \/ DeckSendsTcp
          \/ UdpLock \/ UdpEnter \/ UdpCheck \/ UdpPut \/ UNCHANGED clientVars
        => disturbed' = disturbed
    BY DEF TcpThread, TcpConnect, UdpClose, UdpForget, UdpConnect, TcpReceive, TcpPut,
           UdpReceiveClosed, MainReceive, DeckSends, DeckSendsTcp, UdpLock, UdpEnter,
           UdpCheck, UdpPut, clientVars, deck
  <1>4. QED
    BY <1>1, <1>2, <1>3 DEF ClientNext, UdpThread

\* What a step does to the threads while there has been one connection only.
LEMMA ConnectionKept ==
  ASSUME UdpTypeOK, FirstConnection, [ClientNext]_clientVars,
         ~TcpReset, ~Lose, ~Undeliverable
  PROVE  FirstConnection' /\ ~UdpReceiveClosed
PROOF
  <1> USE DEF FirstConnection
  <1>1. ~UdpReceiveClosed /\ ~UdpClose /\ ~UdpForget
    BY DEF UdpReceiveClosed, ReadingClosed, UdpClose, UdpForget
  <1>2. TcpConnect => FirstConnection'
    BY DEF TcpConnect, sock, udp
  <1>3. UdpConnect => FirstConnection'
    <2>1. conn # None
      BY DEF UdpTypeOK, None
    <2>2. QED
      BY <2>1 DEF UdpConnect, udp, None
  <1>4. TcpReceive => FirstConnection'
    <2>1. TcpReceive => tpc = "recv" /\ tpc' \in {"recv", "end", "put"} /\ UNCHANGED <<sock, udp>>
      BY DEF TcpReceive
    <2>2. QED
      BY <2>1 DEF sock, udp
  <1>5. TcpPut => FirstConnection'
    BY DEF TcpPut, sock, udp
  <1>6. UdpLock => FirstConnection'
    BY DEF UdpLock, tcp
  <1>7. UdpEnter => FirstConnection'
    BY DEF UdpEnter, tcp
  <1>8. UdpReceive => FirstConnection'
    BY DEF UdpReceive, tcp, sock
  <1>9. UdpCheck => FirstConnection'
    <2>1. datagram \in Datagram => AfterSeq(datagram.seq) # None
      BY Wrapped, SizesAssumption DEF AfterSeq, None, Datagram
    <2>2. -1 # None
      BY DEF None
    <2>3. upc = "check" => datagram \in Datagram
      BY DEF UdpTypeOK, InHand
    <2>4. QED
      BY <2>1, <2>2, <2>3 DEF UdpCheck, tcp
  <1>10. UdpPut => FirstConnection'
    BY DEF UdpPut, tcp
  <1>11. MainReceive \/ DeckSends \/ DeckSendsTcp \/ UNCHANGED clientVars => FirstConnection'
    BY DEF MainReceive, DeckSends, DeckSendsTcp, clientVars, tcp, sock, udp
  <1>12. QED
    BY <1>1, <1>2, <1>3, <1>4, <1>5, <1>6, <1>7, <1>8, <1>9, <1>10, <1>11
       DEF ClientNext, TcpThread, UdpThread

\* UdpReceive takes the first datagram, as long as it does not disturb the order.
LEMMA FirstTaken ==
  ASSUME UdpTypeOK, UdpReceive, ~disturbed'
  PROVE  /\ datagram' = flight[1] /\ 1 \in 1 .. Len(flight) /\ datagram' = At(1)
         /\ flight' \in Seq(Datagram) /\ Len(flight') = Len(flight) - 1
         /\ \A j \in 1 .. Len(flight) : At(j)' = At(j + 1)
         /\ UNCHANGED peer
PROOF
  <1>1. PICK i \in 1 .. Len(flight), again \in BOOLEAN :
          /\ datagram' = flight[i]
          /\ IF i = 1 /\ ~again THEN UNCHANGED <<faults, disturbed>>
             ELSE faults < MaxFaults /\ faults' = faults + 1 /\ disturbed' = TRUE
          /\ flight' = IF again THEN flight ELSE RemoveAt(flight, i)
    BY DEF UdpReceive
  <1>2. i = 1 /\ ~again /\ UNCHANGED peer
    BY <1>1 DEF UdpReceive
  <1>3. flight \in Seq(Datagram)
    BY DEF UdpTypeOK
  <1>4. flight' = RemoveAt(flight, 1) /\ 1 \in 1 .. Len(flight)
    BY <1>1, <1>2
  <1>5. /\ flight' \in Seq(Datagram) /\ Len(flight') = Len(flight) - 1
        /\ \A j \in 1 .. Len(flight) - 1 : flight'[j] = flight[j + 1]
    BY <1>3, <1>4, Removed
  <1>6. ASSUME NEW j \in 1 .. Len(flight)
        PROVE  At(j)' = At(j + 1)
    BY <1>2, <1>3, <1>5 DEF At
  <1>7. QED
    BY <1>1, <1>2, <1>3, <1>4, <1>5, <1>6 DEF At

\* DeckSends puts the next datagram in flight and makes up the one after it.
LEMMA NextSent ==
  ASSUME UdpTypeOK, DeckSends, NEW n, n = Len(flight)
  PROVE  /\ flight' \in Seq(Datagram) /\ Len(flight') = n + 1
         /\ \A j \in 1 .. n : At(j)' = At(j)
         /\ Place(At(n + 1)') = Place(peer) /\ At(n + 1)'.seq = peer.seq
         /\ At(n + 2)' = peer'
         /\ Follows(peer, peer')
PROOF
  <1> DEFINE new == [to |-> conn, seq |-> peer.seq, img |-> peer.img, seg |-> peer.seg]
  <1>1. new \in Datagram /\ Place(new) = Place(peer) /\ new.seq = peer.seq
    BY DEF Datagram, Place, UdpTypeOK
  <1>2. flight' = Append(flight, new) /\ flight \in Seq(Datagram) /\ n \in Nat
    BY DEF DeckSends, UdpTypeOK
  <1>3. Follows(peer, peer')
    BY DEF DeckSends, Follows, Following, Place
  <1> HIDE DEF new
  <1>4. /\ flight' \in Seq(Datagram) /\ Len(flight') = n + 1
        /\ \A j \in 1 .. n : flight'[j] = flight[j]
        /\ flight'[n + 1] = new
    BY <1>1, <1>2, AppendProperties
  <1>5. \A j \in 1 .. n : At(j)' = At(j)
    BY <1>2, <1>4 DEF At
  <1>6. At(n + 1)' = new
    BY <1>2, <1>4 DEF At
  <1>7. At(n + 2)' = peer'
    BY <1>2, <1>4 DEF At
  <1>8. QED
    BY <1>1, <1>3, <1>4, <1>5, <1>6, <1>7

\* The datagrams stay in order as long as nothing disturbs them.
LEMMA DatagramsKept ==
  ASSUME UdpTypeOK, FirstConnection, DatagramsInOrder, [ClientNext]_clientVars,
         ~disturbed', ~TcpReset, ~Lose, ~Undeliverable, ~UdpReceiveClosed
  PROVE  DatagramsInOrder'
PROOF
  <1>1. flight \in Seq(Datagram) /\ Len(flight) \in Nat
    BY DEF UdpTypeOK
  <1>2. CASE UdpReceive
    <2>1. /\ datagram' = At(1) /\ 1 \in 1 .. Len(flight) /\ Len(flight') = Len(flight) - 1
          /\ \A j \in 1 .. Len(flight) : At(j)' = At(j + 1)
      BY <1>2, FirstTaken
    <2>2. upc = "recv" /\ upc' = "check" /\ nextRx' = nextRx
      BY <1>2 DEF UdpReceive, sock
    <2>3. ASSUME NEW i \in 1 .. Len(flight')
          PROVE  Follows(At(i), At(i + 1))'
      <3>1. Follows(At(i + 1), At(i + 1 + 1))
        BY <2>1, <1>1 DEF DatagramsInOrder
      <3>2. At(i)' = At(i + 1) /\ At(i + 1)' = At(i + 1 + 1)
        BY <2>1, <1>1
      <3>3. QED
        BY <3>1, <3>2 DEF Follows, Following, Place
    <2>4. Follows(datagram, At(1))'
      <3>1. Follows(At(1), At(1 + 1))
        BY <2>1 DEF DatagramsInOrder
      <3>2. QED
        BY <3>1, <2>1 DEF Follows, Following, Place
    <2>5. nextRx' >= 0 => nextRx' = datagram'.seq
      BY <2>1, <2>2 DEF DatagramsInOrder
    <2>6. QED
      BY <2>2, <2>3, <2>4, <2>5 DEF DatagramsInOrder
  <1>3. CASE DeckSends
    <2>1. PICK n \in Nat : n = Len(flight)
      BY <1>1
    <2>2. /\ Len(flight') = n + 1
          /\ \A j \in 1 .. n : At(j)' = At(j)
          /\ Place(At(n + 1)') = Place(peer) /\ At(n + 1)'.seq = peer.seq
          /\ At(n + 2)' = peer'
          /\ Follows(peer, peer')
      BY <1>3, <2>1, NextSent
    <2>3. UNCHANGED <<upc, nextRx, datagram>>
      BY <1>3 DEF DeckSends, sock, udp
    <2>4. At(n + 1) = peer
      BY <2>1 DEF At
    <2>5. ASSUME NEW i \in 1 .. n + 1
          PROVE  Place(At(i)') = Place(At(i)) /\ At(i)'.seq = At(i).seq
      <3>1. i \in 1 .. n \/ i = n + 1
        BY <2>1
      <3>2. QED
        BY <3>1, <2>2, <2>4
    <2>6. ASSUME NEW i \in 1 .. Len(flight')
          PROVE  Follows(At(i), At(i + 1))'
      <3>1. CASE i \in 1 .. n
        <4>1. i + 1 \in 1 .. n + 1 /\ i \in 1 .. n + 1
          BY <3>1
        <4>2. Follows(At(i), At(i + 1))
          BY <3>1, <2>1 DEF DatagramsInOrder
        <4>3. QED
          BY <4>1, <4>2, <2>5 DEF Follows, Following, Place
      <3>2. CASE i = n + 1
        <4>1. At(i + 1)' = peer' /\ Place(At(i)') = Place(peer) /\ At(i)'.seq = peer.seq
          <5>1. i + 1 = n + 2
            BY <3>2, <2>1
          <5>2. QED
            BY <3>2, <5>1, <2>2
        <4>2. QED
          BY <4>1, <2>2 DEF Follows, Following, Place
      <3>3. QED
        BY <3>1, <3>2, <2>2, <2>1
    <2>7. Place(At(1)') = Place(At(1)) /\ At(1)'.seq = At(1).seq
      BY <2>5, <2>1
    <2>8. InHand' => Follows(datagram, At(1))'
      BY <2>3, <2>7 DEF DatagramsInOrder, InHand, Follows, Following, Place
    <2>9. nextRx' >= 0 => nextRx' = IF upc' = "check" THEN datagram'.seq ELSE At(1)'.seq
      BY <2>3, <2>7 DEF DatagramsInOrder
    <2>10. QED
      BY <2>6, <2>8, <2>9 DEF DatagramsInOrder
  <1>4. ASSUME UNCHANGED <<flight, peer>>
        PROVE  /\ \A i \in 1 .. Len(flight') : Follows(At(i), At(i + 1))'
               /\ At(1)' = At(1)
    BY <1>4 DEF DatagramsInOrder, At, Follows, Following, Place
  <1>5. CASE UdpCheck
    <2>1. UNCHANGED <<flight, peer>> /\ upc = "check"
      BY <1>5 DEF UdpCheck, deck
    <2>2. datagram \in Datagram /\ nextRx # None
      BY <2>1 DEF UdpTypeOK, InHand, FirstConnection
    <2>3. ~(datagram.seq < nextRx)
      <3>1. nextRx >= 0 => nextRx = datagram.seq
        BY <2>1 DEF DatagramsInOrder
      <3>2. datagram.seq \in Nat /\ nextRx \in Int
        BY <2>2, SizesAssumption DEF Datagram, UdpTypeOK, None
      <3>3. QED
        BY <3>1, <3>2
    <2>4. upc' = "put" /\ nextRx' = (datagram.seq + 1) % SeqNumbers /\ datagram' = datagram
      BY <1>5, <2>2, <2>3 DEF UdpCheck, AfterSeq
    <2>5. Follows(datagram, At(1))
      BY <2>1 DEF DatagramsInOrder, InHand
    <2>6. nextRx' = At(1)'.seq /\ Follows(datagram, At(1))'
      BY <2>1, <2>4, <2>5, <1>4 DEF Follows, Following, Place
    <2>7. QED
      BY <2>1, <2>4, <2>6, <1>4 DEF DatagramsInOrder
  <1>6. ASSUME UNCHANGED <<flight, peer>>, upc \in {"lock", "enter", "recv", "put"},
               upc' \in {"lock", "enter", "recv"}, nextRx' = nextRx \/ nextRx' = -1
        PROVE  DatagramsInOrder'
    <2>1. ~InHand'
      BY <1>6 DEF InHand
    <2>2. nextRx' >= 0 => nextRx' = At(1)'.seq
      BY <1>4, <1>6 DEF DatagramsInOrder
    <2>3. QED
      BY <1>4, <1>6, <2>1, <2>2 DEF DatagramsInOrder
  <1>7. CASE UdpLock \/ UdpEnter \/ UdpPut
    <2>1. upc' # "dead"
      BY <1>7 DEF UdpLock, UdpEnter, UdpPut, FirstConnection
    <2>2. QED
      BY <1>6, <1>7, <2>1 DEF UdpLock, UdpEnter, UdpPut, deck
  <1>8. CASE UdpConnect
    BY <1>6, <1>8 DEF UdpConnect, deck, udp, FirstConnection
  <1>9. CASE UNCHANGED <<flight, peer, upc, nextRx, datagram>>
    BY <1>4, <1>9 DEF DatagramsInOrder, InHand, Follows, Following, Place
  <1>10. TcpConnect \/ TcpReceive \/ TcpPut \/ MainReceive \/ DeckSendsTcp \/ UNCHANGED clientVars
          => UNCHANGED <<flight, peer, upc, nextRx, datagram>>
    BY DEF TcpConnect, TcpReceive, TcpPut, MainReceive, DeckSendsTcp, clientVars, deck, sock, udp
  <1>11. ~UdpClose /\ ~UdpForget
    BY DEF UdpClose, UdpForget, FirstConnection
  <1>12. QED
    BY <1>2, <1>3, <1>5, <1>7, <1>8, <1>9, <1>10, <1>11 DEF ClientNext, TcpThread, UdpThread

\* The first n segments of a buffer
FirstOf(img, n) == [s \in 1 .. n |-> [img |-> img, seg |-> s]]

LEMMA OneMore ==
  ASSUME NEW n \in Nat, NEW img \in 0 .. Images - 1, n < Segments
  PROVE  Append(FirstOf(img, n), [img |-> img, seg |-> n + 1]) = FirstOf(img, n + 1)
PROOF
  <1> DEFINE last == [img |-> img, seg |-> n + 1]
  <1>1. FirstOf(img, n) \in Seq(PlaceSet) /\ Len(FirstOf(img, n)) = n /\ last \in PlaceSet
    <2>1. last \in PlaceSet
      BY SizesAssumption DEF PlaceSet
    <2>2. FirstOf(img, n) \in [1 .. n -> PlaceSet]
      BY SizesAssumption DEF FirstOf, PlaceSet
    <2>3. QED
      BY <2>1, <2>2
  <1>2. FirstOf(img, n + 1) \in [1 .. n + 1 -> PlaceSet]
    BY SizesAssumption DEF FirstOf, PlaceSet
  <1> DEFINE longer == Append(FirstOf(img, n), last)
  <1>3. /\ longer \in Seq(PlaceSet) /\ Len(longer) = n + 1
        /\ \A s \in 1 .. n : longer[s] = FirstOf(img, n)[s]
        /\ longer[n + 1] = last
    BY <1>1, AppendProperties
  <1>4. ASSUME NEW s \in 1 .. n + 1
        PROVE  longer[s] = FirstOf(img, n + 1)[s]
    BY <1>3 DEF FirstOf
  <1> HIDE DEF longer
  <1>5. longer \in [1 .. n + 1 -> PlaceSet]
    BY <1>3, LenProperties
  <1>6. longer = FirstOf(img, n + 1)
    BY <1>2, <1>4, <1>5
  <1>7. QED
    BY <1>6 DEF longer

\* A datagram that is on time is not dropped by the check of its number.
LEMMA OnTime ==
  ASSUME UdpTypeOK, FirstConnection, DatagramsInOrder, UdpCheck
  PROVE  upc' = "put" /\ datagram' = datagram /\ datagram \in Datagram
PROOF
  <1>1. upc = "check"
    BY DEF UdpCheck
  <1>2. datagram \in Datagram /\ nextRx # None
    BY <1>1 DEF UdpTypeOK, InHand, FirstConnection
  <1>3. nextRx >= 0 => nextRx = datagram.seq
    BY <1>1 DEF DatagramsInOrder
  <1>4. datagram.seq \in Nat /\ nextRx \in Int
    BY <1>2, SizesAssumption DEF Datagram, UdpTypeOK, None
  <1>5. ~(datagram.seq < nextRx)
    BY <1>3, <1>4
  <1>6. QED
    BY <1>2, <1>5 DEF UdpCheck

LEMMA QueueGrown ==
  ASSUME NEW q \in Seq(Packet), NEW p \in Packet, NEW next \in PlaceSet,
         NEW places \in [1 .. Len(q) + 1 -> PlaceSet], Leads(places, q),
         IF p.function = "STREAMER"
         THEN places[Len(q) + 1] = Place(p) /\ next = Following(places[Len(q) + 1])
         ELSE next = places[Len(q) + 1]
  PROVE  \E more \in [1 .. Len(Append(q, p)) + 1 -> PlaceSet] :
           /\ more[1] = places[1] /\ Leads(more, Append(q, p))
           /\ more[Len(Append(q, p)) + 1] = next
PROOF
  <1> DEFINE n == Len(q)
             more == [i \in 1 .. n + 2 |-> IF i <= n + 1 THEN places[i] ELSE next]
             longer == Append(q, p)
  <1>1. n \in Nat
    OBVIOUS
  <1>2. /\ longer \in Seq(Packet) /\ Len(longer) = n + 1
        /\ \A i \in 1 .. n : longer[i] = q[i]
        /\ longer[n + 1] = p
    BY AppendProperties
  <1>3. more \in [1 .. n + 2 -> PlaceSet]
    BY <1>1
  <1>4. /\ \A i \in 1 .. n + 1 : more[i] = places[i]
        /\ more[n + 2] = next
    BY <1>1
  <1> HIDE DEF more, longer
  <1>5. ASSUME NEW i \in 1 .. n + 1
        PROVE  IF longer[i].function = "STREAMER"
               THEN more[i] = Place(longer[i]) /\ more[i + 1] = Following(more[i])
               ELSE more[i + 1] = more[i]
    <2>1. CASE i \in 1 .. n
      <3>1. longer[i] = q[i] /\ more[i] = places[i] /\ more[i + 1] = places[i + 1]
        BY <2>1, <1>1, <1>2, <1>4
      <3>2. QED
        BY <2>1, <3>1 DEF Leads
    <2>2. CASE i = n + 1
      <3>1. longer[i] = p /\ more[i] = places[n + 1] /\ more[i + 1] = next
        <4>1. i + 1 = n + 2 /\ n + 1 \in 1 .. n + 1
          BY <2>2, <1>1
        <4>2. QED
          BY <2>2, <4>1, <1>2, <1>4
      <3>2. QED
        BY <3>1
    <2>3. QED
      BY <2>1, <2>2, <1>1
  <1>6. Leads(more, longer) /\ Len(longer) + 1 = n + 2 /\ 1 \in 1 .. n + 1
    BY <1>1, <1>2, <1>5 DEF Leads
  <1>7. more[1] = places[1] /\ more[Len(longer) + 1] = next
    BY <1>4, <1>6
  <1>8. more \in [1 .. Len(longer) + 1 -> PlaceSet]
    BY <1>3, <1>6
  <1>9. QED
    BY <1>6, <1>7, <1>8 DEF longer

LEMMA QueueShrunk ==
  ASSUME NEW q \in Seq(Packet), q # <<>>,
         NEW places \in [1 .. Len(q) + 1 -> PlaceSet], Leads(places, q)
  PROVE  \E fewer \in [1 .. Len(Tail(q)) + 1 -> PlaceSet] :
           /\ fewer[1] = places[2] /\ Leads(fewer, Tail(q))
           /\ fewer[Len(Tail(q)) + 1] = places[Len(q) + 1]
PROOF
  <1> DEFINE n == Len(q)
             fewer == [i \in 1 .. n |-> places[i + 1]]
             rest == Tail(q)
  <1>1. n \in Nat \ {0}
    OBVIOUS
  <1>2. rest \in Seq(Packet) /\ Len(rest) = n - 1 /\ \A i \in 1 .. n - 1 : rest[i] = q[i + 1]
    OBVIOUS
  <1>3. fewer \in [1 .. n -> PlaceSet]
    BY <1>1
  <1>4. \A i \in 1 .. n : fewer[i] = places[i + 1]
    OBVIOUS
  <1> HIDE DEF fewer, rest
  <1>5. ASSUME NEW i \in 1 .. n - 1
        PROVE  IF rest[i].function = "STREAMER"
               THEN fewer[i] = Place(rest[i]) /\ fewer[i + 1] = Following(fewer[i])
               ELSE fewer[i + 1] = fewer[i]
    <2>1. rest[i] = q[i + 1] /\ fewer[i] = places[i + 1] /\ fewer[i + 1] = places[i + 1 + 1]
      BY <1>1, <1>2, <1>4
    <2>2. i + 1 \in 1 .. n
      BY <1>1
    <2>3. QED
      BY <2>1, <2>2 DEF Leads
  <1>6. Leads(fewer, rest) /\ Len(rest) + 1 = n /\ 1 \in 1 .. n /\ n \in 1 .. n
    BY <1>1, <1>2, <1>5 DEF Leads
  <1>7. fewer[1] = places[2] /\ fewer[Len(rest) + 1] = places[n + 1]
    BY <1>4, <1>6
  <1>8. fewer \in [1 .. Len(rest) + 1 -> PlaceSet]
    BY <1>3, <1>6
  <1>9. QED
    BY <1>6, <1>7, <1>8 DEF rest

\* What is yielded is whole, checksum or not.
Whole == yielded # Nothing => yielded.parts = FirstOf(yielded.buffer, Segments)

\* StreamerClient.receive takes the packet it waits for.
LEMMA Fed ==
  ASSUME UdpTypeOK, MainReceive, NEW p, Awaited(p), NEW q, q = Following(p),
         Head(rxq).function = "STREAMER", p = Place(Head(rxq))
  PROVE  Awaited(q)' /\ Whole'
PROOF
  <1> DEFINE packet == Head(rxq)
  <1>1. packet \in Packet
    BY DEF MainReceive, UdpTypeOK
  <1>2. /\ packet.img \in 0 .. Images - 1 /\ packet.seg \in 1 .. Segments
        /\ p = [img |-> packet.img, seg |-> packet.seg]
    BY <1>1 DEF Packet, Place
  <1>3. packet.function = "STREAMER"
    OBVIOUS
  <1>4. packet.seg = 1 \/ expected = "DATA"
    BY <1>2 DEF Awaited, UdpTypeOK
  <1>5. \/ packet.seg = 1 /\ Received(<<[img |-> packet.img, seg |-> 1]>>, Segments, packet.img)
        \/ /\ packet.seg > 1 /\ expected = "DATA"
           /\ Received(Append(parts, [img |-> packet.img, seg |-> packet.seg]), remaining, begun)
    BY <1>3, <1>4 DEF MainReceive, UdpTypeOK
  <1> HIDE DEF packet
  <1>6. ASSUME NEW left \in Nat \ {0}, NEW img \in 0 .. Images - 1, left <= Segments,
               Received(FirstOf(img, Segments - left + 1), left, img),
               p = [img |-> img, seg |-> Segments - left + 1]
        PROVE  Awaited(q)' /\ Whole'
    <2>1. CASE left > 1
      <3>1. /\ expected' = "DATA" /\ parts' = FirstOf(img, Segments - left + 1)
            /\ remaining' = left - 1 /\ begun' = img /\ yielded' = Nothing
        BY <1>6, <2>1 DEF Received
      <3>2. q = [img |-> img, seg |-> Segments - left + 2]
        BY <1>6, <2>1, SizesAssumption DEF Following
      <3>3. Segments - (left - 1) = Segments - left + 1 /\ left - 1 < Segments
            /\ Segments - (left - 1) + 1 = Segments - left + 2
        BY <1>6, SizesAssumption
      <3>4. Awaited(q)'
        BY <3>1, <3>2, <3>3 DEF Awaited, FirstOf
      <3>5. QED
        BY <3>1, <3>4 DEF Whole
    <2>2. CASE left = 1
      <3>1. Segments - left + 1 = Segments
        BY <2>2, SizesAssumption
      <3>2. /\ expected' = "BEGIN"
            /\ yielded' = Nothing \/ yielded' = [buffer |-> img, parts |-> FirstOf(img, Segments)]
        BY <1>6, <2>2, <3>1 DEF Received
      <3>3. q.seg = 1
        BY <1>6, <3>1, SizesAssumption DEF Following
      <3>4. Awaited(q)'
        BY <3>2, <3>3 DEF Awaited
      <3>5. QED
        BY <3>2, <3>4 DEF Whole
    <2>3. QED
      BY <2>1, <2>2, <1>6
  <1>7. CASE /\ packet.seg = 1
             /\ Received(<<[img |-> packet.img, seg |-> 1]>>, Segments, packet.img)
    <2>1. <<[img |-> packet.img, seg |-> 1]>> = FirstOf(packet.img, 1)
      BY DEF FirstOf
    <2>2. Segments - Segments + 1 = 1 /\ Segments \in Nat \ {0} /\ Segments <= Segments
      BY SizesAssumption
    <2>3. QED
      BY <1>2, <1>6, <1>7, <2>1, <2>2
  <1>8. CASE /\ packet.seg > 1 /\ expected = "DATA"
             /\ Received(Append(parts, [img |-> packet.img, seg |-> packet.seg]), remaining, begun)
    <2>1. /\ remaining \in Nat \ {0} /\ begun \in 0 .. Images - 1 /\ remaining < Segments
          /\ p = [img |-> begun, seg |-> Segments - remaining + 1]
          /\ parts = FirstOf(begun, Segments - remaining)
      BY <1>8 DEF UdpTypeOK, Awaited, FirstOf
    <2>2. packet.img = begun /\ packet.seg = Segments - remaining + 1
      BY <1>2, <2>1
    <2>3. Segments - remaining \in Nat /\ Segments - remaining < Segments /\ remaining <= Segments
      BY <2>1, SizesAssumption
    <2>4. Append(parts, [img |-> packet.img, seg |-> packet.seg])
            = FirstOf(begun, Segments - remaining + 1)
      BY <2>1, <2>2, <2>3, OneMore
    <2>5. QED
      BY <1>6, <1>8, <2>1, <2>3, <2>4
  <1>9. QED
    BY <1>5, <1>7, <1>8

\* At the end of the queue nothing changes ...
LEMMA NextKept ==
  ASSUME UdpTypeOK, FirstConnection, DatagramsInOrder, [ClientNext]_clientVars,
         ~disturbed', ~TcpReset, ~Lose, ~Undeliverable, ~UdpReceiveClosed, ~UdpPut
  PROVE  NextPlace' = NextPlace
PROOF
  <1>1. flight \in Seq(Datagram) /\ Len(flight) \in Nat
    BY DEF UdpTypeOK
  <1>2. CASE UdpReceive
    <2>1. datagram' = At(1) /\ upc = "recv" /\ upc' = "check"
      BY <1>2, FirstTaken DEF UdpReceive
    <2>2. QED
      BY <2>1 DEF NextPlace, InHand, Place
  <1>3. CASE UdpCheck
    <2>1. upc = "check" /\ upc' = "put" /\ datagram' = datagram
      BY <1>3, OnTime DEF UdpCheck
    <2>2. QED
      BY <2>1 DEF NextPlace, InHand, Place
  <1>4. CASE DeckSends
    <2>1. UNCHANGED <<upc, datagram>>
      BY <1>4 DEF DeckSends, udp
    <2>2. Place(At(1)') = Place(At(1))
      <3>1. PICK n \in Nat : n = Len(flight)
        BY <1>1
      <3>2. /\ \A j \in 1 .. n : At(j)' = At(j)
            /\ Place(At(n + 1)') = Place(peer)
        BY <1>4, <3>1, NextSent
      <3>3. CASE n = 0
        <4>1. At(1) = peer /\ n + 1 = 1
          BY <3>1, <3>3 DEF At
        <4>2. QED
          BY <3>2, <4>1
      <3>4. CASE n # 0
        BY <3>1, <3>2, <3>4
      <3>5. QED
        BY <3>3, <3>4
    <2>3. QED
      BY <2>1, <2>2 DEF NextPlace, InHand, Place
  <1>5. CASE UNCHANGED <<flight, peer, datagram>> /\ InHand' = InHand
    BY <1>5 DEF NextPlace, At, Place
  <1>6. CASE UdpLock \/ UdpEnter
    <2>1. upc' # "dead"
      BY <1>6 DEF UdpLock, UdpEnter, FirstConnection
    <2>2. InHand' = InHand /\ UNCHANGED <<flight, peer, datagram>>
      BY <1>6, <2>1 DEF UdpLock, UdpEnter, deck, InHand
    <2>3. QED
      BY <2>2, <1>5
  <1>7. TcpConnect \/ UdpConnect \/ TcpReceive \/ TcpPut \/ MainReceive \/ DeckSendsTcp
          \/ UNCHANGED clientVars
        => UNCHANGED <<flight, peer, upc, datagram>>
    BY DEF TcpConnect, UdpConnect, TcpReceive, TcpPut, MainReceive, DeckSendsTcp, clientVars, deck,
           sock, udp
  <1>8. UNCHANGED <<flight, peer, upc, datagram>>
          => UNCHANGED <<flight, peer, datagram>> /\ InHand' = InHand
    BY DEF InHand
  <1>9. ~UdpClose /\ ~UdpForget
    BY DEF UdpClose, UdpForget, FirstConnection
  <1>10. QED
    BY <1>2, <1>3, <1>4, <1>5, <1>6, <1>7, <1>8, <1>9 DEF ClientNext, TcpThread, UdpThread

\* ... until the datagram is put into it; the next one follows it.
LEMMA NextPut ==
  ASSUME UdpTypeOK, DatagramsInOrder, UdpPut
  PROVE  /\ datagram \in Datagram /\ NextPlace = Place(datagram)
         /\ NextPlace' = Following(NextPlace)
PROOF
  <1>1. /\ InHand /\ ~InHand' /\ datagram \in Datagram /\ UNCHANGED <<flight, peer>>
    BY DEF UdpPut, InHand, UdpTypeOK, deck
  <1>2. Place(At(1)) = Following(datagram) /\ At(1)' = At(1)
    BY <1>1 DEF DatagramsInOrder, Follows, At
  <1>3. QED
    BY <1>1, <1>2 DEF NextPlace, Following, Place

LEMMA NextTyped ==
  ASSUME UdpTypeOK
  PROVE  NextPlace \in PlaceSet
PROOF
  <1>1. InHand => Place(datagram) \in PlaceSet
    BY Follower DEF UdpTypeOK, Datagram
  <1>2. At(1).img \in 0 .. Images - 1 /\ At(1).seg \in 1 .. Segments
    <2>1. flight \in Seq(Datagram)
      BY DEF UdpTypeOK
    <2>2. 1 <= Len(flight) => flight[1] \in Datagram
      BY <2>1
    <2>3. QED
      BY <2>2 DEF At, Datagram, UdpTypeOK
  <1>3. QED
    BY <1>1, <1>2, Follower DEF NextPlace

LEMMA QueueKept ==
  ASSUME UdpTypeOK, UdpTypeOK', FirstConnection, DatagramsInOrder, QueueInOrder,
         [ClientNext]_clientVars,
         ~disturbed', ~TcpReset, ~Lose, ~Undeliverable, ~UdpReceiveClosed
  PROVE  QueueInOrder' /\ (MainReceive => Whole')
PROOF
  <1>1. PICK places \in [1 .. Len(rxq) + 1 -> PlaceSet] :
          /\ Awaited(places[1])
          /\ Leads(places, rxq)
          /\ places[Len(rxq) + 1] = NextPlace
    BY DEF QueueInOrder
  <1>2. rxq \in Seq(Packet) /\ NextPlace \in PlaceSet /\ NextPlace' \in PlaceSet
    <2>1. NextPlace' \in PlaceSet
      <3>1. CASE UdpPut
        <4>1. NextPlace.img \in 0 .. Images - 1 /\ NextPlace.seg \in 1 .. Segments
          BY NextTyped DEF PlaceSet
        <4>2. QED
          BY <3>1, <4>1, NextPut, Follower
      <3>2. CASE ~UdpPut
        BY <3>2, NextKept, NextTyped
      <3>3. QED
        BY <3>1, <3>2
    <2>2. QED
      BY <2>1, NextTyped DEF UdpTypeOK
  <1>3. PICK first, next : first = places[1] /\ next = NextPlace'
    OBVIOUS
  <1>4. ASSUME NEW p \in Packet, rxq' = Append(rxq, p),
               UNCHANGED <<expected, parts, remaining, begun>>,
               IF p.function = "STREAMER" THEN NextPlace = Place(p) /\ next = Following(NextPlace)
               ELSE next = NextPlace
        PROVE  QueueInOrder'
    <2>1. \E more \in [1 .. Len(Append(rxq, p)) + 1 -> PlaceSet] :
            /\ more[1] = places[1] /\ Leads(more, Append(rxq, p))
            /\ more[Len(Append(rxq, p)) + 1] = next
      BY <1>1, <1>2, <1>3, <1>4, QueueGrown
    <2>2. PICK more \in [1 .. Len(rxq') + 1 -> PlaceSet] :
            more[1] = first /\ Leads(more, rxq') /\ more[Len(rxq') + 1] = next
      BY <2>1, <1>3, <1>4
    <2>3. Awaited(first)'
      BY <1>1, <1>3, <1>4 DEF Awaited
    <2>4. QED
      BY <2>2, <2>3, <1>3 DEF QueueInOrder
  <1>5. CASE TcpPut
    <2>1. [function |-> "OTHER"] \in Packet /\ [function |-> "OTHER"].function # "STREAMER"
      BY DEF Packet
    <2>2. /\ rxq' = Append(rxq, [function |-> "OTHER"])
          /\ UNCHANGED <<expected, parts, remaining, begun>>
      BY <1>5 DEF TcpPut, main
    <2>3. NextPlace' = NextPlace /\ ~MainReceive
      <3>1. ~UdpPut
        BY <1>5 DEF TcpPut, UdpPut, udp
      <3>2. ~MainReceive
        BY <1>5 DEF TcpPut, MainReceive, tcp
      <3>3. QED
        BY <3>1, <3>2, NextKept
    <2>4. QED
      BY <2>1, <2>2, <2>3, <1>3, <1>4
  <1>6. CASE UdpPut
    <2> DEFINE p == [function |-> "STREAMER", img |-> datagram.img, seg |-> datagram.seg]
    <2>1. datagram \in Datagram /\ NextPlace = Place(datagram) /\ NextPlace' = Following(NextPlace)
      BY <1>6, NextPut
    <2>2. p \in Packet /\ p.function = "STREAMER" /\ Place(p) = Place(datagram)
      BY <2>1 DEF Packet, Datagram, Place
    <2>3. rxq' = Append(rxq, p) /\ UNCHANGED <<expected, parts, remaining, begun>> /\ ~MainReceive
      BY <1>6 DEF UdpPut, MainReceive, main, udp
    <2> HIDE DEF p
    <2>4. QED
      BY <2>1, <2>2, <2>3, <1>3, <1>4
  <1>7. CASE MainReceive
    <2> DEFINE packet == Head(rxq)
    <2>1. rxq # <<>> /\ rxq' = Tail(rxq) /\ packet = rxq[1]
      BY <1>7 DEF MainReceive
    <2>2. NextPlace' = NextPlace
      <3>1. ~UdpPut
        BY <1>7 DEF MainReceive, UdpPut, udp
      <3>2. QED
        BY <3>1, NextKept
    <2>3. PICK second : second = places[2]
      OBVIOUS
    <2>4. /\ Len(rxq) \in Nat \ {0}
          /\ IF packet.function = "STREAMER"
             THEN first = Place(packet) /\ second = Following(first)
             ELSE second = first
      <3>1. 1 \in 1 .. Len(rxq) /\ 1 + 1 = 2
        BY <1>2, <2>1
      <3>2. QED
        BY <3>1, <1>1, <1>2, <1>3, <2>1, <2>3 DEF Leads
    <2>5. Awaited(second)' /\ Whole'
      <3>1. CASE packet.function = "STREAMER"
        BY <3>1, <2>4, <1>1, <1>3, <1>7, Fed
      <3>2. CASE packet.function # "STREAMER"
        <4>1. yielded' = Nothing /\ UNCHANGED <<expected, parts, remaining, begun>>
          BY <1>7, <3>2 DEF MainReceive
        <4>2. QED
          BY <4>1, <3>2, <2>4, <1>1, <1>3 DEF Awaited, Whole
      <3>3. QED
        BY <3>1, <3>2
    <2>6. PICK fewer \in [1 .. Len(rxq') + 1 -> PlaceSet] :
            fewer[1] = second /\ Leads(fewer, rxq') /\ fewer[Len(rxq') + 1] = NextPlace'
      <3>1. \E fewer \in [1 .. Len(Tail(rxq)) + 1 -> PlaceSet] :
              /\ fewer[1] = places[2] /\ Leads(fewer, Tail(rxq))
              /\ fewer[Len(Tail(rxq)) + 1] = places[Len(rxq) + 1]
        BY <1>1, <1>2, <2>1, QueueShrunk
      <3>2. QED
        BY <3>1, <1>1, <2>1, <2>2, <2>3
    <2>7. QueueInOrder'
      BY <2>5, <2>6 DEF QueueInOrder
    <2>8. QED
      BY <2>5, <2>7
  <1>8. CASE ~TcpPut /\ ~UdpPut /\ ~MainReceive
    <2>1. UNCHANGED <<rxq, expected, parts, remaining, begun>>
      BY <1>8 DEF ClientNext, TcpThread, UdpThread, TcpConnect, UdpClose, UdpForget, UdpConnect,
         TcpReceive, UdpLock, UdpEnter, UdpReceive, UdpCheck, DeckSends, DeckSendsTcp,
         clientVars, main
    <2>2. NextPlace' = NextPlace
      BY <1>8, NextKept
    <2>3. Awaited(first)'
      BY <1>1, <1>3, <2>1 DEF Awaited
    <2>4. /\ places \in [1 .. Len(rxq') + 1 -> PlaceSet] /\ Leads(places, rxq')
          /\ places[Len(rxq') + 1] = NextPlace' /\ places[1] = first
      BY <1>1, <1>3, <2>1, <2>2
    <2>5. QED
      BY <1>8, <2>3, <2>4 DEF QueueInOrder
  <1>9. QED
    BY <1>5, <1>6, <1>7, <1>8

LEMMA YieldsKept ==
  ASSUME UdpTypeOK, BuffersIntact, [ClientNext]_clientVars,
         ~disturbed' => (MainReceive => Whole')
  PROVE  BuffersIntact'
PROOF
  <1>1. CASE MainReceive
    <2>1. disturbed' = disturbed /\ disturbed \in BOOLEAN
      BY <1>1 DEF MainReceive, deck, UdpTypeOK
    <2>2. CASE ~disturbed
      BY <1>1, <2>1, <2>2 DEF Whole, BuffersIntact, FirstOf
    <2>3. CASE disturbed
      <3>1. ASSUME NEW got, NEW left, NEW img, Received(got, left, img)
            PROVE  yielded' # Nothing =>
                     \/ yielded'.parts =
                          [s \in 1 .. Segments |-> [img |-> yielded'.buffer, seg |-> s]]
                     \/ yielded'.buffer \notin Summed
        <4>1. \/ yielded' = Nothing
              \/ ~Corrupted(img, got) /\ yielded' = [buffer |-> img, parts |-> got]
          BY <3>1 DEF Received
        <4>2. CASE ~Corrupted(img, got) /\ yielded' = [buffer |-> img, parts |-> got]
          <5>1. yielded'.buffer = img /\ yielded'.parts = got
            BY <4>2
          <5>2. CASE img \notin Summed
            BY <5>1, <5>2
          <5>3. CASE got = [s \in 1 .. Segments |-> [img |-> img, seg |-> s]]
            BY <5>1, <5>3
          <5>4. QED
            BY <4>2, <5>2, <5>3 DEF Corrupted
        <4>3. QED
          BY <4>1, <4>2
      <3>2. \/ yielded' = Nothing
            \/ \E got, left, img : Received(got, left, img)
        BY <1>1 DEF MainReceive
      <3>3. QED
        BY <2>1, <2>3, <3>1, <3>2 DEF BuffersIntact
    <2>4. QED
      BY <2>2, <2>3, <2>1
  <1>2. CASE ~MainReceive
    <2>1. yielded' = yielded
      BY <1>2 DEF ClientNext, TcpThread, UdpThread, TcpConnect, UdpClose, UdpForget, UdpConnect,
         TcpReceive, TcpReset, TcpPut, UdpLock, UdpEnter, UdpReceive, UdpReceiveClosed, UdpCheck,
         UdpPut, DeckSends, DeckSendsTcp, Lose, Undeliverable, clientVars, main
    <2>2. disturbed => disturbed'
      BY NotDisturbed DEF UdpTypeOK
    <2>3. QED
      BY <2>1, <2>2 DEF BuffersIntact
  <1>3. QED
    BY <1>1, <1>2

LEMMA UdpStep ==
  ASSUME UdpInv, [ClientNext]_clientVars
  PROVE  UdpInv'
PROOF
  <1>1. UdpTypeOK'
    BY TypesKept DEF UdpInv
  <1>2. ASSUME ~disturbed'
        PROVE  Undisturbed' /\ (MainReceive => Whole')
    <2>1. ~disturbed /\ ~TcpReset /\ ~Lose /\ ~Undeliverable
      BY <1>2, NotDisturbed DEF UdpInv
    <2>2. FirstConnection /\ DatagramsInOrder /\ QueueInOrder /\ UdpTypeOK
      BY <2>1 DEF UdpInv, Undisturbed
    <2>3. FirstConnection' /\ ~UdpReceiveClosed
      BY <2>1, <2>2, ConnectionKept
    <2>4. DatagramsInOrder'
      BY <1>2, <2>1, <2>2, <2>3, DatagramsKept
    <2>5. QueueInOrder' /\ (MainReceive => Whole')
      BY <1>1, <1>2, <2>1, <2>2, <2>3, QueueKept
    <2>6. QED
      BY <2>3, <2>4, <2>5 DEF Undisturbed
  <1>3. BuffersIntact'
    BY <1>2, YieldsKept DEF UdpInv
  <1>4. QED
    BY <1>1, <1>2, <1>3 DEF UdpInv

LEMMA UdpInit ==
  ASSUME ClientInit
  PROVE  UdpInv
PROOF
  <1>1. UdpTypeOK
    <2>1. 0 \in 0 .. SeqNumbers - 1 /\ 0 \in 0 .. Images - 1 /\ 1 \in 1 .. Segments
      BY SizesAssumption
    <2>2. peer \in [seq : 0 .. SeqNumbers - 1, img : 0 .. Images - 1, seg : 1 .. Segments]
      BY <2>1 DEF ClientInit
    <2>3. flight \in Seq(Datagram) /\ rxq \in Seq(Packet) /\ parts \in Seq(PlaceSet)
      BY DEF ClientInit
    <2>4. QED
      BY <2>2, <2>3 DEF ClientInit, UdpTypeOK, InHand
  <1>2. BuffersIntact
    BY DEF ClientInit, BuffersIntact
  <1>3. FirstConnection
    BY DEF ClientInit, FirstConnection
  <1>4. DatagramsInOrder
    BY DEF ClientInit, DatagramsInOrder, InHand, None
  <1>5. QueueInOrder
    <2> DEFINE places == [i \in 1 .. 1 |-> NextPlace]
    <2>1. NextPlace \in PlaceSet /\ NextPlace.seg = 1
      <3>1. NextPlace \in PlaceSet
        BY <1>1, NextTyped
      <3>2. NextPlace = Place(peer) /\ peer.seg = 1
        BY DEF ClientInit, NextPlace, InHand, At
      <3>3. QED
        BY <3>1, <3>2 DEF Place
    <2>2. Awaited(places[1])
      BY <2>1 DEF ClientInit, Awaited
    <2>3. rxq = <<>> /\ Len(rxq) + 1 = 1 /\ places \in [1 .. 1 -> PlaceSet] /\ places[1] = NextPlace
      BY <2>1 DEF ClientInit
    <2> HIDE DEF places
    <2>4. Leads(places, rxq)
      BY <2>3 DEF Leads
    <2>5. QED
      BY <2>2, <2>3, <2>4 DEF QueueInOrder
  <1>6. QED
    BY <1>1, <1>2, <1>3, <1>4, <1>5 DEF UdpInv, Undisturbed

\* A buffer that StreamerClient.receive yields is the one that was sent, segment by segment:
\* its checksum shows it, and without a checksum the order of the packets, from the datagrams
\* in flight to the queue, unless the network or a reset has disturbed it (streamer.py,
\* StreamerClient.receive).
THEOREM BuffersYieldedIntact == ClientSpec => []BuffersIntact
PROOF
  <1>1. ClientInit => UdpInv
    BY UdpInit
  <1>2. UdpInv /\ [ClientNext]_clientVars => UdpInv'
    BY UdpStep
  <1>3. UdpInv => BuffersIntact
    BY DEF UdpInv
  <1>4. QED
    BY <1>1, <1>2, <1>3, PTL DEF ClientSpec
==============================================================================
