--------------------------- MODULE StreamerProofs ----------------------------
(***************************************************************************)
(* Theorems about SpiTransfer and Streamer, for every MTU, storage,        *)
(* announced size and length.  First what a frame's transfers carry; then  *)
(* that the receiving side of Streamer leaves them to SpiTransfer, so that *)
(* those theorems hold there too, and that the buffers it hands over are   *)
(* whole.                                                                  *)
(***************************************************************************)
EXTENDS Streamer, TLAPS

\* The lengths of the send request are whole words and fit in a packet.
RequestInv ==
  /\ head_length \in Nat /\ tail_length \in Nat
  /\ head_length % 4 = 0 /\ tail_length % 4 = 0
  /\ head_length + tail_length <= MTU

\* What is left of the frame, and that the packet being sent is not beyond it.
FrameInv ==
  /\ frame_size \in Nat /\ remaining_length \in Int /\ sent \in Nat
  /\ sent + remaining_length = frame_size
  /\ remaining_length > -4
  /\ phase = "ready" \/ (phase \in {"head", "tail", "over"} /\ send_req) =>
       tail_length < remaining_length + 4

\* How far the transfer is.
TransferInv ==
  /\ send_req \in BOOLEAN /\ received \in Nat
  /\ clocked \in Nat /\ written \in Nat /\ releases \in Nat
  /\ written <= MTU
  /\ phase = "head" => clocked = 0 /\ written = 0 /\ releases = 0
  /\ phase = "tail" =>
       /\ clocked = HeadLength /\ written = HeadLength
       /\ releases = IF EndsAtHead(SendLength, received, HeadLength) THEN 1 ELSE 0
  /\ phase = "over" =>
       /\ clocked = HeadLength + TailBytes(SendLength, received, HeadLength)
       /\ releases = 1

Inv ==
  /\ phase \in Phase
  /\ failed = FALSE
  /\ RequestInv
  /\ FrameInv
  /\ TransferInv
------------------------------------------------------------------------------
(* Arithmetic of whole words. *)

LEMMA RoundingUp ==
  ASSUME NEW n \in Int
  PROVE  /\ RoundedUp(n) \in Int
         /\ RoundedUp(n) % 4 = 0
         /\ RoundedUp(n) >= n /\ RoundedUp(n) < n + 4
  BY DEF RoundedUp

LEMMA RoundingDown ==
  ASSUME NEW n \in Int
  PROVE  /\ RoundedDown(n) \in Int
         /\ RoundedDown(n) % 4 = 0
         /\ RoundedDown(n) <= n /\ RoundedDown(n) > n - 4
  BY DEF RoundedDown

\* Rounding up does not pass a bound that is itself a whole number of words.
LEMMA RoundingUpBounded ==
  ASSUME NEW n \in Int, NEW m \in Int, m % 4 = 0, n <= m
  PROVE  RoundedUp(n) <= m
  BY DEF RoundedUp

LEMMA WordsAdd ==
  ASSUME NEW a \in Int, NEW b \in Int, a % 4 = 0, b % 4 = 0
  PROVE  (a + b) % 4 = 0 /\ (a - b) % 4 = 0
  OBVIOUS
------------------------------------------------------------------------------
(* The lengths of a transfer. *)

\* The total length is that of the longer packet, and never above the MTU.
LEMMA TotalLengthBounds ==
  ASSUME NEW send \in Nat, NEW recv \in Nat, send <= MTU
  PROVE  /\ TotalLength(send, recv) \in Nat
         /\ TotalLength(send, recv) <= MTU
         /\ TotalLength(send, recv) >= send
         /\ TotalLength(send, recv) >= Shorter(recv, MTU)
  BY MtuAssumption DEF TotalLength, Longer, Shorter

\* The tail takes the transfer to the end of the longer packet, in whole words and
\* within the MTU.
LEMMA TailBytesBounds ==
  ASSUME NEW send \in Nat, NEW recv \in Nat, NEW head \in Nat,
         send <= MTU, head <= send, head % 4 = 0
  PROVE  /\ TailBytes(send, recv, head) \in Nat
         /\ TailBytes(send, recv, head) % 4 = 0
         /\ head + TailBytes(send, recv, head) >= TotalLength(send, recv)
         /\ head + TailBytes(send, recv, head) <= MTU
         /\ TailBytes(send, recv, head) = 0 <=> EndsAtHead(send, recv, head)
  <1> DEFINE total == TotalLength(send, recv)
             rest == total - head
  <1>0. total \in Nat /\ total <= MTU /\ total >= send
    BY TotalLengthBounds
  <1>1. rest \in Nat /\ rest <= MTU - head
    BY <1>0, MtuAssumption
  <1>2. MTU \in Int /\ (MTU - head) % 4 = 0
    BY MtuAssumption, WordsAdd
  <1>3. RoundedUp(rest) \in Int /\ RoundedUp(rest) % 4 = 0
        /\ RoundedUp(rest) >= rest /\ RoundedUp(rest) < rest + 4
    BY <1>1, RoundingUp
  <1>4. RoundedUp(rest) <= MTU - head
    BY <1>1, <1>2, RoundingUpBounded
  <1>5. RoundedUp(rest) = 0 <=> rest = 0
    BY <1>1, <1>3
  <1>6. TailBytes(send, recv, head) = RoundedUp(rest)
    BY DEF TailBytes
  <1>7. EndsAtHead(send, recv, head) <=> rest = 0
    BY <1>0 DEF EndsAtHead
  <1> QED
    BY <1>0, <1>1, <1>2, <1>3, <1>4, <1>5, <1>6, <1>7

\* A packet of the frame is a positive number of whole words, fits, and passes the
\* end of the frame by less than a word.
LEMMA PacketLengthBounds ==
  ASSUME NEW head \in Nat, head % 4 = 0, head + 4 <= MTU,
         remaining_length \in Int, remaining_length > 0
  PROVE  /\ PacketLength(head) \in Nat
         /\ PacketLength(head) % 4 = 0
         /\ head + PacketLength(head) <= MTU
         /\ PacketLength(head) < remaining_length + 4
  <1> DEFINE room == MaxTailLength(head)
  <1>1. room \in Nat /\ room % 4 = 0 /\ head + room <= MTU
    <2>1. MTU - head \in Int /\ MTU - head >= 4 /\ (MTU - head) % 4 = 0
      BY MtuAssumption, WordsAdd
    <2>2. /\ room \in Int /\ room % 4 = 0
          /\ room <= MTU - head /\ room > MTU - head - 4
      BY <2>1, RoundingDown DEF MaxTailLength
    <2> QED
      BY <2>1, <2>2, MtuAssumption
  <1>2. CASE remaining_length <= room
    <2>1. PacketLength(head) = RoundedUp(remaining_length)
      BY <1>1, <1>2 DEF PacketLength, Shorter
    <2>2. RoundedUp(remaining_length) <= room
      BY <1>1, <1>2, RoundingUpBounded
    <2>3. /\ RoundedUp(remaining_length) \in Int
          /\ RoundedUp(remaining_length) % 4 = 0
          /\ RoundedUp(remaining_length) >= remaining_length
          /\ RoundedUp(remaining_length) < remaining_length + 4
      BY RoundingUp
    <2> QED
      BY <1>1, <2>1, <2>2, <2>3, MtuAssumption
  <1>3. CASE ~(remaining_length <= room)
    <2>1. PacketLength(head) = room
      BY <1>1, <1>3 DEF PacketLength, Shorter
    <2> QED
      BY <1>1, <1>3, <2>1, MtuAssumption
  <1> QED
    BY <1>2, <1>3

\* The lengths of a request, and of no request, are those of a transfer.
LEMMA RequestLengths ==
  ASSUME RequestInv, send_req \in BOOLEAN
  PROVE  /\ HeadLength \in Nat /\ HeadLength % 4 = 0
         /\ SendLength \in Nat
         /\ HeadLength <= SendLength /\ SendLength <= MTU
  BY MtuAssumption DEF RequestInv, HeadLength, SendLength
------------------------------------------------------------------------------
(* The invariant. *)

LEMMA HeadsAreWords ==
  /\ BeginHead \in Nat /\ BeginHead % 4 = 0 /\ BeginHead + 4 <= MTU
  /\ DataHead \in Nat /\ DataHead % 4 = 0 /\ DataHead + 4 <= MTU
  BY HeadAssumption

LEMMA InitInv == Init => Inv
  <1> SUFFICES ASSUME Init PROVE Inv
    OBVIOUS
  <1> USE DEF Init
  <1>1. phase \in Phase /\ failed = FALSE
    BY DEF Phase
  <1>2. RequestInv
    BY HeadsAreWords, MtuAssumption DEF RequestInv, Longer
  <1>3. FrameInv
    BY DEF FrameInv
  <1>4. TransferInv
    <2>1. written <= MTU
      BY MtuAssumption
    <2>2. phase # "head" /\ phase # "tail" /\ phase # "over"
      OBVIOUS
    <2> QED
      BY <2>1, <2>2 DEF TransferInv
  <1> QED
    BY <1>1, <1>2, <1>3, <1>4 DEF Inv

\* A frame starts with all of it left to send.
LEMMA BeginFrameInv ==
  ASSUME Inv, NEW size \in FrameSizes, BeginFrame(size)
  PROVE  Inv'
  <1> USE DEF BeginFrame
  <1>1. phase' \in Phase /\ failed' = FALSE
    BY DEF Inv
  <1>2. RequestInv'
    BY DEF Inv, RequestInv, request
  <1>3. FrameInv'
    <2>1. size \in Nat /\ size > -4
      BY InputAssumption
    <2> QED
      BY <2>1 DEF Inv, FrameInv, transfer
  <1>4. TransferInv'
    BY DEF Inv, TransferInv, transfer
  <1> QED
    BY <1>1, <1>2, <1>3, <1>4 DEF Inv

\* The new lengths are acceptable, also at the moment when the head is set.
LEMMA PreparePacketInv ==
  ASSUME Inv, PreparePacket
  PROVE  Inv'
  <1> USE DEF PreparePacket
  <1>1. /\ NextHead \in Nat /\ NextHead % 4 = 0 /\ NextHead + 4 <= MTU
    BY HeadsAreWords DEF NextHead
  <1>2. /\ PacketLength(NextHead) \in Nat
        /\ PacketLength(NextHead) % 4 = 0
        /\ NextHead + PacketLength(NextHead) <= MTU
        /\ PacketLength(NextHead) < remaining_length + 4
    <2>1. remaining_length \in Int /\ remaining_length > 0
      BY DEF Inv, FrameInv
    <2> QED
      BY <1>1, <2>1, PacketLengthBounds
  <1>3. RequestInv'
    BY <1>1, <1>2 DEF RequestInv
  <1>4. failed' = FALSE
    <2>1. Acceptable(head_length, 0)
      BY MtuAssumption DEF Inv, RequestInv, Acceptable
    <2>2. Acceptable(head_length', 0)
      BY <1>1, MtuAssumption DEF Acceptable
    <2>3. Acceptable(head_length', tail_length')
      BY <1>1, <1>2 DEF Acceptable
    <2> QED
      BY <2>1, <2>2, <2>3
  <1>5. FrameInv'
    BY <1>2 DEF Inv, FrameInv, frame, transfer
  <1>6. TransferInv'
    BY DEF Inv, TransferInv, transfer
  <1>7. phase' \in Phase
    BY DEF Phase
  <1> QED
    BY <1>3, <1>4, <1>5, <1>6, <1>7 DEF Inv

LEMMA TransferHeaderInv ==
  ASSUME Inv, NEW length \in ReceivedLengths, TransferHeader(length)
  PROVE  Inv'
  <1> USE DEF TransferHeader
  <1>1. phase' \in Phase /\ failed' = FALSE
    BY DEF Inv, Phase
  <1>2. RequestInv'
    BY DEF Inv, RequestInv, request
  <1>3. FrameInv'
    BY DEF Inv, FrameInv, frame, request
  <1>4. TransferInv'
    BY InputAssumption, MtuAssumption DEF Inv, TransferInv
  <1> QED
    BY <1>1, <1>2, <1>3, <1>4 DEF Inv

LEMMA TransferHeadInv ==
  ASSUME Inv, TransferHead
  PROVE  Inv'
  <1> USE DEF TransferHead
  <1>0. /\ HeadLength \in Nat /\ HeadLength % 4 = 0
        /\ SendLength \in Nat
        /\ HeadLength <= SendLength /\ SendLength <= MTU
    BY RequestLengths DEF Inv, TransferInv
  <1>1. phase' \in Phase /\ failed' = FALSE
    BY <1>0 DEF Phase
  <1>2. RequestInv'
    BY DEF Inv, RequestInv, request
  <1>3. FrameInv'
    BY DEF Inv, FrameInv, frame, request
  <1>4. HeadLength' = HeadLength /\ SendLength' = SendLength
    BY DEF HeadLength, SendLength, request
  <1>5. TransferInv'
    BY <1>0, <1>4, MtuAssumption DEF Inv, TransferInv, EndsAtHead
  <1> QED
    BY <1>1, <1>2, <1>3, <1>5 DEF Inv

LEMMA TransferTailInv ==
  ASSUME Inv, TransferTail
  PROVE  Inv'
  <1> USE DEF TransferTail
  <1> DEFINE bytes == TailBytes(SendLength, received, HeadLength)
  <1>0. /\ HeadLength \in Nat /\ HeadLength % 4 = 0
        /\ SendLength \in Nat
        /\ HeadLength <= SendLength /\ SendLength <= MTU
    BY RequestLengths DEF Inv, TransferInv
  <1>1. /\ bytes \in Nat /\ bytes % 4 = 0
        /\ HeadLength + bytes <= MTU
        /\ bytes = 0 <=> EndsAtHead(SendLength, received, HeadLength)
    <2>1. received \in Nat
      BY DEF Inv, TransferInv
    <2> QED
      BY <1>0, <2>1, TailBytesBounds
  <1>2. phase' \in Phase /\ failed' = FALSE
    BY <1>1 DEF Phase
  <1>3. RequestInv'
    BY DEF Inv, RequestInv, request
  <1>4. FrameInv'
    BY DEF Inv, FrameInv, frame, request
  <1>5. HeadLength' = HeadLength /\ SendLength' = SendLength
    BY DEF HeadLength, SendLength, request
  <1>6. /\ clocked = HeadLength /\ written = HeadLength
        /\ releases = IF EndsAtHead(SendLength, received, HeadLength) THEN 1 ELSE 0
        /\ send_req \in BOOLEAN /\ received \in Nat
    BY DEF Inv, TransferInv
  <1>7. /\ clocked' = HeadLength + bytes /\ written' = HeadLength + bytes
        /\ releases' = 1
    BY <1>1, <1>6
  <1>8. TransferInv'
    BY <1>0, <1>1, <1>5, <1>6, <1>7 DEF TransferInv
  <1> QED
    BY <1>2, <1>3, <1>4, <1>8 DEF Inv

LEMMA CompleteTransferInv ==
  ASSUME Inv, CompleteTransfer
  PROVE  Inv'
  <1> USE DEF CompleteTransfer
  <1>1. phase' \in Phase /\ failed' = FALSE
    BY DEF Inv, Phase, transfer
  <1>2. RequestInv'
    BY DEF Inv, RequestInv, request
  <1>3. FrameInv'
    <2>1. CASE send_req
      <3>1. tail_length < remaining_length + 4 /\ tail_length \in Nat
        BY <2>1 DEF Inv, FrameInv, RequestInv
      <3> QED
        BY <2>1, <3>1 DEF Inv, FrameInv
    <2>2. CASE ~send_req
      BY <2>2 DEF Inv, FrameInv
    <2> QED
      BY <2>1, <2>2
  <1>4. TransferInv'
    BY DEF Inv, TransferInv, transfer
  <1> QED
    BY <1>1, <1>2, <1>3, <1>4 DEF Inv

LEMMA NextInv == Inv /\ [Next]_vars => Inv'
  <1> SUFFICES ASSUME Inv, [Next]_vars PROVE Inv'
    OBVIOUS
  <1>1. ASSUME NEW size \in FrameSizes, BeginFrame(size) PROVE Inv'
    BY <1>1, BeginFrameInv
  <1>2. CASE PreparePacket
    BY <1>2, PreparePacketInv
  <1>3. ASSUME NEW length \in ReceivedLengths, TransferHeader(length) PROVE Inv'
    BY <1>3, TransferHeaderInv
  <1>4. CASE TransferHead
    BY <1>4, TransferHeadInv
  <1>5. CASE TransferTail
    BY <1>5, TransferTailInv
  <1>6. CASE CompleteTransfer
    BY <1>6, CompleteTransferInv
  <1>7. CASE UNCHANGED vars
    BY <1>7 DEF vars, frame, request, transfer, Inv, RequestInv, FrameInv, TransferInv,
             HeadLength, SendLength, EndsAtHead
  <1> QED
    BY <1>1, <1>2, <1>3, <1>4, <1>5, <1>6, <1>7 DEF Next

\* The inductive invariant holds of every behaviour of the streamer's transfers.
THEOREM TransferInvariant == Spec => []Inv
  BY InitInv, NextInv, PTL DEF Spec

\* The state keeps its type; head and tail never pass the MTU.
THEOREM TypeCorrect == Spec => []TypeOK
  <1>1. Inv => TypeOK
    <2> SUFFICES ASSUME Inv PROVE TypeOK
      OBVIOUS
    <2>1. head_length \in 0 .. MTU /\ tail_length \in 0 .. MTU
      BY MtuAssumption DEF Inv, RequestInv
    <2> QED
      BY <2>1 DEF Inv, FrameInv, TransferInv, TypeOK
  <1> QED
    BY <1>1, TransferInvariant, PTL

\* No assertion on a length fails, for any MTU, size of frame and length of NINA's.
THEOREM LengthsAccepted == Spec => []NoAssertionFailure
  <1>1. Inv => NoAssertionFailure
    BY DEF Inv, NoAssertionFailure
  <1> QED
    BY <1>1, TransferInvariant, PTL

\* A transfer clocks all of the packet of the streamer and of NINA's.
THEOREM BothPacketsCovered == Spec => []CoversBothPackets
  <1>1. Inv => CoversBothPackets
    <2> SUFFICES ASSUME Inv, phase = "over"
                 PROVE  clocked >= SendLength /\ clocked >= Shorter(received, MTU)
      BY DEF CoversBothPackets
    <2> DEFINE total == TotalLength(SendLength, received)
    <2>1. /\ HeadLength \in Nat /\ HeadLength % 4 = 0
          /\ SendLength \in Nat
          /\ HeadLength <= SendLength /\ SendLength <= MTU
      BY RequestLengths DEF Inv, TransferInv
    <2>2. received \in Nat
      BY DEF Inv, TransferInv
    <2>3. total \in Nat /\ total >= SendLength /\ total >= Shorter(received, MTU)
      BY <2>1, <2>2, TotalLengthBounds
    <2>4. clocked >= total
      <3>1. clocked = HeadLength + TailBytes(SendLength, received, HeadLength)
        BY DEF Inv, TransferInv
      <3>2. HeadLength + TailBytes(SendLength, received, HeadLength) >= total
        BY <2>1, <2>2, TailBytesBounds
      <3> QED
        BY <3>1, <3>2
    <2>5. clocked \in Nat /\ Shorter(received, MTU) \in Nat
      BY <2>2, MtuAssumption DEF Inv, TransferInv, Shorter
    <2> QED
      BY <2>1, <2>3, <2>4, <2>5
  <1> QED
    BY <1>1, TransferInvariant, PTL

\* The receive buffer is not overrun, whatever length NINA announces.
THEOREM ReceiveBufferBounded == Spec => []WithinReceiveBuffer
  <1>1. Inv => WithinReceiveBuffer
    BY DEF Inv, TransferInv, WithinReceiveBuffer
  <1> QED
    BY <1>1, TransferInvariant, PTL

\* The chip select is released once in every transfer, by the phase that clocks its
\* last byte.
THEOREM ChipSelectReleasedOnce == Spec => []ReleasedOnce
  <1>1. Inv => ReleasedOnce
    <2> SUFFICES ASSUME Inv PROVE ReleasedOnce
      OBVIOUS
    <2>1. phase = "over" => releases = 1
      BY DEF Inv, TransferInv
    <2>2. ASSUME phase = "tail", releases = 1
          PROVE  TailBytes(SendLength, received, HeadLength) = 0
      <3>1. EndsAtHead(SendLength, received, HeadLength)
        BY <2>2 DEF Inv, TransferInv
      <3>2. /\ HeadLength \in Nat /\ HeadLength % 4 = 0
            /\ SendLength \in Nat
            /\ HeadLength <= SendLength /\ SendLength <= MTU
        BY RequestLengths DEF Inv, TransferInv
      <3>3. received \in Nat
        BY DEF Inv, TransferInv
      <3> QED
        BY <3>1, <3>2, <3>3, TailBytesBounds
    <2> QED
      BY <2>1, <2>2 DEF ReleasedOnce
  <1> QED
    BY <1>1, TransferInvariant, PTL

\* A transfer takes the packet it is given, clocks all of both packets, writes no more
\* than the receive buffer and ends once, whatever the lengths.
THEOREM TransfersExact == Spec => []TransferExact
  <1>1. NoAssertionFailure /\ CoversBothPackets /\ WithinReceiveBuffer /\ ReleasedOnce
          => TransferExact
    BY DEF TransferExact
  <1> QED
    BY <1>1, LengthsAccepted, BothPacketsCovered, ReceiveBufferBounded,
       ChipSelectReleasedOnce, PTL

\* The packets carry every frame whole, with less than a word of padding at its end.
THEOREM FrameCarriedWhole == Spec => []WholeFrame
  <1>1. Inv => WholeFrame
    BY DEF Inv, FrameInv, WholeFrame
  <1> QED
    BY <1>1, TransferInvariant, PTL
------------------------------------------------------------------------------

\* Room in the storage, and whose turn it is: the buffer is armed as long as its
\* task waits and has not been told.
RxInv ==
  /\ armed \in BOOLEAN /\ pushed \in {0, 1} /\ read_to \in Nat
  /\ rx_task \in {"arming", "waiting"}
  /\ buffer \in [size : Nat, received_size : Nat, checksum : BOOLEAN, intact : BOOLEAN]
  /\ buffer.received_size <= buffer.size /\ buffer.size <= StorageCapacity
  /\ read_to <= MTU
  /\ rx_task = "arming" => ~armed
  /\ rx_task = "waiting" => (armed <=> pushed = 0)
  /\ pushed = 1 =>
       /\ buffer.received_size = buffer.size
       /\ buffer.size > 0 /\ buffer.checksum => buffer.intact

StreamerInv == RxInv /\ failed = FALSE
------------------------------------------------------------------------------
LEMMA Sizes ==
  /\ MTU \in Nat /\ StorageCapacity \in Nat
  /\ \A packet \in Packet :
       /\ Head(packet) \in Nat /\ Head(packet) + StorageCapacity <= MTU
       /\ ~TooBig(packet) => packet.size <= StorageCapacity
PROOF
  <1>1. MTU \in Nat /\ StorageCapacity \in Nat /\ BeginHead \in Nat /\ DataHead \in Nat
    BY StorageAssumption, MtuAssumption, HeadAssumption
  <1>2. BeginHead + StorageCapacity <= MTU /\ DataHead + StorageCapacity <= MTU
    BY <1>1, StorageAssumption DEF Longer
  <1>3. ASSUME NEW packet \in Packet, ~TooBig(packet)
        PROVE  packet.size <= StorageCapacity
    <2>1. packet.size \in Nat
      BY StorageAssumption DEF Packet
    <2> QED
      BY <1>1, <1>3, <2>1 DEF TooBig
  <1> QED
    BY <1>1, <1>2, <1>3 DEF Head

\* A segment length is a natural number, also when it has wrapped around.
LEMMA SegmentIsNat ==
  ASSUME NEW packet \in Packet, received \in Nat
  PROVE  SegmentLength(packet) \in Nat
  BY Sizes, StorageAssumption DEF SegmentLength

\* An empty buffer is a buffer, and the task still waits for it.
LEMMA EmptyKeepsInv ==
  ASSUME RxInv, armed, NEW flag \in BOOLEAN,
         buffer' = [Empty EXCEPT !.intact = flag],
         UNCHANGED <<armed, pushed, rx_task>>, read_to' \in Nat, read_to' <= MTU
  PROVE  RxInv'
PROOF
  <1>1. /\ buffer' \in [size : Nat, received_size : Nat, checksum : BOOLEAN, intact : BOOLEAN]
        /\ buffer'.size = 0 /\ buffer'.received_size = 0
    BY DEF Empty
  <1> QED
    BY <1>1, Sizes DEF RxInv

\* What happens to a segment when the buffer is armed: whichever way it goes the
\* invariant holds, for the buffer there is or the one a BEGIN starts.
LEMMA SegmentStep ==
  ASSUME RxInv, armed, received \in Nat, NEW packet \in Packet,
         NEW b \in [size : Nat, received_size : Nat, checksum : BOOLEAN, intact : BOOLEAN],
         b.received_size <= b.size, b.size <= StorageCapacity,
         ReceiveData(b, packet), UNCHANGED rx_task
  PROVE  RxInv'
PROOF
  <1> DEFINE segment == SegmentLength(packet)
  <1>1. /\ rx_task = "waiting" /\ rx_task' = "waiting" /\ pushed = 0
        /\ read_to \in Nat /\ read_to <= MTU
    BY DEF RxInv
  <1>2. segment \in Nat /\ MTU \in Nat /\ StorageCapacity \in Nat
        /\ Head(packet) \in Nat /\ Head(packet) + StorageCapacity <= MTU
    BY Sizes, SegmentIsNat
  <1>3. CASE DropSegment(b)
    BY <1>1, <1>3 DEF DropSegment, RxInv
  <1>4. CASE DropBuffer(b, segment)
    <2>1. buffer' = [Empty EXCEPT !.intact = b.intact] /\ UNCHANGED <<armed, pushed, read_to>>
      BY <1>4 DEF DropBuffer
    <2>2. b.intact \in BOOLEAN
      OBVIOUS
    <2> QED
      BY <1>1, <2>1, <2>2, EmptyKeepsInv
  <1>5. ASSUME NEW follows \in BOOLEAN, KeepSegment(b, segment, follows),
               read_to' = Head(packet) + segment
        PROVE  RxInv'
    <2> DEFINE stored == [b EXCEPT !.received_size = @ + segment, !.intact = @ /\ follows]
    <2>1. /\ segment <= b.size - b.received_size
          /\ stored \in [size : Nat, received_size : Nat, checksum : BOOLEAN, intact : BOOLEAN]
          /\ stored.size = b.size /\ stored.received_size = b.received_size + segment
      <3>1. segment <= b.size - b.received_size
        BY <1>5 DEF KeepSegment
      <3>2. b.received_size + segment \in Nat
        BY <1>2
      <3> QED
        BY <3>1, <3>2
    <2>2. stored.received_size <= stored.size /\ stored.size <= StorageCapacity
      BY <1>2, <2>1
    <2>3. read_to' \in Nat /\ read_to' <= MTU
      BY <1>2, <1>5, <2>1
    <2>4. CASE stored.received_size # stored.size
      <3>1. buffer' = stored /\ UNCHANGED <<armed, pushed>>
        BY <1>5, <2>4 DEF KeepSegment
      <3> QED
        BY <1>1, <2>1, <2>2, <2>3, <3>1 DEF RxInv
    <2>5. CASE stored.received_size = stored.size /\ ChecksumFails(stored)
      <3>1. buffer' = [Empty EXCEPT !.intact = FALSE] /\ UNCHANGED <<armed, pushed>>
        BY <1>5, <2>5 DEF KeepSegment
      <3> QED
        BY <2>3, <3>1, EmptyKeepsInv
    <2>6. CASE stored.received_size = stored.size /\ ~ChecksumFails(stored)
      <3>1. buffer' = stored /\ pushed' = pushed + 1 /\ armed' = FALSE
        BY <1>5, <2>6 DEF KeepSegment, Complete
      <3>2. stored.checksum => stored.intact
        BY <2>6 DEF ChecksumFails
      <3> HIDE DEF stored
      <3>3. buffer'.received_size = buffer'.size /\ (buffer'.checksum => buffer'.intact)
        BY <2>6, <3>1, <3>2
      <3>4. pushed' = 1
        BY <1>1, <3>1
      <3>5. armed' \in BOOLEAN /\ ~armed'
        BY <3>1
      <3>6. buffer' = stored
        BY <3>1
      <3> QED
        BY <1>1, <2>1, <2>2, <2>3, <3>3, <3>4, <3>5, <3>6 DEF RxInv
    <2> QED
      BY <2>4, <2>5, <2>6
  <1>6. (packet.command = "BEGIN" \/ packet.follows) \in BOOLEAN
    BY DEF Packet
  <1> QED
    BY <1>3, <1>4, <1>5, <1>6 DEF ReceiveData

LEMMA ReceiveStep ==
  ASSUME RxInv, received \in Nat, NEW packet \in Packet, ReceivePacket(packet),
         UNCHANGED rx_task
  PROVE  RxInv'
PROOF
  <1>1. CASE Ignored(packet)
    BY <1>1 DEF ReceivePacket, RxInv
  <1>2. CASE ~Ignored(packet) /\ packet.command = "BEGIN" /\ ReceiveData(Begun(packet), packet)
    <2>1. armed /\ packet.size <= StorageCapacity
      BY <1>2, Sizes DEF Ignored
    <2>2. /\ Begun(packet) \in [size : Nat, received_size : Nat, checksum : BOOLEAN,
                                intact : BOOLEAN]
          /\ Begun(packet).received_size <= Begun(packet).size
          /\ Begun(packet).size <= StorageCapacity
      <3>1. packet.size \in Nat /\ packet.checksum \in BOOLEAN
        BY StorageAssumption DEF Packet
      <3> QED
        BY <2>1, <3>1 DEF Begun
    <2> QED
      BY <1>2, <2>1, <2>2, SegmentStep
  <1>3. CASE ~Ignored(packet) /\ packet.command = "DATA" /\ ReceiveData(buffer, packet)
    <2>1. armed
      BY <1>3 DEF Ignored
    <2> QED
      BY <1>3, <2>1, SegmentStep DEF RxInv
  <1>4. packet.command \in {"BEGIN", "DATA", "unknown"}
    BY DEF Packet
  <1> QED
    BY <1>1, <1>2, <1>3 DEF ReceivePacket

\* Both streamer_buffer_init and the cancellation empty the buffer.
LEMMA Emptied ==
  ASSUME RxInv, buffer' = [buffer EXCEPT !.size = 0, !.received_size = 0]
  PROVE  /\ buffer' \in [size : Nat, received_size : Nat, checksum : BOOLEAN, intact : BOOLEAN]
         /\ buffer'.size = 0 /\ buffer'.received_size = 0
  BY DEF RxInv

LEMMA ArmReceiveInv ==
  ASSUME RxInv, ArmReceive
  PROVE  RxInv'
PROOF
  <1>1. /\ buffer' = [buffer EXCEPT !.size = 0, !.received_size = 0]
        /\ armed' = TRUE /\ pushed' = 0 /\ rx_task' = "waiting" /\ UNCHANGED read_to
    BY DEF ArmReceive
  <1>2. /\ buffer' \in [size : Nat, received_size : Nat, checksum : BOOLEAN, intact : BOOLEAN]
        /\ buffer'.size = 0 /\ buffer'.received_size = 0
    BY <1>1, Emptied
  <1> QED
    BY <1>1, <1>2, Sizes DEF RxInv

LEMMA CancelReceiveInv ==
  ASSUME RxInv, CancelReceive
  PROVE  RxInv'
PROOF
  <1>1. /\ buffer' = [buffer EXCEPT !.size = 0, !.received_size = 0]
        /\ armed /\ armed' = FALSE /\ pushed' = pushed + 1 /\ UNCHANGED <<read_to, rx_task>>
    BY DEF CancelReceive
  <1>2. /\ buffer' \in [size : Nat, received_size : Nat, checksum : BOOLEAN, intact : BOOLEAN]
        /\ buffer'.size = 0 /\ buffer'.received_size = 0
    BY <1>1, Emptied
  <1>3. pushed' = 1 /\ rx_task' = "waiting" /\ read_to' \in Nat /\ read_to' <= MTU
    BY <1>1 DEF RxInv
  <1>4. armed' \in BOOLEAN /\ ~armed'
    BY <1>1
  <1> QED
    BY <1>2, <1>3, <1>4, Sizes DEF RxInv

\* Every step of the streamer keeps the receiving side's invariant, and no step but
\* those of the transfers could fail.
LEMMA StreamerStep ==
  ASSUME StreamerInv, Inv, [StreamerNext]_streamerVars
  PROVE  RxInv' /\ [Next]_vars
PROOF
  <1>1. ASSUME NEW packet \in Packet, CompleteTransfer, ReceivePacket(packet), UNCHANGED rx_task
        PROVE  RxInv'
    BY <1>1, ReceiveStep DEF StreamerInv, Inv, TransferInv
  <1>2. CASE CompleteAndDispatch
    <2>1. RxInv'
      <3>1. CASE received = 0
        BY <1>2, <3>1 DEF CompleteAndDispatch, StreamerInv, RxInv
      <3>2. CASE received # 0
        BY <1>1, <1>2, <3>2 DEF CompleteAndDispatch
      <3> QED
        BY <3>1, <3>2
    <2>2. Next
      BY <1>2 DEF CompleteAndDispatch, Next, StreamerInv
    <2> QED
      BY <2>1, <2>2
  <1>3. CASE SendSide /\ UNCHANGED rxVars
    <2>1. RxInv'
      BY <1>3 DEF rxVars, StreamerInv, RxInv
    <2>2. Next
      BY <1>3 DEF SendSide, Next, StreamerInv
    <2> QED
      BY <2>1, <2>2
  <1>4. CASE ArmReceive
    <2>1. armed = FALSE
      BY <1>4 DEF ArmReceive, StreamerInv, RxInv
    <2>2. UNCHANGED vars
      BY <1>4, <2>1 DEF ArmReceive, StreamerInv, vars, frame, request, transfer
    <2>3. RxInv'
      BY <1>4, ArmReceiveInv DEF StreamerInv
    <2> QED
      BY <2>2, <2>3
  <1>5. CASE UseBuffer
    BY <1>5 DEF UseBuffer, StreamerInv, RxInv
  <1>6. CASE CancelReceive
    <2>1. RxInv'
      BY <1>6, CancelReceiveInv DEF StreamerInv
    <2> QED
      BY <1>6, <2>1 DEF CancelReceive
  <1>7. CASE UNCHANGED streamerVars
    BY <1>7 DEF streamerVars, rxVars, StreamerInv, RxInv
  <1> QED
    BY <1>2, <1>3, <1>4, <1>5, <1>6, <1>7 DEF StreamerNext

\* The receiving side is invisible to the transfers: with it, the streamer is still an
\* implementation of SpiTransfer, so that the theorems about lengths hold with it.
THEOREM ImplementsSpiTransfer == StreamerSpec => Spec /\ []StreamerInv
PROOF
  <1>1. StreamerInit => Init /\ Inv /\ StreamerInv
    <2> SUFFICES ASSUME StreamerInit PROVE Init /\ Inv /\ StreamerInv
      OBVIOUS
    <2>1. Init /\ Inv
      BY InitInv DEF StreamerInit
    <2>2. RxInv
      <3>1. /\ buffer \in [size : Nat, received_size : Nat, checksum : BOOLEAN, intact : BOOLEAN]
            /\ buffer.size = 0 /\ buffer.received_size = 0
        BY DEF StreamerInit, Empty
      <3>2. armed \in BOOLEAN /\ ~armed
        BY DEF StreamerInit
      <3>3. pushed = 0 /\ read_to = 0 /\ rx_task = "arming"
        BY DEF StreamerInit
      <3> QED
        BY <3>1, <3>2, <3>3, Sizes DEF RxInv
    <2> QED
      BY <2>1, <2>2 DEF StreamerInv, Init
  <1>2. Inv /\ StreamerInv /\ [StreamerNext]_streamerVars
          => [Next]_vars /\ Inv' /\ StreamerInv'
    <2> SUFFICES ASSUME Inv, StreamerInv, [StreamerNext]_streamerVars
                 PROVE  [Next]_vars /\ Inv' /\ StreamerInv'
      OBVIOUS
    <2>1. [Next]_vars /\ RxInv'
      BY StreamerStep
    <2>2. Inv'
      BY <2>1, NextInv
    <2> QED
      BY <2>1, <2>2 DEF StreamerInv, Inv
  <1> QED
    BY <1>1, <1>2, PTL DEF StreamerSpec, Spec

\* What a transfer clocks is right while the streamer receives as well as sends.
THEOREM StreamerTransfersExact == StreamerSpec => []TransferExact
  BY ImplementsSpiTransfer, TransfersExact, PTL

\* Frames leave whole while buffers are received.
THEOREM StreamerFramesWhole == StreamerSpec => []WholeFrame
  BY ImplementsSpiTransfer, FrameCarriedWhole, PTL

\* Whatever the packets announce and however long NINA says they are, the memcpy of
\* streamer_buffer_data_received stays within the packet and within the storage.
THEOREM CopiesStayWithinBounds == StreamerSpec => []CopiesWithinBounds
PROOF
  <1>1. StreamerInv => CopiesWithinBounds
    BY Sizes DEF StreamerInv, RxInv, CopiesWithinBounds, StoredWithinCapacity,
       ReadsWithinPacket
  <1> QED
    BY <1>1, ImplementsSpiTransfer, PTL

\* The receiver is woken once for each buffer and finds it whole or cancelled.
THEOREM BuffersCompleteOnceAndWhole == StreamerSpec => []CompletesOnceAndWhole
PROOF
  <1>1. StreamerInv => CompletesOnceAndWhole
    BY DEF StreamerInv, RxInv, CompletesOnceAndWhole
  <1> QED
    BY <1>1, ImplementsSpiTransfer, PTL

\* From its completion until the task arms it again nobody writes the buffer: packets are
\* ignored, and a buffer that is complete cannot be cancelled (streamer.c:298, 333, 357).
THEOREM CompletedUntouched == StreamerSpec => CompletedStable
PROOF
  <1>1. ASSUME StreamerInv, [StreamerNext]_streamerVars, pushed > 0, pushed' > 0
        PROVE  UNCHANGED buffer
    <2>1. ~armed
      BY <1>1 DEF StreamerInv, RxInv
    <2>2. CASE CompleteAndDispatch
      <3>1. ASSUME NEW packet \in Packet, ReceivePacket(packet)
            PROVE  UNCHANGED buffer
        BY <2>1, <3>1 DEF ReceivePacket, Ignored
      <3> QED
        BY <2>2, <3>1 DEF CompleteAndDispatch
    <2>3. ~ArmReceive /\ ~CancelReceive
      BY <1>1, <2>1 DEF ArmReceive, CancelReceive
    <2>4. (SendSide /\ UNCHANGED rxVars) \/ UseBuffer \/ UNCHANGED streamerVars
            => UNCHANGED buffer
      BY DEF UseBuffer, streamerVars, rxVars
    <2> QED
      BY <1>1, <2>2, <2>3, <2>4 DEF StreamerNext
  <1> QED
    BY <1>1, ImplementsSpiTransfer, PTL DEF StreamerSpec, CompletedStable
==============================================================================
