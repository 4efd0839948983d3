--------------------------- MODULE LegacyCpxProofs ---------------------------
(***************************************************************************)
(* Theorems about ComLink under the tasks of LegacyCpx, for every size of  *)
(* the queues and every length of packets up to the MTU, also behind an    *)
(* edge that is missed at startup and in the circular wait.                *)
(***************************************************************************)
EXTENDS LegacyCpx, TLAPS

\* com_task holds one edge of NINA's line that it has not used up yet.
EdgeInHand ==
  \/ com = "fetch" /\ "NINA_RTT" \in evBits
  \/ com = "raise" /\ "NINA_RTT" \in evBits
  \/ com \in {"header", "lower", "rest"}

\* Each edge is in one place, the event group or the hands of com_task, and stands
\* for one transfer that NINA has prepared.
EdgesCounted ==
  /\ "NINA_RTT" \in bits \/ EdgeInHand => nina_ready
  /\ ~("NINA_RTT" \in bits /\ EdgeInHand)
  /\ nina_ready => nina_rtt
  /\ com = "startup" => (nina_rtt => nina_ready)

\* What com_task has in its two buffers, phase by phase
BuffersKnown ==
  /\ com \in {"raise", "wait_rtt"} => fresh
  /\ com \in {"header", "lower", "rest"} /\ tx_buff.len > 0 => fresh
  /\ com \in {"lower", "rest"} => sizeLeft = SizeLeft(tx_buff.len, rx_buff.len)
  /\ com = "deliver" => rx_buff \in Incoming

\* Packets in the hands of the tasks above the link
PacketsInHand ==
  /\ \A s \in Sender : pc[s] = "send" => txpPacked \in Outgoing
  /\ rx_pc = "queue" => rxp \in Incoming

LinkInv == TypeOK /\ EdgesCounted /\ BuffersKnown /\ PacketsInHand
------------------------------------------------------------------------------
\* Lengths of packets, none included
LEMMA PacketLengths ==
  /\ \A p \in Outgoing \cup Incoming : p.len \in 2 .. MTU
  /\ NoPacket.len = 0
  BY LengthAssumption, IncomingAssumption DEF Outgoing, PacketOf, NoPacket, MTU

\* The rest of a transfer holds what the first four bytes leave of either packet with
\* its length field, in whole words, within the buffers.
LEMMA SizeLeftCovers ==
  ASSUME NEW m \in 0 .. MTU, NEW n \in 0 .. MTU
  PROVE  LET total == INITIAL_TRANSFER_SIZE + SizeLeft(m, n)
         IN  /\ SizeLeft(m, n) \in 0 .. MTU + 2 - INITIAL_TRANSFER_SIZE
             /\ total >= m + 2 /\ total >= n + 2
             /\ total % 4 = 0
PROOF
  <1> DEFINE bytes == Larger(0, Larger(m, n) - INITIAL_TRANSFER_SIZE + 2)
             padded == IF bytes % 4 > 0 THEN bytes + (4 - (bytes % 4)) ELSE bytes
             left == IF padded = 0 THEN 4 ELSE padded
  <1>1. SizeLeft(m, n) = left
    BY DEF SizeLeft
  <1>2. bytes \in 0 .. 1020 /\ bytes + 4 >= m + 2 /\ bytes + 4 >= n + 2
    BY DEF Larger, MTU, INITIAL_TRANSFER_SIZE
  <1> HIDE DEF bytes
  <1>3. padded \in bytes .. 1020 /\ padded % 4 = 0
    BY <1>2
  <1> HIDE DEF padded
  <1>4. left \in padded .. 1020 /\ left % 4 = 0
    BY <1>2, <1>3
  <1> HIDE DEF left
  <1> QED
    BY <1>1, <1>2, <1>3, <1>4 DEF MTU, INITIAL_TRANSFER_SIZE
------------------------------------------------------------------------------
LEMMA LinkInvInit == Init => LinkInv
PROOF
  <1> SUFFICES ASSUME Init
               PROVE  LinkInv
    OBVIOUS
  <1>1. ComTypeOK(Outgoing)
    <2>1. /\ txq \in Seq(Outgoing) /\ Len(txq) <= TXQ_SIZE
          /\ rxq \in Seq(Incoming) /\ Len(rxq) <= RXQ_SIZE
      BY SizesAssumption DEF Init, ComInit
    <2>2. {attached, fresh, gap8_rtt, nina_rtt, nina_ready, missed} \subseteq BOOLEAN
      BY Zenon DEF Init, ComInit
    <2>3. {bits, evBits} \subseteq SUBSET {"NINA_RTT", "TX_QUEUE"}
      BY DEF Init, ComInit
    <2>4. sizeLeft \in 0 .. MTU + 2
      BY DEF Init, ComInit, MTU
    <2>5. /\ com \in ComPC
          /\ tx_buff \in Outgoing \cup {NoPacket}
          /\ {rx_buff, nina_out} \subseteq Incoming \cup {NoPacket}
      BY DEF Init, ComInit, ComPC
    <2> QED
      BY <2>1, <2>2, <2>3, <2>4, <2>5 DEF ComTypeOK
  <1>2. functionQueue \in Seq(Incoming) /\ Len(functionQueue) <= QUEUE_LENGTH
    BY QueueAssumption DEF Init
  <1>3. TypeOK
    BY <1>1, <1>2 DEF Init, TypeOK, SenderPC
  <1>4. EdgesCounted /\ BuffersKnown /\ PacketsInHand
    BY DEF Init, ComInit, EdgesCounted, EdgeInHand, BuffersKnown, PacketsInHand
  <1> QED
    BY <1>3, <1>4 DEF LinkInv

\* Every step of com_task preserves the invariant.
LEMMA ComTaskStep ==
  ASSUME LinkInv, ComTask, UNCHANGED <<senders, receiver>>
  PROVE  LinkInv'
PROOF
  <1> USE DEF LinkInv, senders, receiver, queues, nina
  <1>1. CASE ReadStartupRTT
    <2>1. TypeOK'
      BY <1>1 DEF ReadStartupRTT, TypeOK, ComTypeOK, ComPC
    <2>2. EdgesCounted' /\ BuffersKnown' /\ PacketsInHand'
      BY <1>1 DEF ReadStartupRTT, EdgesCounted, EdgeInHand, BuffersKnown, PacketsInHand
    <2> QED
      BY <2>1, <2>2
  <1>2. CASE CheckQueue
    <2>1. TypeOK'
      BY <1>2 DEF CheckQueue, TypeOK, ComTypeOK, ComPC
    <2>2. EdgesCounted' /\ BuffersKnown' /\ PacketsInHand'
      BY <1>2 DEF CheckQueue, EdgesCounted, EdgeInHand, BuffersKnown, PacketsInHand
    <2> QED
      BY <2>1, <2>2
  <1>3. CASE WaitForEvent
    <2>1. TypeOK'
      BY <1>3 DEF WaitForEvent, TypeOK, ComTypeOK, ComPC
    <2>2. EdgesCounted' /\ BuffersKnown' /\ PacketsInHand'
      BY <1>3 DEF WaitForEvent, EdgesCounted, EdgeInHand, BuffersKnown, PacketsInHand
    <2> QED
      BY <2>1, <2>2
  <1>4. CASE FetchPacket
    <2>1. CASE txq # << >>
      <3>1. /\ tx_buff' \in Outgoing /\ txq' \in Seq(Outgoing) /\ Len(txq') <= TXQ_SIZE
            /\ fresh' = TRUE
        <4>1. tx_buff' = Head(txq) /\ txq' = Tail(txq) /\ fresh' = TRUE
          BY <1>4, <2>1 DEF FetchPacket
        <4>2. txq \in Seq(Outgoing) /\ Len(txq) <= TXQ_SIZE
          BY DEF TypeOK, ComTypeOK
        <4> QED
          BY <2>1, <4>1, <4>2, SizesAssumption
      <3>2. tx_buff'.len > 0 /\ com' = "raise"
        <4>1. tx_buff'.len \in 2 .. MTU
          BY <3>1, PacketLengths
        <4>2. tx_buff'.len > 0
          BY <4>1 DEF MTU
        <4>3. com' = IF tx_buff'.len > 0 THEN "raise" ELSE TransferOrLoop
          BY <1>4 DEF FetchPacket
        <4> QED
          BY <4>2, <4>3
      <3>3. TypeOK'
        BY <1>4, <3>1, <3>2 DEF FetchPacket, TypeOK, ComTypeOK, ComPC
      <3>4. EdgesCounted' /\ BuffersKnown' /\ PacketsInHand'
        BY <1>4, <3>1, <3>2
           DEF FetchPacket, EdgesCounted, EdgeInHand, BuffersKnown, PacketsInHand
      <3> QED
        BY <3>3, <3>4
    <2>2. CASE txq = << >>
      <3>1. tx_buff' = NoPacket /\ UNCHANGED <<txq, fresh>>
        BY <1>4, <2>2 DEF FetchPacket
      <3>2. ~(tx_buff'.len > 0) /\ com' = TransferOrLoop
        BY <1>4, <3>1, PacketLengths DEF FetchPacket
      <3>3. TypeOK'
        BY <1>4, <3>1, <3>2 DEF FetchPacket, TransferOrLoop, TypeOK, ComTypeOK, ComPC
      <3>4. EdgesCounted' /\ BuffersKnown' /\ PacketsInHand'
        BY <1>4, <3>1, <3>2 DEF FetchPacket, TransferOrLoop, EdgesCounted, EdgeInHand,
           BuffersKnown, PacketsInHand
      <3> QED
        BY <3>3, <3>4
    <2> QED
      BY <2>1, <2>2
  <1>5. CASE RaiseGap8RTT
    <2>1. TypeOK'
      BY <1>5 DEF RaiseGap8RTT, TypeOK, ComTypeOK, ComPC
    <2>2. EdgesCounted' /\ BuffersKnown' /\ PacketsInHand'
      BY <1>5 DEF RaiseGap8RTT, EdgesCounted, EdgeInHand, BuffersKnown, PacketsInHand
    <2> QED
      BY <2>1, <2>2
  <1>6. CASE WaitForNinaRTT
    <2>1. TypeOK'
      BY <1>6 DEF WaitForNinaRTT, TypeOK, ComTypeOK, ComPC
    <2>2. EdgesCounted' /\ BuffersKnown' /\ PacketsInHand'
      BY <1>6 DEF WaitForNinaRTT, EdgesCounted, EdgeInHand, BuffersKnown, PacketsInHand
    <2> QED
      BY <2>1, <2>2
  <1>7. CASE TransferHeader
    <2>1. tx_buff.len \in 0 .. MTU /\ nina_out.len \in 0 .. MTU
      BY PacketLengths DEF TypeOK, ComTypeOK, MTU
    <2>2. sizeLeft' = SizeLeft(tx_buff.len, nina_out.len) /\ sizeLeft' \in 0 .. MTU + 2
      <3>1. SizeLeft(tx_buff.len, nina_out.len) \in 0 .. MTU + 2 - INITIAL_TRANSFER_SIZE
        BY <2>1, SizeLeftCovers
      <3> QED
        BY <1>7, <3>1 DEF TransferHeader, MTU, INITIAL_TRANSFER_SIZE
    <2>3. TypeOK'
      BY <1>7, <2>2 DEF TransferHeader, TypeOK, ComTypeOK, ComPC
    <2>4. EdgesCounted' /\ BuffersKnown' /\ PacketsInHand'
      BY <1>7, <2>2 DEF TransferHeader, EdgesCounted, EdgeInHand, BuffersKnown, PacketsInHand
    <2> QED
      BY <2>3, <2>4
  <1>8. CASE LowerGap8RTT
    <2>1. TypeOK'
      BY <1>8 DEF LowerGap8RTT, TypeOK, ComTypeOK, ComPC
    <2>2. EdgesCounted' /\ BuffersKnown' /\ PacketsInHand'
      BY <1>8 DEF LowerGap8RTT, EdgesCounted, EdgeInHand, BuffersKnown, PacketsInHand
    <2> QED
      BY <2>1, <2>2
  <1>9. CASE TransferRest
    <2>1. TypeOK'
      <3>1. fresh' = FALSE /\ nina_ready' = FALSE /\ sizeLeft' \in 0 .. MTU + 2
        BY <1>9 DEF TransferRest, MTU
      <3>2. UNCHANGED <<txq, rxq, bits, attached, tx_buff, rx_buff, gap8_rtt, nina_rtt, missed>>
        BY <1>9 DEF TransferRest
      <3>3. /\ com' \in {"deliver", "check"}
            /\ evBits' = {} /\ nina_out' = NoPacket
        BY <1>9 DEF TransferRest
      <3> QED
        BY <3>1, <3>2, <3>3 DEF TypeOK, ComTypeOK, ComPC
    <2>2. EdgesCounted'
      BY <1>9 DEF TransferRest, EdgesCounted, EdgeInHand
    <2>3. rx_buff.len > 0 => rx_buff \in Incoming
      BY PacketLengths DEF TypeOK, ComTypeOK
    <2>4. BuffersKnown' /\ PacketsInHand'
      BY <1>9, <2>3 DEF TransferRest, BuffersKnown, PacketsInHand
    <2> QED
      BY <2>1, <2>2, <2>4
  <1>10. CASE DeliverPacket
    <2>1. rx_buff \in Incoming
      BY <1>10 DEF DeliverPacket, BuffersKnown
    <2>2. rxq' \in Seq(Incoming) /\ Len(rxq') <= RXQ_SIZE
      BY <1>10, <2>1, SizesAssumption DEF DeliverPacket, TypeOK, ComTypeOK
    <2>3. TypeOK'
      BY <1>10, <2>2 DEF DeliverPacket, TypeOK, ComTypeOK, ComPC
    <2>4. EdgesCounted' /\ BuffersKnown' /\ PacketsInHand'
      BY <1>10 DEF DeliverPacket, EdgesCounted, EdgeInHand, BuffersKnown, PacketsInHand
    <2> QED
      BY <2>3, <2>4
  <1> QED
    BY <1>1, <1>2, <1>3, <1>4, <1>5, <1>6, <1>7, <1>8, <1>9, <1>10 DEF ComTask

\* So does every step of the tasks above the link and of the ESP32.
LEMMA OtherStep ==
  ASSUME LinkInv,
         \/ AttachCallback /\ UNCHANGED <<senders, receiver>>
         \/ NinaRaises
         \/ LowerNinaRTT /\ UNCHANGED <<senders, receiver>>
         \/ SendFrame \/ PrintProfile \/ ReceiveControl
         \/ \E s \in Sender : Sending(s)
         \/ ReadPacket \/ RoutePacket
  PROVE  LinkInv'
PROOF
  <1> USE DEF LinkInv, comVars, queues, task, nina, senders, receiver
  <1>1. CASE AttachCallback /\ UNCHANGED <<senders, receiver>>
    <2>1. TypeOK'
      BY <1>1 DEF AttachCallback, TypeOK, ComTypeOK
    <2>2. EdgesCounted' /\ BuffersKnown' /\ PacketsInHand'
      BY <1>1 DEF AttachCallback, EdgesCounted, EdgeInHand, BuffersKnown, PacketsInHand
    <2> QED
      BY <2>1, <2>2
  <1>2. CASE NinaRaises
    <2>1. PICK out \in Incoming \cup {NoPacket} : RaiseNinaRTT(out)
      BY <1>2 DEF NinaRaises
    <2>2. UNCHANGED <<senders, receiver>>
      BY <1>2 DEF NinaRaises
    <2>3. TypeOK'
      BY <2>1, <2>2 DEF RaiseNinaRTT, TypeOK, ComTypeOK
    <2>4. EdgesCounted'
      BY <2>1, <2>2 DEF RaiseNinaRTT, EdgesCounted, EdgeInHand
    <2>5. BuffersKnown' /\ PacketsInHand'
      BY <2>1, <2>2 DEF RaiseNinaRTT, BuffersKnown, PacketsInHand
    <2> QED
      BY <2>3, <2>4, <2>5
  <1>3. CASE LowerNinaRTT /\ UNCHANGED <<senders, receiver>>
    <2>1. TypeOK'
      BY <1>3 DEF LowerNinaRTT, TypeOK, ComTypeOK
    <2>2. EdgesCounted' /\ BuffersKnown' /\ PacketsInHand'
      BY <1>3 DEF LowerNinaRTT, EdgesCounted, EdgeInHand, BuffersKnown, PacketsInHand
    <2> QED
      BY <2>1, <2>2
  <1>4. CASE SendFrame \/ PrintProfile \/ \E s \in Sender : PrintToConsole(s)
    <2>1. PICK s \in Sender : \E to \in SenderPC : pc' = [pc EXCEPT ![s] = to]
      BY <1>4 DEF SendFrame, PrintProfile, PrintToConsole, Step, Sender, SenderPC
    <2>2. pc' \in [Sender -> SenderPC]
      BY <2>1 DEF TypeOK
    <2>3. \/ txpPacked' \in Outgoing
          \/ UNCHANGED txpPacked /\ \A t \in Sender : pc'[t] = "send" => pc[t] = "send"
      BY <1>4 DEF SendFrame, PrintProfile, PrintToConsole, Step, Outgoing, Sender, TypeOK
    <2>4. console' \in SUBSET Sender /\ UNCHANGED <<comVars, receiver>>
      BY <1>4 DEF SendFrame, PrintProfile, PrintToConsole, TypeOK
    <2>5. TypeOK'
      BY <2>2, <2>3, <2>4 DEF TypeOK, ComTypeOK
    <2>6. EdgesCounted' /\ BuffersKnown'
      BY <2>4 DEF EdgesCounted, EdgeInHand, BuffersKnown
    <2>7. PacketsInHand'
      BY <2>3, <2>4 DEF PacketsInHand
    <2> QED
      BY <2>5, <2>6, <2>7
  <1>5. CASE ReceiveControl
    <2>1. functionQueue' \in Seq(Incoming) /\ Len(functionQueue') <= QUEUE_LENGTH
      <3>1. functionQueue # << >> /\ functionQueue' = Tail(functionQueue)
        BY <1>5 DEF ReceiveControl
      <3>2. functionQueue \in Seq(Incoming) /\ Len(functionQueue) <= QUEUE_LENGTH
        BY DEF TypeOK
      <3> QED
        BY <3>1, <3>2, QueueAssumption
    <2>2. /\ pc' \in [Sender -> SenderPC]
          /\ \A t \in Sender : pc'[t] = "send" => pc[t] = "send"
      BY <1>5 DEF ReceiveControl, Step, Sender, SenderPC, TypeOK
    <2>3. UNCHANGED <<comVars, txpPacked, console, rx_pc, rxp>>
      BY <1>5 DEF ReceiveControl
    <2>4. TypeOK'
      BY <2>1, <2>2, <2>3 DEF TypeOK, ComTypeOK
    <2>5. EdgesCounted' /\ BuffersKnown' /\ PacketsInHand'
      BY <2>2, <2>3 DEF EdgesCounted, EdgeInHand, BuffersKnown, PacketsInHand
    <2> QED
      BY <2>4, <2>5
  <1>6. CASE \E s \in Sender : QueuePacket(s)
    <2>1. PICK s \in Sender : QueuePacket(s)
      BY <1>6
    <2>2. txpPacked \in Outgoing
      BY <2>1 DEF QueuePacket, Step, PacketsInHand
    <2>3. txq' \in Seq(Outgoing) /\ Len(txq') <= TXQ_SIZE
      <3>1. txq' = Append(txq, txpPacked) /\ Len(txq) < TXQ_SIZE
        BY <2>1 DEF QueuePacket
      <3>2. txq \in Seq(Outgoing)
        BY DEF TypeOK, ComTypeOK
      <3> QED
        BY <2>2, <3>1, <3>2, SizesAssumption
    <2>4. /\ pc' \in [Sender -> SenderPC]
          /\ \A t \in Sender : pc'[t] = "send" => pc[t] = "send"
      BY <2>1 DEF QueuePacket, Step, SenderPC, TypeOK
    <2>5. UNCHANGED <<rxq, bits, attached, task, gap8_rtt, nina, txpPacked, console, receiver>>
      BY <2>1 DEF QueuePacket
    <2>6. TypeOK'
      BY <2>3, <2>4, <2>5 DEF TypeOK, ComTypeOK
    <2>7. EdgesCounted' /\ BuffersKnown' /\ PacketsInHand'
      BY <2>4, <2>5 DEF EdgesCounted, EdgeInHand, BuffersKnown, PacketsInHand
    <2> QED
      BY <2>6, <2>7
  <1>7. CASE \E s \in Sender : SignalQueued(s)
    <2>1. PICK s \in Sender : SignalQueued(s)
      BY <1>7
    <2>2. /\ pc' \in [Sender -> SenderPC]
          /\ \A t \in Sender : pc'[t] = "send" => pc[t] = "send"
      BY <2>1 DEF SignalQueued, Step, SenderPC, TypeOK
    <2>3. /\ bits' = bits \cup {"TX_QUEUE"} /\ console' \in SUBSET Sender
          /\ UNCHANGED <<queues, attached, task, gap8_rtt, nina, txpPacked, receiver>>
      BY <2>1 DEF SignalQueued, TypeOK
    <2>4. TypeOK'
      BY <2>2, <2>3 DEF TypeOK, ComTypeOK
    <2>5. EdgesCounted' /\ BuffersKnown' /\ PacketsInHand'
      BY <2>2, <2>3 DEF EdgesCounted, EdgeInHand, BuffersKnown, PacketsInHand
    <2> QED
      BY <2>4, <2>5
  <1>8. CASE ReadPacket
    <2>1. rxp' \in Incoming /\ rxq' \in Seq(Incoming) /\ Len(rxq') <= RXQ_SIZE
      <3>1. rxq # << >> /\ rxp' = Head(rxq) /\ rxq' = Tail(rxq)
        BY <1>8 DEF ReadPacket
      <3>2. rxq \in Seq(Incoming) /\ Len(rxq) <= RXQ_SIZE
        BY DEF TypeOK, ComTypeOK
      <3> QED
        BY <3>1, <3>2, SizesAssumption
    <2>2. TypeOK'
      BY <1>8, <2>1 DEF ReadPacket, TypeOK, ComTypeOK
    <2>3. EdgesCounted' /\ BuffersKnown' /\ PacketsInHand'
      BY <1>8, <2>1 DEF ReadPacket, EdgesCounted, EdgeInHand, BuffersKnown, PacketsInHand
    <2> QED
      BY <2>2, <2>3
  <1>9. CASE RoutePacket
    <2>1. functionQueue' \in Seq(Incoming) /\ Len(functionQueue') <= QUEUE_LENGTH
      <3>1. rxp \in Incoming
        BY <1>9 DEF RoutePacket, PacketsInHand
      <3>2. \/ Len(functionQueue) < QUEUE_LENGTH /\ functionQueue' = Append(functionQueue, rxp)
            \/ UNCHANGED functionQueue
        BY <1>9 DEF RoutePacket
      <3>3. functionQueue \in Seq(Incoming) /\ Len(functionQueue) <= QUEUE_LENGTH
        BY DEF TypeOK
      <3> QED
        BY <3>1, <3>2, <3>3, QueueAssumption
    <2>2. rx_pc' = "read" /\ rxp' = NoPacket /\ UNCHANGED <<comVars, senders>>
      BY <1>9 DEF RoutePacket
    <2>3. TypeOK'
      BY <2>1, <2>2 DEF TypeOK, ComTypeOK
    <2>4. EdgesCounted' /\ BuffersKnown' /\ PacketsInHand'
      BY <2>2 DEF EdgesCounted, EdgeInHand, BuffersKnown, PacketsInHand
    <2> QED
      BY <2>3, <2>4
  <1> QED
    BY <1>1, <1>2, <1>3, <1>4, <1>5, <1>6, <1>7, <1>8, <1>9 DEF Sending

LEMMA LinkInvStep == LinkInv /\ [Next]_vars => LinkInv'
PROOF
  <1> SUFFICES ASSUME LinkInv, [Next]_vars
               PROVE  LinkInv'
    OBVIOUS
  <1>1. CASE ComTask /\ UNCHANGED <<senders, receiver>>
    BY <1>1, ComTaskStep
  <1>2. CASE UNCHANGED vars
    <2> USE <1>2 DEF LinkInv, vars, comVars, queues, task, nina, senders, receiver
    <2>1. TypeOK'
      BY DEF TypeOK, ComTypeOK
    <2>2. EdgesCounted' /\ BuffersKnown' /\ PacketsInHand'
      BY DEF EdgesCounted, EdgeInHand, BuffersKnown, PacketsInHand
    <2> QED
      BY <2>1, <2>2
  <1>3. CASE ~(ComTask /\ UNCHANGED <<senders, receiver>>) /\ ~UNCHANGED vars
    BY <1>3, OtherStep DEF Next
  <1> QED
    BY <1>1, <1>2, <1>3
------------------------------------------------------------------------------
\* The edges of NINA's line and the packets under way are accounted for in every
\* reachable state of com_task and the tasks above it.
THEOREM LinkInvariant == Spec => []LinkInv
  BY LinkInvInit, LinkInvStep, PTL DEF Spec

\* Queues stay within their capacity and hold packets, whatever their sizes.
THEOREM TypeCorrect == Spec => []TypeOK
PROOF
  <1>1. LinkInv => TypeOK
    BY DEF LinkInv
  <1> QED
    BY <1>1, LinkInvariant, PTL

\* com_task never clocks a transfer that NINA has not prepared (com.c:96, 113, 118).
THEOREM ClocksOnlyPrepared == Spec => []TransfersOnlyWhenReady
PROOF
  <1>1. LinkInv => TransfersOnlyWhenReady
    BY DEF LinkInv, EdgesCounted, EdgeInHand, TransfersOnlyWhenReady
  <1> QED
    BY <1>1, LinkInvariant, PTL

\* A transfer carries both packets whole and each of GAP8's once, for all lengths.
THEOREM TransfersCarryPackets == Spec => []CarriesPackets
PROOF
  <1>1. ASSUME LinkInv
        PROVE  CarriesPackets
    <2>1. NeverResent
      BY <1>1 DEF LinkInv, BuffersKnown, NeverResent
    <2>2. ASSUME com \in {"lower", "rest"}
          PROVE  LET total == INITIAL_TRANSFER_SIZE + sizeLeft
                 IN  /\ total >= tx_buff.len + 2 /\ total >= rx_buff.len + 2
                     /\ total <= MTU + 2
                     /\ total % 4 = 0
      <3>1. tx_buff.len \in 0 .. MTU /\ rx_buff.len \in 0 .. MTU
        BY <1>1, PacketLengths DEF LinkInv, TypeOK, ComTypeOK, MTU
      <3>2. sizeLeft = SizeLeft(tx_buff.len, rx_buff.len)
        BY <1>1, <2>2 DEF LinkInv, BuffersKnown
      <3> HIDE DEF MTU
      <3>3. LET total == INITIAL_TRANSFER_SIZE + sizeLeft
            IN  /\ sizeLeft \in 0 .. MTU + 2 - INITIAL_TRANSFER_SIZE
                /\ total >= tx_buff.len + 2 /\ total >= rx_buff.len + 2
                /\ total % 4 = 0
        BY <3>1, <3>2, SizeLeftCovers
      <3> QED
        BY <3>3 DEF MTU, INITIAL_TRANSFER_SIZE
    <2> QED
      BY <2>1, <2>2 DEF CarriesPackets, TransferCoversBoth
  <1> QED
    BY <1>1, LinkInvariant, PTL
==============================================================================
