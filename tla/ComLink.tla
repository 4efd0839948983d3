------------------------------- MODULE ComLink -------------------------------
(***************************************************************************)
(* The FreeRTOS link to the ESP32 (NINA): com_task of lib/cpx/src/com.c,   *)
(* its two queues, its event group and the two RTT lines.  Tasks above it  *)
(* are in LegacyCpx.                                                       *)
(*                                                                         *)
(* External, from how com.c uses them: FreeRTOS queues (a send to a full   *)
(* queue blocks and copies the item when there is room) and event groups;  *)
(* and the ESP32, which raises its RTT line when it is ready for one       *)
(* transfer, because GAP8's line is high, because it has a packet or for   *)
(* no reason, and lowers it after the transfer.  The ISR's deferred        *)
(* xEventGroupSetBitsFromISR is part of the edge: the ISR yields to it.    *)
(*                                                                         *)
(* rx_buff, sizeLeft and evBits are cleared when the code overwrites them  *)
(* before it reads them again; tx_buff, which it could send twice, is not. *)
(***************************************************************************)
EXTENDS Integers, Sequences

CONSTANTS
  TXQ_SIZE, RXQ_SIZE,
  Incoming     \* packets the ESP32 can send: records [route, len]

ASSUME SizesAssumption == TXQ_SIZE \in Nat \ {0} /\ RXQ_SIZE \in Nat \ {0}

MTU == 1022
INITIAL_TRANSFER_SIZE == 4
NoPacket == [route |-> "none", len |-> 0]

ASSUME IncomingAssumption == \A p \in Incoming : p.len \in 2 .. MTU

VARIABLES
  txq, rxq,          \* the queues of packet_t
  bits,              \* event group: a subset of {"NINA_RTT", "TX_QUEUE"}
  attached,          \* com_init has reached the end of setup_nina_rtt_pin
  com, evBits, tx_buff, rx_buff, sizeLeft, \* com_task
  fresh,             \* history: tx_buff was taken from txq and not yet transferred
  gap8_rtt,          \* line driven by GAP8
  nina_rtt,          \* line driven by the ESP32
  nina_ready,        \* the ESP32 has prepared its half of a transfer
  nina_out,          \* the packet it will shift out, or NoPacket
  missed             \* history: an edge came after com_task had read the line
                     \* and before the callback was attached

queues == <<txq, rxq>>
task == <<com, evBits, tx_buff, rx_buff, sizeLeft, fresh>>
nina == <<nina_rtt, nina_ready, nina_out, missed>>
comVars == <<queues, bits, attached, task, gap8_rtt, nina>>

ComPC == {"startup", "check", "wait", "fetch", "raise", "wait_rtt", "header",
          "lower", "rest", "deliver"}

ComTypeOK(Outgoing) ==
  /\ txq \in Seq(Outgoing) /\ Len(txq) <= TXQ_SIZE
  /\ rxq \in Seq(Incoming) /\ Len(rxq) <= RXQ_SIZE
  /\ {bits, evBits} \subseteq SUBSET {"NINA_RTT", "TX_QUEUE"}
  /\ {attached, fresh, gap8_rtt, nina_rtt, nina_ready, missed} \subseteq BOOLEAN
  /\ com \in ComPC
  /\ tx_buff \in Outgoing \cup {NoPacket}
  /\ {rx_buff, nina_out} \subseteq Incoming \cup {NoPacket}
  /\ sizeLeft \in 0 .. MTU + 2

ComInit ==
  /\ txq = << >> /\ rxq = << >>
  /\ bits = {}
  /\ attached = FALSE
  /\ com = "startup" /\ evBits = {}
  /\ tx_buff = NoPacket /\ rx_buff = NoPacket /\ sizeLeft = 0
  /\ fresh = FALSE
  /\ gap8_rtt = FALSE
  /\ nina_rtt = FALSE /\ nina_ready = FALSE /\ nina_out = NoPacket /\ missed = FALSE

Larger(a, b) == IF a > b THEN a ELSE b

\* Bytes to transfer after the first four: enough for the longer of the two
\* packets, a multiple of four, and never none.
SizeLeft(tx_len, rx_len) ==
  LET longest == Larger(tx_len, rx_len)
      bytes == Larger(0, longest - INITIAL_TRANSFER_SIZE + 2)
      padded == IF bytes % 4 > 0 THEN bytes + (4 - (bytes % 4)) ELSE bytes
  IN  IF padded = 0 THEN 4 ELSE padded
------------------------------------------------------------------------------
(* com_task. *)

\* Mutant of ReadStartupRTT: the level of the line is not looked at.
StartWithoutReading ==
  /\ com = "startup"
  /\ com' = "check"
  /\ UNCHANGED <<queues, bits, attached, evBits, tx_buff, rx_buff, sizeLeft, fresh,
                 gap8_rtt, nina>>

\* A line that is already high at startup gives no edge: its level is read once.
ReadStartupRTT ==
  /\ com = "startup"
  /\ com' = "check"
  /\ bits' = IF nina_rtt THEN bits \cup {"NINA_RTT"} ELSE bits
  /\ UNCHANGED <<queues, attached, evBits, tx_buff, rx_buff, sizeLeft, fresh, gap8_rtt, nina>>

\* With something to send the loop does not wait and does not clear the bits.
CheckQueue ==
  /\ com = "check"
  /\ IF txq = << >> THEN com' = "wait" /\ UNCHANGED evBits
                    ELSE com' = "fetch" /\ evBits' = {}
  /\ UNCHANGED <<queues, bits, attached, tx_buff, rx_buff, sizeLeft, fresh, gap8_rtt, nina>>

WaitForEvent ==
  /\ com = "wait" /\ bits # {}
  /\ com' = "fetch"
  /\ evBits' = bits
  /\ bits' = {}
  /\ UNCHANGED <<queues, attached, tx_buff, rx_buff, sizeLeft, fresh, gap8_rtt, nina>>

TransferOrLoop == IF "NINA_RTT" \in evBits THEN "header" ELSE "check"

\* Mutant of FetchPacket: tx_buff is not zeroed when there is nothing to send.
FetchWithoutZeroing ==
  /\ com = "fetch"
  /\ IF txq # << >>
       THEN tx_buff' = Head(txq) /\ txq' = Tail(txq) /\ fresh' = TRUE
       ELSE UNCHANGED <<tx_buff, txq, fresh>>
  /\ com' = IF tx_buff'.len > 0 THEN "raise" ELSE TransferOrLoop
  /\ UNCHANGED <<rxq, bits, attached, evBits, rx_buff, sizeLeft, gap8_rtt, nina>>

\* Take the next packet, or zero the buffer; a wake-up with neither a packet nor
\* NINA's line is the "spurious read" of the code.
FetchPacket ==
  /\ com = "fetch"
  /\ IF txq # << >>
       THEN /\ tx_buff' = Head(txq)
            /\ txq' = Tail(txq)
            /\ fresh' = TRUE
       ELSE /\ tx_buff' = NoPacket
            /\ UNCHANGED <<txq, fresh>>
  /\ com' = IF tx_buff'.len > 0 THEN "raise" ELSE TransferOrLoop
  /\ evBits' = IF com' = "raise" THEN evBits ELSE {}
  /\ UNCHANGED <<rxq, bits, attached, rx_buff, sizeLeft, gap8_rtt, nina>>

RaiseGap8RTT ==
  /\ com = "raise"
  /\ gap8_rtt' = TRUE
  /\ com' = IF "NINA_RTT" \in evBits THEN "header" ELSE "wait_rtt"
  /\ evBits' = {}
  /\ UNCHANGED <<queues, bits, attached, tx_buff, rx_buff, sizeLeft, fresh, nina>>

\* Mutant of WaitForNinaRTT: xClearOnExit is pdFALSE.
WaitKeepsBit ==
  /\ com = "wait_rtt" /\ "NINA_RTT" \in bits
  /\ com' = "header"
  /\ UNCHANGED <<queues, bits, attached, evBits, tx_buff, rx_buff, sizeLeft, fresh,
                 gap8_rtt, nina>>

WaitForNinaRTT ==
  /\ com = "wait_rtt" /\ "NINA_RTT" \in bits
  /\ com' = "header"
  /\ bits' = bits \ {"NINA_RTT"}
  /\ UNCHANGED <<queues, attached, evBits, tx_buff, rx_buff, sizeLeft, fresh, gap8_rtt, nina>>

\* The first four bytes carry both lengths.
TransferHeader ==
  /\ com = "header"
  /\ com' = "lower"
  /\ rx_buff' = nina_out
  /\ sizeLeft' = SizeLeft(tx_buff.len, nina_out.len)
  /\ UNCHANGED <<queues, bits, attached, evBits, tx_buff, fresh, gap8_rtt, nina>>

LowerGap8RTT ==
  /\ com = "lower"
  /\ com' = "rest"
  /\ gap8_rtt' = FALSE
  /\ UNCHANGED <<queues, bits, attached, evBits, tx_buff, rx_buff, sizeLeft, fresh, nina>>

\* The rest of both packets; the ESP32's half of the transfer is used up.
TransferRest ==
  /\ com = "rest"
  /\ com' = IF rx_buff.len > 0 THEN "deliver" ELSE "check"
  /\ fresh' = FALSE
  /\ nina_ready' = FALSE
  /\ nina_out' = NoPacket
  /\ sizeLeft' = 0
  /\ evBits' = {}
  /\ UNCHANGED <<queues, bits, attached, tx_buff, rx_buff, gap8_rtt, nina_rtt, missed>>

\* xQueueSend(rxq, ..., portMAX_DELAY): com_task blocks while rxq is full.
DeliverPacket ==
  /\ com = "deliver" /\ Len(rxq) < RXQ_SIZE
  /\ com' = "check"
  /\ rxq' = Append(rxq, rx_buff)
  /\ rx_buff' = NoPacket
  /\ UNCHANGED <<txq, bits, attached, evBits, tx_buff, sizeLeft, fresh, gap8_rtt, nina>>

ComTask ==
  \/ ReadStartupRTT \/ CheckQueue \/ WaitForEvent \/ FetchPacket
  \/ RaiseGap8RTT \/ WaitForNinaRTT
  \/ TransferHeader \/ LowerGap8RTT \/ TransferRest \/ DeliverPacket
------------------------------------------------------------------------------
(* com_init goes on after it has created com_task; the ESP32. *)

AttachCallback ==
  /\ ~attached
  /\ attached' = TRUE
  /\ UNCHANGED <<queues, bits, task, gap8_rtt, nina>>

\* A rising edge runs vDataReadyISR once the callback is attached; before that only
\* the level is seen, by a com_task that has yet to read it.
RaiseNinaRTT(out) ==
  /\ ~nina_rtt
  /\ nina_rtt' = TRUE /\ nina_ready' = TRUE
  /\ nina_out' = out
  /\ bits' = IF attached THEN bits \cup {"NINA_RTT"} ELSE bits
  /\ missed' = (missed \/ (~attached /\ com # "startup"))
  /\ UNCHANGED <<queues, attached, task, gap8_rtt>>

LowerNinaRTT ==
  /\ nina_rtt /\ ~nina_ready
  /\ nina_rtt' = FALSE
  /\ UNCHANGED <<queues, bits, attached, task, gap8_rtt, nina_ready, nina_out, missed>>

------------------------------------------------------------------------------
\* GAP8 is the SPI master: it never clocks a transfer the ESP32 has not prepared.
\* One wake-up of com_task is worth one transfer, whichever wait consumed the bit.
TransfersOnlyWhenReady == com \in {"header", "lower", "rest"} => nina_ready

\* A packet is put on the wire once: a transfer that NINA asked for does not send
\* the previous packet again.
NeverResent == com \in {"header", "lower", "rest"} /\ tx_buff.len > 0 => fresh

\* A transfer moves all of both packets and stays within both buffers.
TransferCoversBoth ==
  com \in {"lower", "rest"} =>
    LET total == INITIAL_TRANSFER_SIZE + sizeLeft
    IN  /\ total >= tx_buff.len + 2 /\ total >= rx_buff.len + 2
        /\ total <= MTU + 2
        /\ total % 4 = 0

\* What a transfer carries: two whole packets, and each of GAP8's once.
CarriesPackets == NeverResent /\ TransferCoversBoth
==============================================================================
