----------------------------- MODULE SpiTransfer -----------------------------
(***************************************************************************)
(* How streamer_send_task cuts a frame into packets, how each packet's     *)
(* send request is prepared, and what every SPI transfer then clocks.      *)
(*                                                                         *)
(* A transfer can also happen without a send request, because NINA has a   *)
(* packet; its length comes from NINA and is not trusted.  In the build    *)
(* without CPX_SPI_BIDIRECTIONAL every received length is overwritten      *)
(* with 0 before it is used.                                               *)
(***************************************************************************)
EXTENDS SpiLengths

CONSTANTS
  BeginHead, DataHead, \* head lengths of BUFFER_BEGIN and BUFFER_DATA packets
  FrameSizes,          \* sizes streamer_frame_get_size can return
  ReceivedLengths      \* values of the length field in NINA's headers

\* streamer_packet_t is padded so that both heads are whole words, and a packet
\* has room for at least one word of the frame.
ASSUME HeadAssumption ==
  /\ {BeginHead, DataHead} \subseteq {n \in Nat : n % 4 = 0}
  /\ BeginHead + 4 <= MTU /\ DataHead + 4 <= MTU
ASSUME InputAssumption == FrameSizes \subseteq Nat \ {0} /\ ReceivedLengths \subseteq Nat

VARIABLES
  frame_size, remaining_length,  \* of streamer_send_task; the second may end below 0
  sent,                          \* bytes of payload tails transferred for this frame
  head_length, tail_length,      \* of the streamer's send request
  phase,                         \* what happens next to the request
  send_req,                      \* does the transfer under way have a send request?
  received,                      \* receive_req->header.length
  clocked,                       \* payload bytes clocked in this transfer
  written,                       \* extent of the receive buffer written by it
  releases,                      \* times the transfer has ended with CS_AUTO
  failed                         \* has an assertion failed?

frame == <<frame_size, remaining_length, sent>>
request == <<head_length, tail_length>>
transfer == <<send_req, received, clocked, written, releases>>
vars == <<frame, request, phase, transfer, failed>>

Phase == {"idle", "ready", "head", "tail", "over"}

TypeOK ==
  /\ frame_size \in Nat /\ remaining_length \in Int /\ sent \in Nat
  /\ head_length \in 0 .. MTU /\ tail_length \in 0 .. MTU
  /\ phase \in Phase
  /\ send_req \in BOOLEAN
  /\ received \in Nat /\ clocked \in Nat /\ written \in Nat
  /\ releases \in Nat
  /\ failed \in BOOLEAN

\* streamer_init allocates a request whose head has the packet's full capacity
Init ==
  /\ frame_size = 0 /\ remaining_length = 0 /\ sent = 0
  /\ head_length = Longer(BeginHead, DataHead) /\ tail_length = 0
  /\ phase = "idle"
  /\ send_req = FALSE /\ received = 0 /\ clocked = 0 /\ written = 0 /\ releases = 0
  /\ failed = FALSE

SendLength == IF send_req THEN head_length + tail_length ELSE 0
HeadLength == IF send_req THEN head_length ELSE 0

\* The assertions of cpx_spi_send_set_head, _set_tail and _compute_length
Acceptable(head, tail) == head % 4 = 0 /\ tail % 4 = 0 /\ head + tail <= MTU
------------------------------------------------------------------------------
\* streamer_send_task starts on a frame.
BeginFrame(size) ==
  /\ phase = "idle" /\ remaining_length <= 0
  /\ frame_size' = size
  /\ remaining_length' = size
  /\ sent' = 0
  /\ UNCHANGED <<request, phase, transfer, failed>>

NextHead == IF remaining_length = frame_size THEN BeginHead ELSE DataHead

\* packet_length: all that fits, and the end of the frame padded to whole words
PacketLength(head) ==
  LET packet_length == Shorter(remaining_length, MaxTailLength(head))
  IN  IF packet_length = remaining_length THEN RoundedUp(packet_length) ELSE packet_length

\* streamer_packet_init (tail to 0 first, then the head) and cpx_send_req_set_tail
PreparePacket ==
  /\ phase = "idle" /\ remaining_length > 0
  /\ head_length' = NextHead
  /\ tail_length' = PacketLength(NextHead)
  /\ phase' = "ready"
  /\ failed' = ~( /\ Acceptable(head_length, 0)
                  /\ Acceptable(head_length', 0)
                  /\ Acceptable(head_length', tail_length'))
  /\ UNCHANGED <<frame, transfer>>

\* The header is exchanged, with the send request if there is one.
TransferHeader(length) ==
  /\ phase \in {"idle", "ready"}
  /\ phase' = "head"
  /\ send_req' = (phase = "ready")
  /\ received' = length
  /\ clocked' = 0 /\ written' = 0 /\ releases' = 0
  /\ UNCHANGED <<frame, request, failed>>

\* cpx_spi_transfer_payload_head_async.  With no head to send it completes at once,
\* or sends a dummy header that only releases the CS.
TransferHead ==
  /\ phase = "head"
  /\ phase' = "tail"
  /\ clocked' = HeadLength
  /\ written' = HeadLength
  /\ releases' = IF EndsAtHead(SendLength, received, HeadLength) THEN releases + 1
                                                                 ELSE releases
  /\ failed' = (HeadLength % 4 # 0)
  /\ UNCHANGED <<frame, request, send_req, received>>

\* cpx_spi_transfer_payload_tail_async
TransferTail ==
  /\ phase = "tail"
  /\ phase' = "over"
  /\ LET bytes == TailBytes(SendLength, received, HeadLength)
     IN  /\ clocked' = clocked + bytes
         /\ written' = written + bytes
         /\ releases' = IF bytes = 0 THEN releases ELSE releases + 1
         /\ failed' = (bytes % 4 # 0)
  /\ UNCHANGED <<frame, request, send_req, received>>

\* Mutant of CompleteTransfer: a transfer NINA asked for counts as a send.
CompleteAnyTransfer ==
  /\ phase = "over"
  /\ phase' = "idle"
  /\ remaining_length' = remaining_length - tail_length
  /\ sent' = sent + tail_length
  /\ UNCHANGED <<frame_size, request, transfer, failed>>

\* The requests complete; streamer_send_task goes on after its packet.
CompleteTransfer ==
  /\ phase = "over"
  /\ phase' = "idle"
  /\ IF send_req
       THEN /\ remaining_length' = remaining_length - tail_length
            /\ sent' = sent + tail_length
       ELSE UNCHANGED <<remaining_length, sent>>
  /\ UNCHANGED <<frame_size, request, transfer, failed>>

Next ==
  /\ ~failed
  /\ \/ \E size \in FrameSizes : BeginFrame(size)
     \/ PreparePacket
     \/ \E length \in ReceivedLengths : TransferHeader(length)
     \/ TransferHead
     \/ TransferTail
     \/ CompleteTransfer

Spec == Init /\ [][Next]_vars
------------------------------------------------------------------------------
\* No assertion of cpx_spi.c fails on the streamer's packets: every length is a
\* multiple of four and no packet exceeds the MTU, at any point of its preparation.
NoAssertionFailure == ~failed

\* A transfer clocks all of both packets, whichever is longer, before it ends.
CoversBothPackets ==
  phase = "over" => clocked >= SendLength /\ clocked >= Shorter(received, MTU)

\* Whatever length NINA announces, the receive buffer, which has room for MTU
\* bytes, is not overrun: not by the head, and not by the rounding of the tail.
WithinReceiveBuffer == written <= MTU

\* The chip select is released exactly once, with the last byte: a transfer that
\* ends without it, or goes on after it, corrupts the next one.
ReleasedOnce ==
  /\ phase = "over" => releases = 1
  /\ phase = "tail" /\ releases = 1 => TailBytes(SendLength, received, HeadLength) = 0

\* A transfer takes the packet it is given, clocks all of both packets, writes no
\* more than the receive buffer, and ends once.
TransferExact ==
  NoAssertionFailure /\ CoversBothPackets /\ WithinReceiveBuffer /\ ReleasedOnce

\* The packets of a frame carry all of it, without a gap or an overlap, and at
\* most three bytes of padding after it.
WholeFrame == sent + remaining_length = frame_size /\ remaining_length > -4
==============================================================================
