------------------------------ MODULE Streamer ------------------------------
(***************************************************************************)
(* Both directions of lib/streamer.c over the transfers of SpiTransfer:    *)
(* while frames leave, the packet that each transfer brings in, if any, is *)
(* given to streamer_cpx_callback, which assembles a buffer for the task   *)
(* that armed it (streamer_rx_task of the applications).                   *)
(*                                                                         *)
(* A packet is what the header says of it: its command, and for a BEGIN    *)
(* the size of the buffer and whether it has a checksum.  Of the bytes of  *)
(* a segment only one thing matters, whether they are the ones that follow *)
(* what the buffer already holds; after a loss they are not.  A checksum   *)
(* is taken to tell the two apart.  Lengths are what NINA wrote.           *)
(***************************************************************************)
EXTENDS SpiTransfer

CONSTANTS
  StorageCapacity,  \* storage_capacity of the receiver's buffer
  BufferSizes,      \* sizes announced by BUFFER_BEGIN packets
  SizeModulus       \* 2^32, the values of a size_t; scaled down for TLC

\* offboard_buffer_t of the applications fits in one packet; the library does not
\* require it.  Lengths and sizes are far below the range of a size_t.
ASSUME StorageAssumption ==
  /\ StorageCapacity \in Nat /\ StorageCapacity + Longer(BeginHead, DataHead) <= MTU
  /\ BufferSizes \subseteq Nat
  /\ SizeModulus \in Nat /\ SizeModulus > StorageCapacity + MTU
  /\ \A length \in ReceivedLengths : length < SizeModulus

VARIABLES
  armed,    \* is streamer->buffer_rx set?
  buffer,   \* the streamer_buffer_t, and whether it holds a prefix of one sent buffer
  pushed,   \* pushes of done_task since the buffer was armed
  read_to,  \* how far into the packet the last memcpy read
  rx_task   \* what streamer_rx_task does

rxVars == <<armed, buffer, pushed, read_to, rx_task>>
streamerVars == <<vars, rxVars>>

Packet == [command : {"BEGIN", "DATA", "unknown"}, size : BufferSizes,
           checksum : BOOLEAN, follows : BOOLEAN]

Empty == [size |-> 0, received_size |-> 0, checksum |-> FALSE, intact |-> TRUE]

StreamerInit ==
  /\ Init
  /\ armed = FALSE
  /\ buffer = Empty
  /\ pushed = 0
  /\ read_to = 0
  /\ rx_task = "arming"
------------------------------------------------------------------------------
\* streamer_rx_task: streamer_buffer_init, streamer_receive_buffer_async, and the
\* assertion that no other buffer is waiting (done_task was just set to NULL).
ArmReceive ==
  /\ rx_task = "arming"
  /\ rx_task' = "waiting"
  /\ failed' = armed
  /\ armed' = TRUE
  /\ pushed' = 0
  /\ buffer' = [buffer EXCEPT !.size = 0, !.received_size = 0]
  /\ UNCHANGED <<frame, request, phase, transfer, read_to>>

\* CO_WAIT(&done_task) is over; the task uses the buffer and goes round its loop.
UseBuffer ==
  /\ rx_task = "waiting" /\ pushed > 0
  /\ rx_task' = "arming"
  /\ UNCHANGED <<vars, armed, buffer, pushed, read_to>>

\* streamer_cancel_receive of the buffer by another task
CancelReceive ==
  /\ armed
  /\ buffer' = [buffer EXCEPT !.size = 0, !.received_size = 0]
  /\ pushed' = pushed + 1
  /\ armed' = FALSE
  /\ UNCHANGED <<vars, read_to, rx_task>>

Head(packet) == IF packet.command = "BEGIN" THEN BeginHead ELSE DataHead

\* Mutant of SegmentLength: signed lengths.
SegmentLengthSigned(packet) == received - Head(packet)

\* segment_length: a payload shorter than its head wraps around
SegmentLength(packet) == (received - Head(packet)) % SizeModulus

\* Mutant of ChecksumFails: sums are not compared (no STREAMER_RECEIVE_CHECKSUM).
ChecksumUnread(stored) == FALSE

\* The checksum of the storage against the one of the BEGIN, unless that is zero.
ChecksumFails(stored) == stored.checksum /\ ~stored.intact

\* Mutant of Complete: buffer_rx keeps pointing to the buffer.
CompleteStillArmed == pushed' = pushed + 1 /\ UNCHANGED armed

\* The end of streamer_buffer_data_received: the receiver's task is pushed.
Complete == pushed' = pushed + 1 /\ armed' = FALSE

\* A packet when no data is expected
DropSegment(b) ==
  /\ b.size = 0
  /\ buffer' = b
  /\ UNCHANGED <<armed, pushed, read_to>>

\* A segment longer than what is left: the whole buffer is given up.
DropBuffer(b, segment) ==
  /\ b.size # 0 /\ segment > b.size - b.received_size
  /\ buffer' = [Empty EXCEPT !.intact = b.intact]
  /\ UNCHANGED <<armed, pushed, read_to>>

\* A segment is stored; the last one completes the buffer if the checksum is right.
KeepSegment(b, segment, follows) ==
  LET stored == [b EXCEPT !.received_size = @ + segment, !.intact = @ /\ follows]
  IN  /\ b.size # 0 /\ segment <= b.size - b.received_size
      /\ IF stored.received_size # stored.size
           THEN buffer' = stored /\ UNCHANGED <<armed, pushed>>
           ELSE IF ChecksumFails(stored)
                  THEN buffer' = [Empty EXCEPT !.intact = FALSE] /\ UNCHANGED <<armed, pushed>>
                  ELSE buffer' = stored /\ Complete

\* streamer_buffer_data_received, b being the buffer as a BEGIN has left it
ReceiveData(b, packet) ==
  LET segment == SegmentLength(packet)
  IN  \/ DropSegment(b)
      \/ DropBuffer(b, segment)
      \/ /\ KeepSegment(b, segment, packet.command = "BEGIN" \/ packet.follows)
         /\ read_to' = Head(packet) + segment

\* streamer_buffer_begin_received drops a buffer that is bigger than the storage.
TooBig(packet) == packet.size > StorageCapacity

\* What streamer_buffer_begin_received makes of the buffer
Begun(packet) ==
  [size |-> packet.size, received_size |-> 0, checksum |-> packet.checksum, intact |-> TRUE]

Ignored(packet) ==
  \/ ~armed
  \/ packet.command = "unknown"
  \/ packet.command = "BEGIN" /\ TooBig(packet)

\* streamer_cpx_callback
ReceivePacket(packet) ==
  \/ Ignored(packet) /\ UNCHANGED <<armed, buffer, pushed, read_to>>
  \/ ~Ignored(packet) /\ packet.command = "BEGIN" /\ ReceiveData(Begun(packet), packet)
  \/ ~Ignored(packet) /\ packet.command = "DATA" /\ ReceiveData(buffer, packet)

\* cpx_receive_task hands the packet of the transfer to the callback, which returns
\* before the next receive is posted; an empty packet is not handed over.
CompleteAndDispatch ==
  /\ CompleteTransfer
  /\ UNCHANGED rx_task
  /\ IF received = 0
       THEN UNCHANGED <<armed, buffer, pushed, read_to>>
       ELSE \E packet \in Packet : ReceivePacket(packet)

\* The sending side, up to the end of each transfer.
SendSide ==
  \/ \E bytes \in FrameSizes : BeginFrame(bytes)
  \/ PreparePacket
  \/ \E length \in ReceivedLengths : TransferHeader(length)
  \/ TransferHead
  \/ TransferTail

StreamerNext ==
  /\ ~failed
  /\ \/ SendSide /\ UNCHANGED rxVars
     \/ CompleteAndDispatch
     \/ ArmReceive
     \/ UseBuffer
     \/ CancelReceive

StreamerSpec == StreamerInit /\ [][StreamerNext]_streamerVars
------------------------------------------------------------------------------
\* Whatever the packets announce, the storage is not written past the announced
\* size, and that is never more than its capacity (streamer.c:340, 369-381).
StoredWithinCapacity ==
  buffer.received_size \in 0 .. buffer.size /\ buffer.size <= StorageCapacity

\* The copy reads no further than the bytes that the transfer has clocked, although
\* cpx.c:182 passes on the length as NINA wrote it.
ReadsWithinPacket == read_to <= MTU

\* Neither end of the copy leaves its buffer.
CopiesWithinBounds == StoredWithinCapacity /\ ReadsWithinPacket

\* The receiver is woken once for each buffer it armed, and what it then finds is a
\* whole buffer, or none if it was cancelled: all bytes announced, and those of one
\* sent buffer when the sender computed a checksum.
CompletesOnceAndWhole ==
  /\ pushed <= 1
  /\ rx_task = "waiting" => (armed <=> pushed = 0)
  /\ pushed = 1 =>
       /\ buffer.received_size = buffer.size
       /\ buffer.size > 0 /\ buffer.checksum => buffer.intact

\* From its completion until the task arms it again nobody writes the buffer, so the
\* task reads what was checked.
CompletedStable ==
  [][pushed > 0 /\ pushed' > 0 => UNCHANGED buffer]_streamerVars
=============================================================================
