------------------------------ MODULE LegacyCpx ------------------------------
(***************************************************************************)
(* CPX on FreeRTOS: lib/cpx/src/cpx.c over ComLink, with the tasks of the  *)
(* WiFi image streamer that use it.  wifi_rx_task receives the WIFI_CTRL   *)
(* packets and prints to the console for each; camera_task sends its frame *)
(* in packets.  cpx_rx_task moves packets from com's queue to the queue of *)
(* their function, and drops the packets of functions without a queue.     *)
(*                                                                         *)
(* All senders pack into the one static txpPacked before they queue it; a  *)
(* blocked xQueueSend copies it when there is room.  All tasks have the    *)
(* same priority, so they interleave at any point.  Tasks that print hold  *)
(* the console semaphore; cpxSendPacketBlocking itself takes none.         *)
(***************************************************************************)
EXTENDS ComLink

CONSTANTS
  TxLength,     \* length of the packets each sender sends
  QUEUE_LENGTH  \* of a function's queue

Sender == {"wifi_rx_task", "camera_task"}

ASSUME LengthAssumption == TxLength \in [Sender -> 2 .. MTU]
ASSUME QueueAssumption == QUEUE_LENGTH \in Nat \ {0}

VARIABLES
  pc,        \* Sender -> the statement it executes next
  txpPacked, \* the shared packed packet
  console,   \* the senders that hold xSemaphore (at most one)
  rx_pc,     \* cpx_rx_task: "read" or "queue"
  rxp,       \* the packet in its hands
  functionQueue \* queues[CPX_F_WIFI_CTRL]

senders == <<pc, txpPacked, console>>
receiver == <<rx_pc, rxp, functionQueue>>
vars == <<comVars, senders, receiver>>

PacketOf(s) == [route |-> s, len |-> TxLength[s]]
Outgoing == {PacketOf(s) : s \in Sender}
SenderPC == {"idle", "print", "send", "signal"}

TypeOK ==
  /\ ComTypeOK(Outgoing)
  /\ pc \in [Sender -> SenderPC]
  /\ txpPacked \in Outgoing \cup {NoPacket}
  /\ console \in SUBSET Sender
  /\ rx_pc \in {"read", "queue"}
  /\ rxp \in Incoming \cup {NoPacket}
  /\ functionQueue \in Seq(Incoming) /\ Len(functionQueue) <= QUEUE_LENGTH

\* cpxInit and cpxEnableFunction(CPX_F_WIFI_CTRL)
Init ==
  /\ ComInit
  /\ pc = [s \in Sender |-> "idle"]
  /\ txpPacked = NoPacket
  /\ console = {}
  /\ rx_pc = "read" /\ rxp = NoPacket
  /\ functionQueue = << >>

Step(s, from, to) == pc[s] = from /\ pc' = [pc EXCEPT ![s] = to]
------------------------------------------------------------------------------
(* Senders: cpxSendPacketBlocking, and cpxPrintToConsole around it. *)

\* camera_task has a packet of a frame to send, which it packs at once, or prints
\* its profiling data.  The tasks above com_task start when cpxInit has returned.
SendFrame ==
  /\ attached
  /\ Step("camera_task", "idle", "send")
  /\ txpPacked' = PacketOf("camera_task")
  /\ UNCHANGED <<comVars, console, receiver>>

PrintProfile ==
  /\ attached
  /\ Step("camera_task", "idle", "print")
  /\ UNCHANGED <<comVars, txpPacked, console, receiver>>

\* cpxReceivePacketBlocking(CPX_F_WIFI_CTRL, ...): of the commands received, the
\* two status commands are answered by a line on the console.
ReceiveControl ==
  /\ functionQueue # << >>
  /\ functionQueue' = Tail(functionQueue)
  /\ \/ Step("wifi_rx_task", "idle", "print")
     \/ pc["wifi_rx_task"] = "idle" /\ UNCHANGED pc
  /\ UNCHANGED <<comVars, txpPacked, console, rx_pc, rxp>>

\* cpxPrintToConsole up to the end of the packing
PrintToConsole(s) ==
  /\ Step(s, "print", "send")
  /\ console = {}
  /\ console' = {s}
  /\ txpPacked' = PacketOf(s)
  /\ UNCHANGED <<comVars, receiver>>

\* com_write: xQueueSend(txq, &txpPacked, portMAX_DELAY) ...
QueuePacket(s) ==
  /\ Step(s, "send", "signal")
  /\ Len(txq) < TXQ_SIZE
  /\ txq' = Append(txq, txpPacked)
  /\ UNCHANGED <<rxq, bits, attached, task, gap8_rtt, nina, txpPacked, console, receiver>>

\* Mutant of SignalQueued: the queued packet is not announced.
QueuedUnannounced(s) ==
  /\ Step(s, "signal", "idle")
  /\ console' = console \ {s}
  /\ UNCHANGED <<queues, bits, attached, task, gap8_rtt, nina, txpPacked, receiver>>

\* ... then xEventGroupSetBits(evGroup, TX_QUEUE_BIT); a print gives the semaphore.
SignalQueued(s) ==
  /\ Step(s, "signal", "idle")
  /\ bits' = bits \cup {"TX_QUEUE"}
  /\ console' = console \ {s}
  /\ UNCHANGED <<queues, attached, task, gap8_rtt, nina, txpPacked, receiver>>

Sending(s) == PrintToConsole(s) \/ QueuePacket(s) \/ SignalQueued(s)
------------------------------------------------------------------------------
(* cpx_rx_task, which cpxInit creates when com_init has returned. *)

\* The assertion of the version (cpx.c:59) is left out: the ESP32's packets have it.
ReadPacket ==
  /\ attached
  /\ rx_pc = "read" /\ rxq # << >>
  /\ rx_pc' = "queue"
  /\ rxp' = Head(rxq)
  /\ rxq' = Tail(rxq)
  /\ UNCHANGED <<txq, bits, attached, task, gap8_rtt, nina, senders, functionQueue>>

\* xQueueSend(queues[function], ..., portMAX_DELAY); only WIFI_CTRL has a queue.
RoutePacket ==
  /\ rx_pc = "queue"
  /\ rx_pc' = "read"
  /\ rxp' = NoPacket \* dead until the next ReadPacket
  /\ \/ /\ rxp.route = "wifi_ctrl" /\ Len(functionQueue) < QUEUE_LENGTH
        /\ functionQueue' = Append(functionQueue, rxp)
     \/ /\ rxp.route # "wifi_ctrl"
        /\ UNCHANGED functionQueue
  /\ UNCHANGED <<comVars, senders>>
------------------------------------------------------------------------------
\* The ESP32 raises its line, with any packet or none.
NinaRaises ==
  /\ \E out \in Incoming \cup {NoPacket} : RaiseNinaRTT(out)
  /\ UNCHANGED <<senders, receiver>>

Next ==
  \/ ComTask /\ UNCHANGED <<senders, receiver>>
  \/ AttachCallback /\ UNCHANGED <<senders, receiver>>
  \/ NinaRaises
  \/ LowerNinaRTT /\ UNCHANGED <<senders, receiver>>
  \/ SendFrame
  \/ PrintProfile
  \/ ReceiveControl
  \/ \E s \in Sender : Sending(s)
  \/ ReadPacket
  \/ RoutePacket

\* Every task is scheduled; the ESP32 answers GAP8's line.  Of the senders that
\* wait for room in txq, or for the semaphore, FreeRTOS wakes the one that has
\* waited longest, so what can go on again and again does.
Fairness ==
  /\ WF_vars(ComTask /\ UNCHANGED <<senders, receiver>>)
  /\ WF_vars(AttachCallback /\ UNCHANGED <<senders, receiver>>)
  /\ WF_vars(gap8_rtt /\ NinaRaises)
  /\ WF_vars(LowerNinaRTT /\ UNCHANGED <<senders, receiver>>)
  /\ WF_vars(ReceiveControl) /\ WF_vars(ReadPacket) /\ WF_vars(RoutePacket)
  /\ \A s \in Sender : SF_vars(Sending(s))

Spec == Init /\ [][Next]_vars /\ Fairness
------------------------------------------------------------------------------
\* cpx.h, cpxSendPacketBlocking: "This will send a packet to the ESP32": what a
\* task queues is the packet it was asked to send.
SendsOwnPacket ==
  [][\A s \in Sender : pc[s] = "send" /\ pc'[s] = "signal" => txq'[Len(txq')] = PacketOf(s)]_vars

\* Every task waits for the next one: com_task for room in rxq (com.c:273),
\* cpx_rx_task for room in the queue of WIFI_CTRL, wifi_rx_task, which would make
\* it, for room in txq or for the console of a task that does, and txq for com_task.
CircularWait ==
  /\ com = "deliver" /\ Len(rxq) = RXQ_SIZE
  /\ rx_pc = "queue" /\ rxp.route = "wifi_ctrl" /\ Len(functionQueue) = QUEUE_LENGTH
  /\ pc["wifi_rx_task"] \in {"print", "send"} /\ Len(txq) = TXQ_SIZE

\* cpx.h:100-101, cpxSendPacketBlocking: "This will send a packet to the ESP32 and will
\* block until the packet can be queued up for sending": while the ESP32 answers GAP8's
\* line, every send returns.  (The edge that is missed at startup is another matter.)
SendReturns == \A s \in Sender : (pc[s] # "idle") ~> (pc[s] = "idle" \/ missed)

\* What holds of the code: nothing else than the circular wait and the missed edge, after
\* which com_task waits for a line that is high already, keeps a send from returning.
BlocksOnlyInCircle ==
  \A s \in Sender : (pc[s] # "idle") ~> (pc[s] = "idle" \/ missed \/ CircularWait)

\* Whenever the ESP32 is ready it is served, also when its line is high at startup and
\* when its edge comes while com_task is busy with a packet of GAP8; but not if the edge
\* falls between the reading of the line (com.c:163) and the attaching of the callback
\* (com.c:316), nor once the tasks wait in a circle.
NinaServed == nina_ready ~> (~nina_ready \/ missed \/ CircularWait)
==============================================================================
