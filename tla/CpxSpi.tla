------------------------------- MODULE CpxSpi -------------------------------
(***************************************************************************)
(* CPX on coroutines: cpx_spi_task with cpx_spi_send_async and             *)
(* cpx_spi_receive_async (cpx_spi.c), and above them cpx_send_task and     *)
(* cpx_receive_task (cpx.c).                                               *)
(*                                                                         *)
(* Each action but the environment's runs the scheduler's oldest task, up  *)
(* to the coroutine's next suspension point.  cpx_spi_task's program       *)
(* counter names what it waits for.                                        *)
(*                                                                         *)
(* External, from how cpx_spi.c uses them: the SPI driver, which clocks    *)
(* a transfer in the background and pushes its task at the end; the GPIO   *)
(* driver, which pushes nina_rtt_task on a rising edge; and NINA, which    *)
(* raises its line when it has prepared its half of one transfer, because  *)
(* GAP8's line is high or on its own, and lowers it after the chip select  *)
(* was released.                                                           *)
(***************************************************************************)
EXTENDS SpiLengths, Coroutine, SequencesExt

CONSTANTS
  Sender,         \* the cpx_send_req_t, each with one sender
  Packet,         \* packets NINA can send
  Registered,     \* those whose function has a receive callback
  HeadLen, TailLen, PacketLen,  \* lengths, by sender and by packet
  Bidirectional,  \* CPX_SPI_BIDIRECTIONAL
  NoSender        \* NULL

ASSUME SenderAssumption ==
  /\ NoSender \notin Sender
  /\ {"spi", "receiver", "callback"} \cap Sender = {}
  /\ \A s \in Sender : HeadLen[s] \in Nat /\ TailLen[s] \in Nat
ASSUME PacketAssumption ==
  /\ Registered \subseteq Packet
  /\ \A p \in Packet : PacketLen[p] \in Nat \ {0}
  /\ Bidirectional \in BOOLEAN

VARIABLES
  rt,        \* the coroutine run-time, with the events and the event group of CPX
  spi, receiver, callback, sender,      \* where each coroutine is suspended
  send_req, receive_req,                \* requests posted in cpx_spi_t
  sending, receiving,                   \* cpx_spi_task's send_req and receive_req
  header,                               \* receive_req->header: a packet, or "none"
  wire,                                 \* the phase the SPI driver is clocking
  gap8_rtt, nina_rtt, nina_ready, nina_out, \* as in ComLink
  carried,   \* history: transfers that carried a sender's packet since it was started
  failed     \* has an assertion failed?

tasks == <<spi, receiver, callback, sender>>
requests == <<send_req, receive_req, sending, receiving, header>>
nina == <<nina_rtt, nina_ready, nina_out>>
vars == <<rt, tasks, requests, wire, gap8_rtt, nina, carried, failed>>

Event == {"spi_done", "send_done", "receive_done"}
Bit == {"NINA_RTT", "SEND", "RECEIVE"}
Context == Sender \cup {"spi", "receiver", "callback"}
Task == {Resume(c) : c \in Context} \cup {EventTask(e) : e \in Event} \cup {<<"nina_rtt">>}

TypeOK ==
  /\ rt.tasks \in Seq(Task)
  /\ rt.done \in [Event -> BOOLEAN]
  /\ rt.waiting \in [Event -> Seq(Context)]
  /\ rt.bits \subseteq Bit /\ rt.wait.bits \subseteq Bit
  /\ spi \in {"start", "any", "receive", "rtt", "header", "head", "tail"}
  /\ receiver \in {"start", "packet", "dispatch"}
  /\ callback \in {"idle", "start", "running"}
  /\ sender \in [Sender -> {"idle", "start", "contend", "sent"}]
  /\ {send_req, sending} \subseteq Sender \cup {NoSender}
  /\ {receive_req, receiving, gap8_rtt, nina_rtt, nina_ready, failed} \subseteq BOOLEAN
  /\ {header, nina_out} \subseteq Packet \cup {"none"}
  /\ wire \in {"idle", "header", "head", "tail"}
  /\ carried \in [Sender -> 0 .. 1]

\* cpx_init and cpx_start.  rtt_pins_init reads NINA's line before it attaches the
\* callback; send_done is pushed so that the first send finds it done.
Init ==
  /\ nina_rtt \in BOOLEAN
  /\ nina_ready = nina_rtt
  /\ nina_out \in IF nina_rtt THEN Packet \cup {"none"} ELSE {"none"}
  /\ rt = LET started == Started(Event, IF nina_rtt THEN {"NINA_RTT"} ELSE {})
          IN  PushResume(PushEvent(PushResume(started, "spi"), "send_done"), "receiver")
  /\ spi = "start" /\ receiver = "start" /\ callback = "idle"
  /\ sender = [s \in Sender |-> "idle"]
  /\ send_req = NoSender /\ receive_req = FALSE
  /\ sending = NoSender /\ receiving = FALSE /\ header = "none"
  /\ wire = "idle" /\ gap8_rtt = FALSE
  /\ carried = [s \in Sender |-> 0]
  /\ failed = FALSE

Runs(t) == rt.tasks # << >> /\ Head(rt.tasks) = t

\* The lengths of the transfer under way
SendLength == IF sending = NoSender THEN 0 ELSE HeadLen[sending] + TailLen[sending]
HeadLength == IF sending = NoSender THEN 0 ELSE HeadLen[sending]
ReceiveLength(packet) == IF packet = "none" \/ ~receiving THEN 0 ELSE PacketLen[packet]
------------------------------------------------------------------------------
(* cpx_spi_task; the numbers are those of the comments in cpx_spi.c. *)

\* 1) Wait until someone wants to transmit data
WaitForWork(k) == GroupWait(k, "spi", {"NINA_RTT", "SEND"}, FALSE)

StartSpi ==
  /\ Runs(Resume("spi")) /\ spi = "start"
  /\ spi' = "any"
  /\ rt' = WaitForWork(Popped(rt))
  /\ UNCHANGED <<receiver, callback, sender, requests, wire, gap8_rtt, nina, carried, failed>>

\* 2) In any case, wait until we are also ready to receive
AwaitReceiver ==
  /\ Runs(Resume("spi")) /\ spi = "any"
  /\ spi' = "receive"
  /\ rt' = GroupWait(Popped(rt), "spi", {"RECEIVE"}, TRUE)
  /\ UNCHANGED <<receiver, callback, sender, requests, wire, gap8_rtt, nina, carried, failed>>

\* Mutant of NotifyNina: GAP8's line is not raised for a send.
NotifyNobody ==
  /\ Runs(Resume("spi")) /\ spi = "receive"
  /\ spi' = "rtt"
  /\ rt' = GroupWait(Popped(rt), "spi", {"NINA_RTT"}, TRUE)
  /\ UNCHANGED <<receiver, callback, sender, requests, wire, gap8_rtt, nina, carried, failed>>

\* 3) Notify NINA if we have data to transmit, 4) ensure that NINA is ready
NotifyNina ==
  /\ Runs(Resume("spi")) /\ spi = "receive"
  /\ spi' = "rtt"
  /\ gap8_rtt' = (gap8_rtt \/ "SEND" \in rt.bits)
  /\ rt' = GroupWait(Popped(rt), "spi", {"NINA_RTT"}, TRUE)
  /\ UNCHANGED <<receiver, callback, sender, requests, wire, nina, carried, failed>>

\* Start a phase of the transfer and wait for spi_done.
Clock(k, phase) ==
  /\ wire' = phase
  /\ rt' = WaitEvent(InitEvent(k, "spi_done"), "spi_done", "spi")

\* Nothing to clock: spi_done is pushed at once.
ClockNothing(k) ==
  /\ UNCHANGED wire
  /\ rt' = WaitEvent(PushEvent(InitEvent(k, "spi_done"), "spi_done"), "spi_done", "spi")

\* Mutant of TransferHeader: a send request stays in the transfers that follow.
HeaderKeepsSending ==
  /\ Runs(Resume("spi")) /\ spi = "rtt"
  /\ spi' = "header"
  /\ sending' = IF "SEND" \in rt.bits THEN send_req ELSE sending
  /\ receiving' = ("RECEIVE" \in rt.bits /\ receive_req)
  /\ Clock(Popped(rt), "header")
  /\ UNCHANGED <<receiver, callback, sender, send_req, receive_req, header, gap8_rtt, nina,
                 carried, failed>>

\* 5) Fetch all event bits together, 6) transfer the header
TransferHeader ==
  /\ Runs(Resume("spi")) /\ spi = "rtt"
  /\ spi' = "header"
  /\ sending' = IF "SEND" \in rt.bits THEN send_req ELSE NoSender
  /\ receiving' = ("RECEIVE" \in rt.bits /\ receive_req)
  /\ Clock(Popped(rt), "header")
  /\ UNCHANGED <<receiver, callback, sender, send_req, receive_req, header, gap8_rtt, nina,
                 carried, failed>>

\* Mutant of TransferHead: the NINA RTT bit is not cleared.
HeadWithoutRearming ==
  /\ Runs(Resume("spi")) /\ spi = "header"
  /\ spi' = "head"
  /\ gap8_rtt' = FALSE
  /\ header' = IF Bidirectional THEN header ELSE "none"
  /\ IF HeadLength = 0 /\ ~EndsAtHead(SendLength, ReceiveLength(header'), HeadLength)
       THEN ClockNothing(Popped(rt))
       ELSE Clock(Popped(rt), "head")
  /\ UNCHANGED <<receiver, callback, sender, send_req, receive_req, sending, receiving, nina,
                 carried, failed>>

\* 7) Disable GAP8 RTT, 8) re-arm the NINA RTT event, 9) transfer the payload head
TransferHead ==
  /\ Runs(Resume("spi")) /\ spi = "header"
  /\ spi' = "head"
  /\ gap8_rtt' = FALSE
  /\ header' = IF Bidirectional THEN header ELSE "none"
  /\ LET rearmed == GroupClear(Popped(rt), {"NINA_RTT"})
     IN  IF HeadLength = 0 /\ ~EndsAtHead(SendLength, ReceiveLength(header'), HeadLength)
           THEN ClockNothing(rearmed)
           ELSE Clock(rearmed, "head")
  /\ UNCHANGED <<receiver, callback, sender, send_req, receive_req, sending, receiving, nina,
                 carried, failed>>

\* 10) Transfer the payload tail
TransferTail ==
  /\ Runs(Resume("spi")) /\ spi = "head"
  /\ spi' = "tail"
  /\ IF TailBytes(SendLength, ReceiveLength(header), HeadLength) = 0
       THEN ClockNothing(Popped(rt))
       ELSE Clock(Popped(rt), "tail")
  /\ UNCHANGED <<receiver, callback, sender, requests, gap8_rtt, nina, carried, failed>>

\* Mutants: the SEND bit stays set; the end of a receive clears every event bit.
NotifySenderOnly(k) == IF sending = NoSender THEN k ELSE PushEvent(k, "send_done")
NotifyAndClearAll(k) ==
  IF receiving THEN GroupClear(PushEvent(k, "receive_done"), {"RECEIVE", "NINA_RTT"}) ELSE k

NotifySender(k) ==
  IF sending = NoSender THEN k ELSE GroupClear(PushEvent(k, "send_done"), {"SEND"})
NotifyReceiver(k) ==
  IF receiving THEN GroupClear(PushEvent(k, "receive_done"), {"RECEIVE"}) ELSE k

\* 11) Notify the sender, 12) notify the receiver; next round
CompleteTransfer ==
  /\ Runs(Resume("spi")) /\ spi = "tail"
  /\ spi' = "any"
  /\ send_req' = IF sending = NoSender THEN send_req ELSE NoSender
  /\ receive_req' = (receive_req /\ ~receiving)
  /\ rt' = WaitForWork(NotifyReceiver(NotifySender(Popped(rt))))
  /\ UNCHANGED <<receiver, callback, sender, sending, receiving, header, wire, gap8_rtt, nina,
                 carried, failed>>

SpiTask ==
  \/ StartSpi \/ AwaitReceiver \/ NotifyNina
  \/ TransferHeader \/ TransferHead \/ TransferTail \/ CompleteTransfer
------------------------------------------------------------------------------
(* cpx_send_task, one coroutine per request. *)

\* Wait until all previous sends have completed, then cpx_spi_send_async.
SendOrWait(s) ==
  /\ Runs(Resume(s)) /\ sender[s] \in {"start", "contend"}
  /\ IF rt.done["send_done"]
       THEN /\ sender' = [sender EXCEPT ![s] = "sent"]
            /\ send_req' = s
            /\ rt' = WaitEvent(GroupSet(InitEvent(Popped(rt), "send_done"), {"SEND"}),
                               "send_done", s)
            /\ failed' = (send_req # NoSender)
       ELSE /\ sender' = [sender EXCEPT ![s] = "contend"]
            /\ rt' = WaitEvent(Popped(rt), "send_done", s)
            /\ UNCHANGED <<send_req, failed>>
  /\ UNCHANGED <<spi, receiver, callback, receive_req, sending, receiving, header, wire,
                 gap8_rtt, nina, carried>>

FinishSend(s) ==
  /\ Runs(Resume(s)) /\ sender[s] = "sent"
  /\ sender' = [sender EXCEPT ![s] = "idle"]
  /\ rt' = Popped(rt)
  /\ UNCHANGED <<spi, receiver, callback, requests, wire, gap8_rtt, nina, carried, failed>>
------------------------------------------------------------------------------
(* cpx_receive_task and the receive callback it dispatches to.  The assertion  *)
(* of the version (cpx.c:194-196) is left out: NINA's packets have it.         *)

\* cpx_spi_receive_async, at the top of the loop
Receive(k) ==
  /\ receiver' = "packet"
  /\ receive_req' = TRUE
  /\ rt' = WaitEvent(GroupSet(InitEvent(k, "receive_done"), {"RECEIVE"}),
                     "receive_done", "receiver")
  /\ failed' = receive_req
  /\ UNCHANGED callback

\* Mutant of Dispatch: the next receive is posted without waiting for the callback.
DispatchAndReceive(k) ==
  /\ receiver' = "packet"
  /\ receive_req' = TRUE
  /\ callback' = IF header \in Registered THEN "start" ELSE callback
  /\ failed' = receive_req
  /\ LET inited == InitEvent(k, "receive_done")
         pushed == IF header \in Registered THEN PushResume(inited, "callback") ELSE inited
     IN  rt' = WaitEvent(GroupSet(pushed, {"RECEIVE"}), "receive_done", "receiver")

\* cpx_dispatch_callback_async
Dispatch(k) ==
  /\ receiver' = "dispatch"
  /\ LET inited == InitEvent(k, "receive_done")
     IN  IF header \in Registered
           THEN /\ callback' = "start"
                /\ failed' = (callback # "idle")
                /\ rt' = WaitEvent(PushResume(inited, "callback"), "receive_done", "receiver")
           ELSE /\ rt' = WaitEvent(PushEvent(inited, "receive_done"), "receive_done", "receiver")
                /\ UNCHANGED <<callback, failed>>
  /\ UNCHANGED receive_req

ReceiverTask ==
  /\ Runs(Resume("receiver"))
  /\ IF receiver = "packet" /\ ReceiveLength(header) > 0 THEN Dispatch(Popped(rt))
                                                        ELSE Receive(Popped(rt))
  /\ UNCHANGED <<spi, sender, send_req, sending, receiving, header, wire, gap8_rtt, nina,
                 carried>>

\* The callback may suspend, with its packet still in the receive buffer.
StartCallback ==
  /\ Runs(Resume("callback"))
  /\ callback' = "running"
  /\ rt' = Popped(rt)
  /\ UNCHANGED <<spi, receiver, sender, requests, wire, gap8_rtt, nina, carried, failed>>

\* What it waited for happens; it returns and its done_task, receive_done, is pushed.
FinishCallback ==
  /\ callback = "running"
  /\ callback' = "idle"
  /\ rt' = PushEvent(rt, "receive_done")
  /\ UNCHANGED <<spi, receiver, sender, requests, wire, gap8_rtt, nina, carried, failed>>
------------------------------------------------------------------------------
(* Callbacks without a coroutine. *)

RunEventCallback(e) ==
  /\ Runs(EventTask(e))
  /\ rt' = RunEvent(Popped(rt), e)
  /\ UNCHANGED <<tasks, requests, wire, gap8_rtt, nina, carried, failed>>

NinaRttCallback ==
  /\ Runs(<<"nina_rtt">>)
  /\ rt' = GroupSet(Popped(rt), {"NINA_RTT"})
  /\ UNCHANGED <<tasks, requests, wire, gap8_rtt, nina, carried, failed>>

Scheduler ==
  \/ SpiTask
  \/ \E s \in Sender : SendOrWait(s) \/ FinishSend(s)
  \/ ReceiverTask \/ StartCallback
  \/ \E e \in Event : RunEventCallback(e)
  \/ NinaRttCallback
------------------------------------------------------------------------------
(* The environment. *)

\* Some coroutine calls cpx_send_async with a request that is not in use.
StartSend(s) ==
  /\ sender[s] = "idle"
  /\ sender' = [sender EXCEPT ![s] = "start"]
  /\ rt' = PushResume(rt, s)
  /\ carried' = [carried EXCEPT ![s] = 0]
  /\ UNCHANGED <<spi, receiver, callback, requests, wire, gap8_rtt, nina, failed>>

\* The transfer ends, and the chip select is released, with this phase.
LastPhase ==
  \/ wire = "tail"
  \/ wire = "head" /\ EndsAtHead(SendLength, ReceiveLength(header), HeadLength)

\* The SPI driver has clocked the phase.
PhaseDone ==
  /\ wire # "idle"
  /\ wire' = "idle"
  /\ rt' = PushEvent(rt, "spi_done")
  /\ header' = IF wire = "header" /\ receiving THEN nina_out ELSE header
  /\ IF LastPhase
       THEN /\ nina_ready' = FALSE /\ nina_out' = "none"
            /\ carried' = IF sending = NoSender THEN carried
                                                ELSE [carried EXCEPT ![sending] = @ + 1]
       ELSE UNCHANGED <<nina_ready, nina_out, carried>>
  /\ UNCHANGED <<tasks, send_req, receive_req, sending, receiving, gap8_rtt, nina_rtt, failed>>

RaiseNinaRTT ==
  /\ ~nina_rtt
  /\ nina_rtt' = TRUE /\ nina_ready' = TRUE
  /\ nina_out' \in Packet \cup {"none"}
  /\ rt' = PushTask(rt, <<"nina_rtt">>)
  /\ UNCHANGED <<tasks, requests, wire, gap8_rtt, carried, failed>>

LowerNinaRTT ==
  /\ nina_rtt /\ ~nina_ready
  /\ nina_rtt' = FALSE
  /\ UNCHANGED <<rt, tasks, requests, wire, gap8_rtt, nina_ready, nina_out, carried, failed>>

Next ==
  /\ ~failed
  /\ \/ Scheduler
     \/ \E s \in Sender : StartSend(s)
     \/ FinishCallback \/ PhaseDone \/ RaiseNinaRTT \/ LowerNinaRTT

\* The scheduler's loop runs (pi_yield), the SPI driver finishes, callbacks return,
\* and NINA answers GAP8's line.
Fairness ==
  /\ WF_vars(Scheduler)
  /\ WF_vars(FinishCallback)
  /\ WF_vars(PhaseDone)
  /\ WF_vars(gap8_rtt /\ RaiseNinaRTT)
  /\ WF_vars(LowerNinaRTT)

Spec == Init /\ [][Next]_vars /\ Fairness
------------------------------------------------------------------------------
\* Neither a second send, nor a second receive, nor a second callback is ever
\* started over one under way; senders that contend are serialised by send_done.
NoAssertionFailure == ~failed

\* A pi_task_t is linked into the scheduler's list at most once: no coroutine is
\* resumed twice for one suspension and no event is pushed while pending.
NoTaskQueuedTwice == IsInjective(rt.tasks)

\* cpx_spi_task dereferences send_req and receive_req on the strength of the event
\* bits alone: the bits always say whether a request is posted.
BitsMatchRequests ==
  /\ "SEND" \in rt.bits <=> send_req # NoSender
  /\ "RECEIVE" \in rt.bits <=> receive_req

\* What is under way is posted once, and the event bits know of it.
RequestsTracked == NoAssertionFailure /\ NoTaskQueuedTwice /\ BitsMatchRequests

\* GAP8 only clocks a transfer for which NINA has prepared its half, and one edge
\* of NINA's line is worth one transfer.
TransfersOnlyWhenReady == wire # "idle" => nina_ready

\* The receive buffer is not written while a callback reads its packet.
ReceiveBufferStable == callback # "idle" => wire = "idle" \/ ~receiving

\* cpx_send_async completes after exactly one transfer has carried the packet.
SendsExactlyOnce ==
  [][\A s \in Sender : sender[s] = "sent" /\ sender'[s] = "idle" => carried[s] = 1]_vars

\* cpx.c:128, cpx_send_task, on waiting for all previous sends: "This works because the
\* scheduler guarantees that tasks wake up in same the order they started waiting on
\* send_done": every send has its turn.
SendsComplete == \A s \in Sender : (sender[s] = "start") ~> (sender[s] = "idle")

\* What holds of the code: a contended send does not deadlock (the FIXME of cpx.c:127).
\* It is kept waiting for ever only by other sends that are started again and again and
\* overtake it: a sender whose task is in the scheduler's list when send_done runs finds
\* it done before those that send_done wakes.
StarvedOnlyByOvertaking ==
  \A s \in Sender :
    <>[](\A t \in Sender \ {s} : sender[t] # "start") => []<>(sender[s] = "idle")

\* A packet of NINA's reaches its function's callback.
PacketsDispatched ==
  \A p \in Registered : (nina_ready /\ nina_out = p) ~> (callback = "running" /\ header = p)
==============================================================================
