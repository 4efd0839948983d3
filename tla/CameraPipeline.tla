---------------------------- MODULE CameraPipeline ----------------------------
(***************************************************************************)
(* The capture pipeline of the WiFi image streamer: camera_pipeline.c and  *)
(* the main loop of camera_task in wifi-img-streamer.c.                    *)
(*                                                                         *)
(* Three actors share the pipeline's static variables: camera_task, the    *)
(* camera's DMA (external: it fills the buffers queued in it, in order,    *)
(* while the camera is started) and the SDK's event task, which calls      *)
(* capture_done once per completed frame.  camera_task and capture_done    *)
(* interleave between any two statements that touch shared state; nothing  *)
(* in the code masks one against the other.                                *)
(***************************************************************************)
EXTENDS Integers, Sequences, SequencesExt

CONSTANTS
  Modes,       \* the CAPTURE_MODE builds: a subset of {"start-stop", "pipelined"}
  CounterSize  \* captures_queued and captures_completed count modulo this (2^32)

ASSUME ModesAssumption == Modes \subseteq {"start-stop", "pipelined"}
ASSUME CounterAssumption == CounterSize \in Nat /\ CounterSize > 3

VARIABLES
  mode,                 \* CAPTURE_MODE, fixed at build time
  client,               \* wifi_client_connected
  pc,                   \* the statement camera_task executes next
  consumer_waiting, camera_streaming, discarding_captures,
  captures_queued, captures_completed,
  ready_buffer, processing_buffer,
  done_bit,             \* CAPTURE_DONE_BIT of capture_events
  camera_on,            \* between PI_CAMERA_CMD_START and _STOP
  dma,                  \* buffers queued in the camera driver, in capture order
  completed,            \* filled buffers whose capture_done has not been called
  cb,                   \* the statement capture_done executes next
  cb_buffer             \* its buffer_index

flags == <<consumer_waiting, camera_streaming, discarding_captures>>
counters == <<captures_queued, captures_completed>>
indices == <<ready_buffer, processing_buffer>>
callback == <<completed, cb, cb_buffer>>
taskVars == <<pc, camera_streaming, discarding_captures, processing_buffer, camera_on>>
vars == <<mode, client, pc, flags, counters, indices, done_bit, camera_on, dma, callback>>

Buffer == IF mode = "pipelined" THEN {0, 1, 2} ELSE {0}

TaskPC ==
  {"init", "halted", "check", "request", "first", "second", "start", "wait", "stop_frame",
   "take", "third", "process", "end_request", "end_wait", "requeue", "end_take",
   "clear", "discard", "drain", "clear_again", "reset", "stop"}
CallbackPC == {"idle", "entered", "not_discarding", "signal"}

TypeOK ==
  /\ mode \in Modes
  /\ client \in BOOLEAN
  /\ pc \in TaskPC
  /\ {consumer_waiting, camera_streaming, discarding_captures} \subseteq BOOLEAN
  /\ {captures_queued, captures_completed} \subseteq 0 .. CounterSize - 1
  /\ {ready_buffer, processing_buffer, cb_buffer} \subseteq Buffer
  /\ {done_bit, camera_on} \subseteq BOOLEAN
  /\ dma \in Seq(Buffer)
  /\ completed \in Seq(Buffer)
  /\ cb \in CallbackPC

Init ==
  /\ mode \in Modes
  /\ client = FALSE
  /\ pc = "init"
  /\ consumer_waiting = FALSE /\ camera_streaming = FALSE /\ discarding_captures = FALSE
  /\ captures_queued = 0 /\ captures_completed = 0
  /\ ready_buffer = 0 /\ processing_buffer = 0
  /\ done_bit = FALSE
  /\ camera_on = FALSE
  /\ dma = << >>
  /\ completed = << >>
  /\ cb = "idle" /\ cb_buffer = 0

Incremented(n) == (n + 1) % CounterSize
outstanding_captures == (captures_queued - captures_completed) % CounterSize

Go(from, to) == pc = from /\ pc' = to
------------------------------------------------------------------------------
(* camera_task. *)

\* camera_pipeline_init: the camera is probed and stopped again, or any of the
\* steps fails and camera_task returns.
PipelineInit ==
  /\ pc = "init"
  /\ pc' \in {"check", "halted"}
  /\ UNCHANGED <<mode, client, flags, counters, indices, done_bit, camera_on, dma, callback>>

\* Top of the loop; with a client it calls camera_pipeline_begin_frame, which
\* goes straight to its frame when the camera already streams.
CheckClient ==
  /\ pc = "check"
  /\ pc' = IF client THEN IF camera_streaming THEN "process" ELSE "request"
           ELSE IF camera_streaming THEN "clear" ELSE "check"
  /\ UNCHANGED <<mode, client, flags, counters, indices, done_bit, camera_on, dma, callback>>

\* consumer_waiting = 1, in begin_frame and in end_frame
RequestFrame ==
  /\ \/ Go("request", "first")
     \/ Go("end_request", "end_wait")
  /\ consumer_waiting' = TRUE
  /\ UNCHANGED <<mode, client, camera_streaming, discarding_captures, counters, indices,
                 done_bit, camera_on, dma, callback>>

ScheduleCapture(b) ==
  /\ captures_queued' = Incremented(captures_queued)
  /\ dma' = Append(dma, b)
  /\ UNCHANGED <<mode, client, captures_completed, done_bit, camera_on, callback,
                 consumer_waiting, discarding_captures>>

\* The captures begin_frame schedules before it starts the camera
ScheduleFirst ==
  /\ Go("first", IF mode = "pipelined" THEN "second" ELSE "start")
  /\ ScheduleCapture(IF mode = "pipelined" THEN 1 ELSE processing_buffer)
  /\ UNCHANGED <<indices, camera_streaming>>

ScheduleSecond ==
  /\ Go("second", "start")
  /\ ScheduleCapture(2)
  /\ UNCHANGED <<indices, camera_streaming>>

StartCamera ==
  /\ Go("start", "wait")
  /\ camera_on' = TRUE
  /\ UNCHANGED <<mode, client, flags, counters, indices, done_bit, dma, callback>>

\* wait_for_ready_frame returns: the bit is cleared on exit (pdTRUE).
WaitForReadyFrame ==
  /\ \/ Go("wait", IF mode = "pipelined" THEN "take" ELSE "stop_frame")
     \/ Go("end_wait", "requeue")
     \/ Go("drain", "clear_again")
  /\ done_bit
  /\ done_bit' = FALSE
  /\ UNCHANGED <<mode, client, flags, counters, indices, camera_on, dma, callback>>

StopFrame ==
  /\ Go("stop_frame", "take")
  /\ camera_on' = FALSE
  /\ UNCHANGED <<mode, client, flags, counters, indices, done_bit, dma, callback>>

\* processing_buffer = ready_buffer
TakeFrame ==
  /\ \/ Go("take", IF mode = "pipelined" THEN "third" ELSE "process")
     \/ Go("end_take", "check")
  /\ processing_buffer' = ready_buffer
  /\ UNCHANGED <<mode, client, flags, counters, ready_buffer, done_bit, camera_on, dma, callback>>

\* Mutant of ScheduleThird: two captures are thought to be enough.
StreamWithTwo ==
  /\ Go("third", "process")
  /\ camera_streaming' = TRUE
  /\ UNCHANGED <<mode, client, counters, indices, done_bit, camera_on, dma, callback,
                 consumer_waiting, discarding_captures>>

ScheduleThird ==
  /\ Go("third", "process")
  /\ ScheduleCapture(0)
  /\ camera_streaming' = TRUE
  /\ UNCHANGED indices

\* Encode and transfer the frame (a failed encode skips the transfer), then call
\* camera_pipeline_end_frame, which does nothing in start-stop mode.
ProcessFrame ==
  /\ Go("process", IF mode = "pipelined" THEN "end_request" ELSE "check")
  /\ UNCHANGED <<mode, client, flags, counters, indices, done_bit, camera_on, dma, callback>>

\* Mutant of Requeue: the new frame's buffer is queued, not the old one's.
RequeueReady ==
  /\ Go("requeue", "end_take")
  /\ ScheduleCapture(ready_buffer)
  /\ UNCHANGED <<indices, camera_streaming>>

\* schedule_capture(processing_buffer): the frame just sent becomes a target again
Requeue ==
  /\ Go("requeue", "end_take")
  /\ ScheduleCapture(processing_buffer)
  /\ UNCHANGED <<indices, camera_streaming>>

\* camera_pipeline_disconnect
ClearDone ==
  /\ \/ Go("clear", "discard")
     \/ Go("clear_again", "reset")
  /\ done_bit' = FALSE
  /\ UNCHANGED <<mode, client, flags, counters, indices, camera_on, dma, callback>>

StartDiscarding ==
  /\ Go("discard", "drain")
  /\ discarding_captures' = TRUE
  /\ UNCHANGED <<mode, client, consumer_waiting, camera_streaming, counters, indices,
                 done_bit, camera_on, dma, callback>>

ResetFlags ==
  /\ Go("reset", "stop")
  /\ consumer_waiting' = FALSE /\ camera_streaming' = FALSE /\ discarding_captures' = FALSE
  /\ UNCHANGED <<mode, client, counters, indices, done_bit, camera_on, dma, callback>>

StopCamera ==
  /\ Go("stop", "check")
  /\ camera_on' = FALSE
  /\ UNCHANGED <<mode, client, flags, counters, indices, done_bit, dma, callback>>

CameraTask ==
  \/ PipelineInit \/ CheckClient \/ RequestFrame
  \/ ScheduleFirst \/ ScheduleSecond \/ ScheduleThird \/ Requeue
  \/ StartCamera \/ StopFrame \/ StopCamera
  \/ WaitForReadyFrame \/ TakeFrame \/ ProcessFrame
  \/ ClearDone \/ StartDiscarding \/ ResetFlags
------------------------------------------------------------------------------
(* The event task: capture_done, statement by statement. *)

CallbackUnchanged == UNCHANGED <<mode, client, taskVars, captures_queued>>

EnterCallback ==
  /\ cb = "idle" /\ completed # << >>
  /\ cb' = "entered"
  /\ cb_buffer' = Head(completed)
  /\ completed' = Tail(completed)
  /\ CallbackUnchanged
  /\ UNCHANGED <<consumer_waiting, captures_completed, ready_buffer, done_bit, dma>>

\* Mutants of DiscardCapture: it tests the counter before it counts this capture;
\* it signals on every capture.
DiscardTestsFirst ==
  /\ cb = "entered" /\ discarding_captures
  /\ captures_completed' = Incremented(captures_completed)
  /\ cb' = IF outstanding_captures = 0 THEN "signal" ELSE "idle"
  /\ CallbackUnchanged
  /\ UNCHANGED <<consumer_waiting, ready_buffer, done_bit, dma, completed, cb_buffer>>

DiscardAlwaysSignals ==
  /\ cb = "entered" /\ discarding_captures
  /\ captures_completed' = Incremented(captures_completed)
  /\ cb' = "signal"
  /\ CallbackUnchanged
  /\ UNCHANGED <<consumer_waiting, ready_buffer, done_bit, dma, completed, cb_buffer>>

\* if (discarding_captures): count the capture, and signal when it was the last
DiscardCapture ==
  /\ cb = "entered" /\ discarding_captures
  /\ captures_completed' = Incremented(captures_completed)
  /\ cb' = IF (captures_queued - captures_completed') % CounterSize = 0 THEN "signal" ELSE "idle"
  /\ CallbackUnchanged
  /\ UNCHANGED <<consumer_waiting, ready_buffer, done_bit, dma, completed, cb_buffer>>

NotDiscarding ==
  /\ cb = "entered" /\ ~discarding_captures
  /\ cb' = "not_discarding"
  /\ CallbackUnchanged
  /\ UNCHANGED <<consumer_waiting, captures_completed, ready_buffer, done_bit, dma,
                 completed, cb_buffer>>

\* if (consumer_waiting)
HandOver ==
  /\ cb = "not_discarding" /\ consumer_waiting
  /\ captures_completed' = Incremented(captures_completed)
  /\ ready_buffer' = cb_buffer
  /\ consumer_waiting' = FALSE
  /\ cb' = "signal"
  /\ CallbackUnchanged
  /\ UNCHANGED <<done_bit, dma, completed, cb_buffer>>

\* Mutant of DropFrame: the dropped capture is signalled.
DropSignals ==
  /\ cb = "not_discarding" /\ ~consumer_waiting
  /\ dma' = Append(dma, cb_buffer)
  /\ cb' = "signal"
  /\ CallbackUnchanged
  /\ UNCHANGED <<consumer_waiting, captures_completed, ready_buffer, done_bit,
                 completed, cb_buffer>>

\* else: the frame is dropped and its buffer queued again
DropFrame ==
  /\ cb = "not_discarding" /\ ~consumer_waiting
  /\ dma' = Append(dma, cb_buffer)
  /\ cb' = "idle"
  /\ CallbackUnchanged
  /\ UNCHANGED <<consumer_waiting, captures_completed, ready_buffer, done_bit,
                 completed, cb_buffer>>

SignalDone ==
  /\ cb = "signal"
  /\ done_bit' = TRUE
  /\ cb' = "idle"
  /\ CallbackUnchanged
  /\ UNCHANGED <<consumer_waiting, captures_completed, ready_buffer, dma, completed, cb_buffer>>

CaptureDone ==
  EnterCallback \/ DiscardCapture \/ NotDiscarding \/ HandOver \/ DropFrame \/ SignalDone
------------------------------------------------------------------------------
(* The environment. *)

\* The sensor delivers a frame into the oldest queued buffer.
FrameCaptured ==
  /\ camera_on /\ dma # << >>
  /\ dma' = Tail(dma)
  /\ completed' = Append(completed, Head(dma))
  /\ UNCHANGED <<mode, client, pc, flags, counters, indices, done_bit, camera_on, cb, cb_buffer>>

\* wifi_rx_task receives WIFI_CTRL_STATUS_CLIENT_CONNECTED.
ClientStatus ==
  /\ client' = ~client
  /\ UNCHANGED <<mode, pc, flags, counters, indices, done_bit, camera_on, dma, callback>>

Next == CameraTask \/ CaptureDone \/ FrameCaptured \/ ClientStatus

\* camera_task and the event task are scheduled, and a started camera delivers frames.
Fairness == WF_vars(CameraTask) /\ WF_vars(CaptureDone) /\ WF_vars(FrameCaptured)

Spec == Init /\ [][Next]_vars /\ Fairness
------------------------------------------------------------------------------
\* The captures under way: queued in the driver, filled but not reported, or in
\* the callback before it has decided what to do with the buffer
InCallback == IF cb \in {"entered", "not_discarding"} THEN <<cb_buffer>> ELSE << >>
UnderWay == dma \o completed \o InCallback

FrameInHand ==
  \/ pc \in {"third", "process", "end_request", "end_wait", "requeue"}
  \/ pc \in {"check", "clear"} /\ camera_streaming

\* The frame that camera_task encodes and transfers is never a DMA target, from
\* the moment it is taken until it is queued again: no torn image is sent.
FrameExclusive ==
  FrameInHand => ~\E i \in DOMAIN UnderWay : UnderWay[i] = processing_buffer

\* No buffer is queued twice in the driver.
EachBufferOnce == IsInjective(UnderWay)

\* No frame is torn: neither is it overwritten while it is sent nor filled twice.
NoTornFrame == FrameExclusive /\ EachBufferOnce

\* wifi-streamer.md: "two DMA buffers remain queued while one complete frame is
\* encoded or transferred", whatever number of frames was dropped meanwhile.
TwoRemainQueued ==
  pc = "process" /\ mode = "pipelined" => Len(UnderWay) = 2

\* outstanding_captures, with its wrapping counters, counts the captures under
\* way whenever the discarding callback can read it.
OutstandingExact ==
  discarding_captures => outstanding_captures = Len(UnderWay)

\* The camera is stopped only when no capture is queued or unreported (comment
\* in camera_pipeline_disconnect): a later start finds an empty driver queue.
StopsWhenDrained == [][camera_on /\ ~camera_on' => UnderWay = << >>]_vars

\* A wait never returns on a bit left over from an earlier frame: a frame taken
\* is one that capture_done handed over for this request.
NoStaleSignal == pc \in {"check", "process", "request", "first"} => ~done_bit

\* What the callback tells camera_task is true: the count and the done bit.
CaptureAccounting == OutstandingExact /\ NoStaleSignal

\* While a client stays connected and the camera works, frames keep coming: also to
\* a client that connects again, so that the disconnect before it always completes.
FramesKeepComing == <>[](client /\ pc # "halted") => []<>(pc = "process")
==============================================================================
