---------------------------- MODULE FrameStream ----------------------------
(***************************************************************************)
(* The life of a frame in the applications of nanocockpit: camera_task     *)
(* captures and crops it, camera_callback sends it with the streamer and,  *)
(* in pulp-frontnet, has the network run on it, and its buffer is captured *)
(* into again.  Two buffers are in use at once, so two instances of        *)
(* camera_callback can be, and they share their static variables.          *)
(*                                                                         *)
(* The coroutines run on the run-time of Coroutine: camera_task, for each  *)
(* frame the one context that crops it and then runs the callback          *)
(* (consumer_ctx), its streamer_send_task, and one inference_task.  The    *)
(* camera's DMA, the cluster, the SPI link and the UART work on their own  *)
(* and push an event when they are done.                                   *)
(***************************************************************************)
EXTENDS Coroutine, Naturals

CONSTANTS
  Onboard,   \* possible values of NETWORK_ONBOARD_INFERENCE
  CropRows,  \* CAMERA_CROP_HEIGHT, each followed by a yield
  Packets    \* packets of a frame

ASSUME FrameAssumption ==
  /\ Onboard \subseteq BOOLEAN
  /\ CropRows \in Nat \ {0} /\ Packets \in Nat \ {0}

VARIABLES
  rt,             \* the run-time
  at,             \* [contexts -> where they resume], "done" when not running
  left,           \* rows, or packets, that the crop and the send have left
  iteration,      \* of camera_task, counted up to CAMERA_BUFFERS
  current,        \* the buffer camera_task works on
  dma,            \* the buffer being captured into, or NoBuffer
  camera_started, \* of camera_callback
  inference_args, \* its static argument for inference_task: the buffer
  cluster,        \* the network on the cluster: its phase and its input
  spi, uart,      \* is a packet, or a message, on its way?
  unsent,         \* buffers with a captured frame not yet given to the streamer
  onboard,        \* is NETWORK_ONBOARD_INFERENCE defined?
  failed          \* has an assertion failed?

devices == <<dma, cluster, spi, uart>>
camera == <<iteration, current>>
vars == <<rt, at, left, camera, devices, camera_started, inference_args, unsent, onboard, failed>>

CAMERA_BUFFERS == 2
Buffer == 0 .. CAMERA_BUFFERS - 1

NoBuffer == CAMERA_BUFFERS

\* Events and contexts, those of each frame and those there is one of
Done(f) == <<"done_event", f>>
streamer_tx_done == <<"streamer_tx_done", 0>>
inference_done == <<"inference_done", 0>>
frame_done == <<"frame_done", 0>>
network_done == <<"network_done", 0>>
cpx_done == <<"cpx_done", 0>>
Event == {Done(f) : f \in Buffer}
           \cup {streamer_tx_done, inference_done, frame_done, network_done, cpx_done}

Consumer(f) == <<"consumer_ctx", f>>
Send(f) == <<"send_ctx", f>>
Camera == <<"camera_ctx", 0>>
Inference == <<"inference_ctx", 0>>
Context == {Consumer(f) : f \in Buffer} \cup {Send(f) : f \in Buffer} \cup {Camera, Inference}

Idle == [phase |-> "idle", input |-> NoBuffer]

\* camera_start; all contexts are zero-initialised.
Init ==
  /\ rt = PushResume(Started(Event, {}), Camera)
  /\ at = [c \in Context |-> IF c = Camera THEN "start" ELSE "done"]
  /\ left = [c \in Context |-> 0]
  /\ iteration = 0
  /\ current = 0
  /\ dma = NoBuffer /\ cluster = Idle /\ spi = FALSE /\ uart = FALSE
  /\ camera_started = FALSE /\ inference_args = NoBuffer
  /\ unsent = << >>
  /\ onboard \in Onboard
  /\ failed = FALSE

\* co_fn_push_start asserts that the context is not running.
Runs(c) == at[c] # "done"
--------------------------------------------------------------------------
(* camera_task *)

\* himax_capture_async and himax_start, then CO_WAIT for the frame; a is at as the
\* rest of the step has left it.
Capture(r, f, a) ==
  /\ dma' = f
  /\ rt' = WaitEvent(InitEvent(r, Done(f)), Done(f), Camera)
  /\ at' = [a EXCEPT ![Camera] = "captured"]

\* Mutant of BeginIteration: no buffer is waited for.
BeginAtOnce(r, f, a) == Capture(r, f, a) /\ UNCHANGED iteration

\* The head of the loop: only the first captures find their buffers free.
BeginIteration(r, f, a) ==
  IF iteration < CAMERA_BUFFERS
    THEN Capture(r, f, a) /\ iteration' = iteration + 1
    ELSE /\ rt' = WaitEvent(r, Done(f), Camera)
         /\ at' = [a EXCEPT ![Camera] = "free"]
         /\ UNCHANGED <<dma, iteration>>

\* co_fn_push_start of the consumer context, with the frame's event as its done_task
StartConsumer(r, f) == PushResume(InitEvent(r, Done(f)), Consumer(f))

CameraStarts(r) ==
  /\ at[Camera] = "start"
  /\ BeginIteration(r, current, at)
  /\ UNCHANGED <<left, current, unsent, failed>>

BufferFree(r) ==
  /\ at[Camera] = "free"
  /\ Capture(r, current, at)
  /\ UNCHANGED <<left, iteration, current, unsent, failed>>

\* The frame is there: himax_stop, and camera_crop_frame_async.
CropFrame(r) ==
  /\ at[Camera] = "captured"
  /\ rt' = WaitEvent(StartConsumer(r, current), Done(current), Camera)
  /\ at' = [at EXCEPT ![Camera] = "cropped", ![Consumer(current)] = "crop"]
  /\ left' = [left EXCEPT ![Consumer(current)] = CropRows]
  /\ failed' = Runs(Consumer(current))
  /\ unsent' = Append(unsent, current)
  /\ UNCHANGED <<iteration, current, dma>>

\* camera_consume_frame_async, and on to the next iteration
ConsumeFrame(r) ==
  /\ at[Camera] = "cropped"
  /\ failed' = Runs(Consumer(current))
  /\ current' = (current + 1) % CAMERA_BUFFERS
  /\ BeginIteration(StartConsumer(r, current), current',
                    [at EXCEPT ![Consumer(current)] = "callback"])
  /\ UNCHANGED <<left, unsent>>

CameraTask(r) ==
  /\ \/ CameraStarts(r) \/ BufferFree(r) \/ CropFrame(r) \/ ConsumeFrame(r)
  /\ UNCHANGED <<cluster, spi, uart, camera_started, inference_args>>

\* camera_crop_task: a row at a time; after the last one it pushes its done_task.
CropTask(r, f) ==
  /\ at[Consumer(f)] = "crop"
  /\ left[Consumer(f)] > 0
  /\ left' = [left EXCEPT ![Consumer(f)] = @ - 1]
  /\ rt' = PushResume(r, Consumer(f))
  /\ UNCHANGED <<at, camera, devices, camera_started, inference_args, unsent, failed>>

CropReturns(r, f) ==
  /\ at[Consumer(f)] = "crop"
  /\ left[Consumer(f)] = 0
  /\ at' = [at EXCEPT ![Consumer(f)] = "done"]
  /\ rt' = PushEvent(r, Done(f))
  /\ UNCHANGED <<left, camera, devices, camera_started, inference_args, unsent, failed>>
--------------------------------------------------------------------------
(* camera_callback *)

\* Mutant of Awaited: the previous send is ignored.
AwaitedInference(c) ==
  IF camera_started /\ onboard /\ ~rt.done[inference_done] THEN {inference_done} ELSE {}

\* The loops at the start of the callback: the event of the previous frame that it has
\* to wait for, first the inference's and then, without looking back, the streamer's.
Awaited(c) ==
  IF ~camera_started THEN {}
  ELSE IF onboard /\ at[c] # "await send" /\ ~rt.done[inference_done] THEN {inference_done}
  ELSE IF ~rt.done[streamer_tx_done] THEN {streamer_tx_done}
  ELSE {}

AwaitPrevious(r, f) ==
  /\ \E event \in Awaited(Consumer(f)) :
       /\ rt' = WaitEvent(r, event, Consumer(f))
       /\ at' = [at EXCEPT ![Consumer(f)] =
                   IF event = inference_done THEN "await inference" ELSE "await send"]
  /\ UNCHANGED <<camera_started, inference_args, unsent, failed>>

\* Both the inference and the send are started; the callback waits for the send.
StartBoth(r, f) ==
  LET inferring ==
        IF onboard
          THEN PushResume(InitEvent(InitEvent(r, frame_done), inference_done), Inference)
          ELSE r
      sending == PushResume(InitEvent(inferring, streamer_tx_done), Send(f))
  IN  /\ Awaited(Consumer(f)) = {}
      /\ camera_started' = TRUE
      /\ inference_args' = IF onboard THEN f ELSE inference_args
      /\ rt' = WaitEvent(sending, streamer_tx_done, Consumer(f))
      /\ at' = [at EXCEPT ![Consumer(f)] = "sent", ![Send(f)] = "send",
                          ![Inference] = IF onboard THEN "input" ELSE @]
      /\ failed' = (Runs(Send(f)) \/ (onboard /\ Runs(Inference)))
      /\ UNCHANGED unsent

CallbackBegins(r, f) ==
  /\ at[Consumer(f)] \in {"callback", "await inference", "await send"}
  /\ AwaitPrevious(r, f) \/ StartBoth(r, f)
  /\ UNCHANGED <<left, camera, devices>>

\* Mutant of CallbackReturns: the frame is given back while the network may read it.
ReturnsOnceSent(r, f) ==
  /\ at[Consumer(f)] = "sent"
  /\ at' = [at EXCEPT ![Consumer(f)] = "done"]
  /\ rt' = PushEvent(r, Done(f))
  /\ UNCHANGED <<left, camera, devices, camera_started, inference_args, unsent, failed>>

FrameSent(r, f) ==
  /\ at[Consumer(f)] = "sent" /\ onboard
  /\ at' = [at EXCEPT ![Consumer(f)] = "released"]
  /\ rt' = WaitEvent(r, frame_done, Consumer(f))
  /\ UNCHANGED <<left, camera, devices, camera_started, inference_args, unsent, failed>>

\* The callback returns: done_event of the frame
CallbackReturns(r, f) ==
  /\ at[Consumer(f)] = IF onboard THEN "released" ELSE "sent"
  /\ at' = [at EXCEPT ![Consumer(f)] = "done"]
  /\ rt' = PushEvent(r, Done(f))
  /\ UNCHANGED <<left, camera, devices, camera_started, inference_args, unsent, failed>>
--------------------------------------------------------------------------
(* streamer_send_task and inference_task *)

\* s without f, the first or the last of the two buffers it may hold
Without(s, f) ==
  IF s # << >> /\ Head(s) = f THEN Tail(s) ELSE SubSeq(s, 1, Len(s) - 1)

SendStarts(r, f) ==
  /\ at[Send(f)] = "send"
  /\ at' = [at EXCEPT ![Send(f)] = "sending"]
  /\ left' = [left EXCEPT ![Send(f)] = Packets - 1]
  /\ spi' = TRUE
  /\ rt' = WaitEvent(InitEvent(r, cpx_done), cpx_done, Send(f))
  /\ unsent' = Without(unsent, f)
  /\ UNCHANGED <<camera, dma, cluster, uart, camera_started, inference_args, failed>>

SendNext(r, f) ==
  /\ at[Send(f)] = "sending" /\ left[Send(f)] > 0
  /\ left' = [left EXCEPT ![Send(f)] = @ - 1]
  /\ spi' = TRUE
  /\ rt' = WaitEvent(InitEvent(r, cpx_done), cpx_done, Send(f))
  /\ UNCHANGED <<at, camera, dma, cluster, uart, camera_started, inference_args, unsent, failed>>

SendReturns(r, f) ==
  /\ at[Send(f)] = "sending" /\ left[Send(f)] = 0
  /\ at' = [at EXCEPT ![Send(f)] = "done"]
  /\ rt' = PushEvent(r, streamer_tx_done)
  /\ UNCHANGED <<left, camera, devices, camera_started, inference_args, unsent, failed>>

\* network_run_async on the buffer of inference_args
RunNetwork(r) ==
  /\ at[Inference] = "input"
  /\ at' = [at EXCEPT ![Inference] = "network"]
  /\ cluster' = [phase |-> "layer 0", input |-> inference_args]
  /\ rt' = WaitEvent(InitEvent(r, network_done), network_done, Inference)
  /\ UNCHANGED <<left, camera, dma, spi, uart, camera_started, inference_args, unsent, failed>>

\* uart_protocol_send_inference_async, with the same event
SendInference(r) ==
  /\ at[Inference] = "network"
  /\ at' = [at EXCEPT ![Inference] = "uart"]
  /\ uart' = TRUE
  /\ rt' = WaitEvent(InitEvent(r, network_done), network_done, Inference)
  /\ UNCHANGED <<left, camera, dma, cluster, spi, camera_started, inference_args, unsent, failed>>

\* Mutant of InferenceReturns: nobody is told.
InferenceReturnsSilently(r) ==
  /\ at[Inference] = "uart"
  /\ at' = [at EXCEPT ![Inference] = "done"]
  /\ rt' = r
  /\ UNCHANGED <<left, camera, devices, camera_started, inference_args, unsent, failed>>

InferenceReturns(r) ==
  /\ at[Inference] = "uart"
  /\ at' = [at EXCEPT ![Inference] = "done"]
  /\ rt' = PushEvent(r, inference_done)
  /\ UNCHANGED <<left, camera, devices, camera_started, inference_args, unsent, failed>>
--------------------------------------------------------------------------
(* The scheduler and the devices *)

Consume(r, f) ==
  CropTask(r, f) \/ CropReturns(r, f) \/ CallbackBegins(r, f) \/ FrameSent(r, f)
  \/ CallbackReturns(r, f)

SendFrame(r, f) == SendStarts(r, f) \/ SendNext(r, f) \/ SendReturns(r, f)

Infer(r) == RunNetwork(r) \/ SendInference(r) \/ InferenceReturns(r)

\* pi_yield runs the oldest task.
RunTask ==
  /\ rt.tasks # << >>
  /\ LET task == Head(rt.tasks)
         r == Popped(rt)
     IN  \/ \E e \in Event :
              /\ task = EventTask(e)
              /\ rt' = RunEvent(r, e)
              /\ UNCHANGED <<at, left, camera, devices, camera_started, inference_args, unsent, failed>>
         \/ task = Resume(Camera) /\ CameraTask(r)
         \/ \E f \in Buffer : task = Resume(Consumer(f)) /\ Consume(r, f)
         \/ \E f \in Buffer : task = Resume(Send(f)) /\ SendFrame(r, f)
         \/ task = Resume(Inference) /\ Infer(r)

\* The end of a frame: the capture's done_task
FrameCaptured ==
  /\ dma # NoBuffer
  /\ dma' = NoBuffer
  /\ rt' = PushEvent(rt, Done(dma))
  /\ UNCHANGED <<cluster, spi, uart>>

\* network_run_cluster pushes input_done after its first layer.
InputDone ==
  /\ cluster.phase = "layer 0"
  /\ cluster' = [phase |-> "layers", input |-> NoBuffer]
  /\ rt' = PushEvent(rt, frame_done)
  /\ UNCHANGED <<dma, spi, uart>>

NetworkDone ==
  /\ cluster.phase = "layers"
  /\ cluster' = Idle
  /\ rt' = PushEvent(rt, network_done)
  /\ UNCHANGED <<dma, spi, uart>>

PacketSent ==
  /\ spi
  /\ spi' = FALSE
  /\ rt' = PushEvent(rt, cpx_done)
  /\ UNCHANGED <<dma, cluster, uart>>

MessageSent ==
  /\ uart
  /\ uart' = FALSE
  /\ rt' = PushEvent(rt, network_done)
  /\ UNCHANGED <<dma, cluster, spi>>

Device ==
  /\ FrameCaptured \/ InputDone \/ NetworkDone \/ PacketSent \/ MessageSent
  /\ UNCHANGED <<at, left, camera, camera_started, inference_args, unsent, failed>>

Next ==
  /\ ~failed
  /\ RunTask \/ Device
  /\ UNCHANGED onboard

\* The main loop calls pi_yield for ever, and every device finishes what it started.
Fairness ==
  /\ WF_vars(RunTask /\ ~failed /\ UNCHANGED onboard)
  /\ \A step \in {"dma", "cluster", "spi", "uart"} :
       WF_vars(/\ ~failed /\ Device /\ UNCHANGED onboard
               /\ CASE step = "dma" -> dma' # dma
                    [] step = "cluster" -> cluster' # cluster
                    [] step = "spi" -> spi' # spi
                    [] OTHER -> uart' # uart)

Spec == Init /\ [][Next]_vars /\ Fairness
--------------------------------------------------------------------------
Cropping(f) == at[Consumer(f)] = "crop"
Sending(f) == at[Send(f)] = "sending"

\* Who may be reading or writing the pixels of a buffer
Users(f) == {u \in {"dma", "crop", "send", "network"} :
               \/ u = "dma" /\ dma = f
               \/ u = "crop" /\ Cropping(f)
               \/ u = "send" /\ at[Send(f)] # "done"
               \/ u = "network" /\ (cluster.input = f \/ (at[Inference] = "input" /\ inference_args = f))}

\* A buffer is written, by the camera or by the crop, only while nobody else uses it;
\* sending and inference may read it together (camera.c:139, main.c:107-132).
FrameExclusive ==
  \A f \in Buffer : Users(f) \subseteq {"send", "network"} \/ \E u \in Users(f) : Users(f) = {u}

\* "Only one send at a time must be inside this critical section, so static variables
\* can be used" (streamer.c:229); the same for camera_crop_task, no context is started
\* while it is running, and the UART's one tx_message is not written while it is sent.
StaticsNotShared ==
  /\ ~failed
  /\ \A f, g \in Buffer : (Sending(f) /\ Sending(g)) \/ (Cropping(f) /\ Cropping(g)) => f = g
  /\ uart => at[Inference] = "uart"

\* Each captured frame is handed to the link once, and before its buffer is captured
\* into again.  Without inference they keep their order; with it the callback of a frame
\* can overtake the one before, which has been waiting for inference_done but is resumed
\* only behind it (main.c:99), and no other, because the camera waits for that buffer.
EachSentOnce ==
  [][\A f \in Buffer :
       /\ ~Sending(f) /\ Sending(f)' =>
            /\ \E i \in DOMAIN unsent : unsent[i] = f
            /\ ~onboard => f = Head(unsent)
       /\ dma # f /\ dma' = f => \A i \in DOMAIN unsent : unsent[i] # f]_vars

\* Both buffers are filled and sent again and again: the callbacks never end up waiting
\* for each other, or for an event whose waiters were dropped by co_event_init.
FramesKeepComing == \A f \in Buffer : []<>(dma = f) /\ []<>Sending(f)
==========================================================================
