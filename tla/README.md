# Verification of the AI-deck GAP8 code

TLA+ models of the concurrent and protocol parts of this repository, checked with TLC on
small instances and, where a theorem is stated, proved with TLAPS for every value of the
constants. Paths below are relative to the repository; `lib/` in the nanocockpit sections
stands for `nanocockpit/lib/`.

## The system

The AI-deck carries a GAP8 (RISC-V, this repository) and an ESP32 ("NINA", the WiFi
module), linked by SPI with GAP8 as master and by two ready-to-transmit (RTT) lines, one
in each direction. Packets on that link follow CPX, which routes them to the ESP32, the
STM32 of the drone, or a host over WiFi. The repository holds two independent stacks:

* the **legacy** stack on FreeRTOS: `lib/cpx/src/com.c` (the link) and `lib/cpx/src/cpx.c`
  (routing), used by `examples/other/wifi-img-streamer` and the AI examples;
* **NanoCockpit**, a cooperative framework on the PMSIS scheduler: coroutines, event
  groups, queues, a CPX driver, a frame streamer, camera, UART; with example applications
  and a Python client.

### Inventory

| Component | State | Operations | Interaction | What is hard | Correct when |
|---|---|---|---|---|---|
| `lib/queue.c` `queue_t` | seven indices and counters, a buffer | acquire, commit, discard, peek, consume, release | producer and consumer hold slots in place between two calls | three runs of slots on one ring; overwriting | no slot is shared, values come out in order, no assertion fails |
| `lib/queue.c` async | events for free and committed slots | push/pop tasks | coroutines wait on events | re-initialised events, several waiters | every call returns |
| `lib/coroutine.h`, `lib/event_group.h` | run queue of `pi_task_t`, waiters per event, bits and one waiter per group | start, resume, wait, set, clear | scheduler, interrupts, every other component | exactly one resume per suspension | nobody is resumed twice or never |
| `lib/cpx/cpx_spi.c`, `cpx.c` | posted requests, event bits, receive buffer | send, receive, transfer phases, dispatch | NINA's RTT line, SPI driver, callbacks | coalescing, re-arming in mid-transfer, contended sends | each send carried exactly once, each packet dispatched, no transfer NINA did not prepare |
| `lib/streamer.c` | send request, remaining length, the armed receive buffer | send frame, receive buffer, cancel | CPX, camera, applications | lengths at boundaries, lengths from the wire, static variables | whole frames; buffers completed once and whole; no overrun |
| `lib/camera.c`, `camera_callback` | two frames with an event and a context each | capture, crop, consume | DMA, streamer, network | buffers reused, static variables, re-initialised events | a frame in use is not overwritten, none is skipped, the stream never stops |
| `lib/uart_protocol.c` | 128 bytes, how much is read and discarded | receive, send | STM32 | resynchronisation in one small buffer | a receiver in step loses no message, one out of step recovers |
| `pulp-frontnet` network (generated) | two-ended allocator, tile indexes of each core, L1 regions | run, fork a layer, load, compute, store | cluster DMA, team barriers, the application's frame | one core talks to the DMA for eight; hundreds of generated numbers | cores compute on their tile, copies and shares divide the tensors exactly |
| `lib/cpx/src/com.c` (FreeRTOS) | two queues, event bits, line, transfer buffers | `com_task`, `com_read`, `com_write` | ISR, ESP32 | lost wake-ups, stale bits and buffers, blocking on both queues | as above, and no circular wait |
| `lib/cpx/src/cpx.c` (FreeRTOS) | static packed packets, per-function queues, semaphore | send, print, receive | tasks | shared static buffer | a sender sends its own packet |
| `wifi-img-streamer/camera_pipeline.c` | buffer indices, flags, wrapping counters, done bit | begin/end frame, disconnect, `capture_done` | camera task, DMA, event task | unmasked sharing of statics | the frame in hand is not a DMA target; no hang, no early stop |
| Python client (`nanocockpit/client`) | reassembly state per link, receive threads, a condition variable, a queue | connect, receive, merge, assemble | sockets, the deck | loss, reordering, partial reads, reconnection | packets whole, buffers intact, the stream recovers |
| Image processing, AI examples, tracing, sensor registers | - | - | - | numeric code or I/O, no protocol | not modelled |

## Modules

| Module | Models | Notes |
|---|---|---|
| `QueueFifo` | what `queue_t` promises | bounded FIFO with elements reserved and taken in place |
| `Queue` | `queue_t` of `lib/queue.c` | one action per call; implements `QueueFifo` |
| `QueueProofs` | | invariants of `Queue` and `AsyncQueue`, that `Queue` implements `QueueFifo` and `AsyncQueue` implements `Queue`, proved |
| `AsyncQueue` | `queue_async_t` and two client coroutines | composes `Queue` and `Coroutine` |
| `CameraPipeline` | `camera_pipeline.c`, the loop of `camera_task`, `capture_done` | one action per statement that touches shared state |
| `CameraPipelineProofs` | | its safety properties, proved |
| `ComLink` | `com_task` and its queues, event group and lines | the link alone; used by `LegacyCpx` |
| `LegacyCpx`, `MCLegacyCpx` | `cpx.c` on FreeRTOS with `wifi_rx_task` and `camera_task` | composes `ComLink` with the tasks above it |
| `LegacyCpxProofs` | | the link's safety in the whole of `LegacyCpx`, proved |
| `Coroutine` | `coroutine.h` and `event_group.h` as functions on the run-time's state | operators only |
| `SpiLengths` | the length arithmetic of a NanoCockpit SPI transfer | operators only |
| `CpxSpi`, `MCCpxSpi` | `cpx_spi_task`, `cpx_send_task`, `cpx_receive_task`, NINA | composes `SpiLengths` and `Coroutine` |
| `CpxSpiProofs` | | its safety properties, proved |
| `SpiTransfer` | `streamer_send_task`'s packets and the phases of each transfer | the abstract view of `Streamer` |
| `Streamer` | both directions of `streamer.c` and `streamer_rx_task` | extends `SpiTransfer` with the receiving side, and implements it |
| `StreamerProofs` | | safety of `SpiTransfer`, that refinement, and the receiver's safety, proved |
| `FrameStream` | `camera.c`, `camera_callback` and `inference_task` of the applications | on `Coroutine`; SPI, UART, cluster and camera as devices |
| `FrameStreamProofs` | | its safety properties, proved |
| `UartProtocol`, `MCUartProtocol` | `uart_protocol_task` on a stream of bytes | |
| `MCQueues` | `Queue`, or `AsyncQueue` on it | an instance: both kinds of clients in one run |
| `MCReceivers` | `CameraPipeline`, `UartProtocol` or `Client` | an instance: three receivers in one run |
| `FrontnetLayers` | the numbers of the nine generated layers and their tiling arithmetic | operators only |
| `FrontnetNetwork` | `network_run_cluster`, the layers' tile loops, `dory_dma.c`, the kernels' sharing of the work | on `FrontnetLayers` |
| `FrontnetNetworkProofs` | | its placement of buffers, its barriers and its tiling, proved |
| `Client` | `tcp.py`, `udp.py`, `multi.py`, `StreamerClient.receive` | three threads and a network with faults |
| `ReceiverProofs` | | the safety properties of `UartProtocol` and of `Client`, proved |

`PROJECT.json` maps each definition to the lines it stands for. Definitions commented as
mutants are plausible bugs of the definition below them; they are not part of any
specification, and show that each property notices a bug.

### Queue

The variables are the fields of `queue_t`, the buffer's contents, and two ghosts: `held`
and `inuse`, the slots the producer and the consumer were handed. The clients return
elements in the order that the assertions of `queue.c` demand; a failed assertion
(`pmsis_exit`) sets `failed` and ends the behaviour. The producer passes any of the
`overwrite` flags in `OverwriteFlags`, at any time. `NoAssertionFailure` is what `queue.h`
promises to such clients, and false: an overwriting push into a full queue of which the
consumer holds an element releases out of order (`queue.c:104`, run `queue_overwrite`).
`FailsOnlyOverwriting` says that nothing else fails.

### AsyncQueue

The module takes `Queue`'s actions and adds the two events and the tasks that wait on
them. The clients are coroutines: a turn is any sequence of calls, in one action each, and
ends with the `CO_WAIT` on a call's `done_task` or, for a client that polls, with a
`CO_YIELD`; in between nobody else runs. `style` says how each client calls; `Mixing` lets
a client change it. A client never waits while it holds so many slots that the other one
must be stuck (`ClientsAssumption`). A push of a task that is still queued, as three
releases in a row cause, is taken to run its callback twice, which is harmless; what the
SDK does with it is not visible here.

### CameraPipeline

`camera_task` (FreeRTOS) and `capture_done` (called from the SDK's event task) share
static variables without a lock. Both have a program counter with one value per statement
that reads or writes shared state, so that all their interleavings are explored. The DMA
fills the queued buffers in order while the camera is started. `client` is
`wifi_client_connected`, which may change at any time. The counters wrap at `CounterSize`,
5 in the run instead of 2^32: more than the three buffers, which is all that matters to a
difference modulo the size, and small enough that the run wraps them many times.
`encode_jpeg`, the transfer and the profiling output change no state of the pipeline.

### ComLink and LegacyCpx

`com_task` is one action per blocking point or shared access. The ESP32 raises its line when
it has prepared one transfer (because GAP8's line is high, because it has a packet, or for
no reason) and lowers it after the transfer; the code shows no more of it. Two senders share
`txpPacked`: `camera_task` with its frames and its profiling lines, and `wifi_rx_task` with
the line it prints for a command. The ESP32 sends any number of control packets. All queues
have length one in the instances (TXQ_SIZE 80, RXQ_SIZE 5 and QUEUE_LENGTH 2 in the code),
so that the control packets on their way can fill every place: then `com_task` waits for
room in `rxq`, `cpx_rx_task` for room in the queue of its function and `wifi_rx_task` for
room in `txq` (`CircularWait`; longer queues take more packets). `SendReturns`, what `cpx.h`
says of a send, is false for that reason (run `legacy_circular`); `BlocksOnlyInCircle` says
that only that and the missed edge keep a send from returning. The length of an incoming
packet is at most the MTU (`IncomingAssumption`): `com_task` does not test the length that
the ESP32 wrote (`com.c:236-267`), so that the length of a transfer, and `CarriesPackets`,
rest on it. The assertion of the version (`lib/cpx/src/cpx.c:59`) is left out.

The ESP32 can raise its line at any time, also after `com_task` has read it at startup
(`com.c:163`) and before `com_init` has attached the callback (`com.c:316`). Such an edge
is lost, and if GAP8 goes on to wait for it the link stands still: `missed` records it, and
`NinaServed`, `BlocksOnlyInCircle` and `SendReturns` except it, each saying so. An ESP32
that boots later than that window of a few instructions avoids it; the code does not. That
`com_task` may read the pin of a device that `com_init` has not opened yet is not modelled.

### Coroutine, SpiLengths and CpxSpi

Coroutines are cooperative: an action runs the scheduler's oldest task to the next
suspension point. `Coroutine` keeps the run-time's state in a record: the FIFO of pushed
tasks, which events are done, who waits on each, the event bits and their waiter. When a
`pi_task_t` counts as done is not visible in this repository, so it is a constant:
`DoneAtPush`. `CpxSpi` adds `cpx_spi_task` (its steps are numbered as in the source), the
sending and receiving coroutines and NINA. A transfer has three phases: a header of four
bytes, as many bytes as the request's head, and the rest of the longer of the two packets
rounded up to words (`SpiLengths`). The requests are re-used by their senders as soon as
they complete, as the streamer does. `SenderAssumption` only says that the senders are
other tasks than the three of the module.

With three senders one can be overtaken for ever (`SendsComplete`, what `cpx.c:128` says of
the waiting on `send_done`; run `cpx_overtaken`): a sender whose task is in the scheduler's
list already when `send_done` is run goes before those that are woken by it. The FIXME at
`cpx.c:127` fears a deadlock; `StarvedOnlyByOvertaking` says that there is none: a send is
kept waiting for ever only by others that are started again and again. The assertion of the
version (`cpx.c:194-196`) is left out.

### SpiTransfer and Streamer

`SpiTransfer` runs `streamer_send_task`'s cutting of a frame into packets with the
transfers it causes and the transfers NINA asks for in between; the received length is any
of `ReceivedLengths`, above the MTU too. `Streamer` adds what the received packets do:
`streamer_rx_task` arms a buffer, may cancel it, and uses it when it is complete;
`streamer_cpx_callback` takes BEGIN, DATA and unknown packets in any order, with the length
that NINA wrote. Segments are not compared byte by byte: each one either follows what the
buffer holds or, after a loss, does not, and a checksum tells the two apart. Lengths are
unsigned with modulus `SizeModulus`, so that a packet shorter than its head gives the huge
length it gives in C.

The library does not bound the storage of a buffer by the MTU. `StorageAssumption` does,
as the applications' `offboard_buffer_t` fits in one packet: with a larger storage and a
length above the MTU from NINA, the copy would read behind the packet. A BEGIN that
announces too large a buffer is ignored, and leaves an older buffer in progress.

### FrameStream

The two frames of `camera_t` go round: `camera_task` captures into one, has it cropped row
by row, and starts `camera_callback` on it, then turns to the other; the callback waits for
the previous inference and the previous send, starts both, and returns when the streamer and
the network's first layer no longer read the frame. `streamer_rx_task`'s answer over the
UART when inference is off-board (`main.c:187-192`) is not modelled: of `tx_message` only
the on-board use is. The network on the cluster, the SPI link, the UART and the camera's DMA
are devices that push an event when they are done; `CpxSpi` and `FrontnetNetwork` say what
they do meanwhile. With on-board inference the callback of one frame can overtake the one
before it (`EachSentOnce` says exactly how far); `streamer_send_task`'s comment that its
static variables are safe is `StaticsNotShared`.

### UartProtocol

A byte of the stream is what the search sees of it, and which message and place it comes
from. Reception starts anywhere in a message, bytes can be lost, and payloads can begin
with another kind's header (`Decoy`). The checksum is taken to match only a message as it
was sent. `StaysInStep` and `ReadsWithinBuffer` hold for all of that: a receiver whose
buffer begins with the message that is being sent stays in step as long as no byte is lost,
and gives up nothing but messages it has delivered. Resynchronisation needs a time without
decoys and, again and again, a message that fits in the buffer behind any other (`Fits`):
behind a TOF message that was missed the buffer has no room for another (the FIXME at
`uart_protocol.c:101`), so a stream of TOF messages alone can stay out of step for ever.
What is written behind the buffer (run `uart_overrun`) is taken to fall on `done_event`, the
next member, which every use initialises anew: reception goes on, so that
`UartResynchronises` covers that case too. `UartAssumption` says of the sizes what the
code's are: each message fits in the buffer, and the buffer is a multiple of one read (128
and 4, `uart_protocol.h:36`), which the reads depend on, see *Experiments*. The lines after
the callback (`uart_protocol.c:132`) never run, which is part of `ReadsWithinBuffer`.

### FrontnetLayers and FrontnetNetwork

Each `layerN_*.c` is an instance of one template; its numbers are a record, taken from the
code. `network_run_cluster` allocates input, output and weights from the two ends of the L2
buffer, changing ends after each layer. The team of cores goes through the tiles; core 0
pushes the copies to the DMA one by one and waits, everyone meets at the barriers, the
kernels compute each core's share, core 0 stores the result. Core numbers are real: shares
are computed for all eight cores, while the interleaving is explored for `Cores` (core 0
and three of the seven others, which all run the same steps). `TilingExact` compares each
copy of a tile of the input (x) and of the output (y) with the tile it is for, byte runs
and strides included, the input tile with the windows of the output tile, the shares with
the tile, and the tiles that were stored with the whole output. Of the copies of weights, k,
lambda and bias it is modelled when they are made and waited for, not their addresses and
lengths (as in `layer6_BNReluConvolution.c:257-274`). A kernel ends with a barrier of its
own (`pulp_nn_conv_u8_u8_i8.c:270`, `pulp_nn_maxpool_u8.c:145`,
`pulp_nn_linear_u8_i32_i8.c:126`), directly followed by the layer's: the two are one in the
model. The shares of the pooling's first pass, which works in place on the input tile
(`pulp_nn_maxpool_u8.c:52-58`), are not compared; `PoolShare` is the second pass.

Seen on the way: `dmalloc` tests with `<`, so one byte of the buffer is never used; the
`branch_*` and `L3_*` tables of this network are all zero, and the code for them is left
out; placing the frame at the start of the L2 buffer is handled, and checked, but no
application does it; the result of `pmsis_l1_malloc` is not tested; the case marked
`// wrong!` (`dory_dma.c:179`) is right for all copies of this network.

### Client

Three threads: `tcp_receive` connects, cuts CPX packets out of the stream and replaces the
UDP socket at each new connection; `udp_receive` waits for datagrams under the condition
variable; the main thread assembles buffers. The network loses, duplicates and reorders
datagrams and resets the connection, up to `MaxFaults` and `MaxConnections`. Header and
payload of a packet over TCP are two units each, and packets follow each other on the wire,
so that a chunk can end within a header, within a payload, or behind the start of the next
packet. What
closing a socket does to a thread that reads from it is left open, as it differs between
systems.

Seen on the way: `disconnect` takes no lock (`udp.py:86`), so `udp_receive` can find `None`
between its test and its use and die of an exception; on Linux its `recv` on the closed
socket does not return, and it keeps the lock that `connect` needs, so that no packet comes
after a reconnection. `BuffersReturn` excepts these
(`UdpLost`). A chunk of TCP moves the
receiver by one state only, so that a packet can wait in the buffer for the next chunk. A
length over the maximum ends the generator, although the message says "resetting". Images
are sent without a checksum (`streamer.c:229`), so for them only an undisturbed network
gives intact buffers, which is what `BuffersIntact` says. A checksum of zero is sent as all
ones (`streamer.c:174`) and the client does not do the same.

## Runs

`tlc -config <cfg> <module>`, each in less than three minutes with two workers.

| Run | Config | Bounds | Result |
|---|---|---|---|
| queues | `MCQueues` | 3 slots, 2 values, each client of the asynchronous queue holds at most 2 and waits or polls | hold (33,088 states) |
| queue_overwrite | `Queue_overwrite` | 3 slots, overwriting at any time | an assertion fails |
| receivers | `MCReceivers` | camera: 3 buffers, counters modulo 5, both modes; UART: lengths scaled down by four, 3 kinds, one as decoy, 1 loss; client: 2 buffers of 2 segments, one with a checksum, sequence numbers modulo 4, 2 connections, 2 TCP packets on each (1 in all beside the datagrams), 1 fault, queue of 1 | hold (464,721 states) |
| legacy_cpx | `LegacyCpx` | queues of 1, packets of 3, 7, 1021 and 1022 bytes | hold (349,085 states) |
| legacy_shared | `LegacyCpx_shared` | the same | a task queues another task's packet |
| legacy_circular | `LegacyCpx_circular` | control packets only | the tasks wait for each other |
| cpx_spi | `CpxSpi` | 3 senders, 2 packets, of which one has a callback | hold (301,371 states) |
| cpx_overtaken | `CpxSpi_overtaken` | 3 senders, 1 packet | one sender is overtaken for ever |
| streamer | `Streamer` | MTU 20, heads of 12 and 4, frames of 1 to 44 bytes, received lengths on both sides of heads, words and MTU | hold (280,394 states) |
| frame_stream | `FrameStream` | 2 buffers (as in the code), 2 rows, 2 packets, with and without inference | hold (11,918 states) |
| uart_overrun | `UartProtocol_overrun` | the real lengths, no loss, no decoy | writes pass the buffer |
| network | `FrontnetNetwork` | the real sizes, 4 cores interleaved, both placements of the frame | hold (14,796 states) |

Why the bounds suffice: three slots let each of the three runs of the ring be empty, one or
more long, and wrap; three senders contend, of which two can take turns past the third; the
lengths of packets lie on both sides of each word and of the MTU; frames of 7 to 43 bytes
are one packet, exactly full, one byte more, padded, and three packets. The UART's lengths,
scaled down, keep the relations of the real ones: a TOF message does not fit behind a missed
one, the others do. Two frames are all the camera has. One fault of the network, at any
datagram, breaks any of the two buffers in any place, and two connections give one
replacement of the UDP socket at any moment; sequence numbers modulo 4 wrap within two
buffers. The network has the sizes of the code.

`CHECK_DEADLOCK FALSE` is said where the system may stop: the client of `queue_t` that trips
the assertion ends the program (`MCQueues`, `Queue_overwrite`), and the tasks of `LegacyCpx`
stop behind an edge that was missed at startup or in the circular wait. `MCReceivers` and
`MCQueues` are not compositions: `via`, chosen at the start, says which of their systems a
behaviour is about, and the others stay where they begin. In `MCReceivers` the deck may fall
silent on TCP, which is a stuttering step of its own.

The properties, by module:

* `Queue`: `NoAssertionFailure` (false), `FailsOnlyOverwriting`, `NoSlotShared`,
  `ImplementsFifo` (refinement of `QueueFifo`). `AsyncQueue`, in `MCQueues`:
  `AsyncNeverAsserts` (of `Queue` and of the waiting tasks), `AsyncCallsReturn`.
* `CameraPipeline`: `NoTornFrame` (the frame in hand is no DMA target, each buffer is in one
  place), `TwoRemainQueued` (the promise of `docs/examples/wifi-streamer.md`),
  `CaptureAccounting` (the wrapping counters and the done bit tell the truth),
  `StopsWhenDrained`; `FramesKeepComing` (`CameraKeepsGoing` in the run).
* `ComLink`: `TransfersOnlyWhenReady`, `CarriesPackets` (never resent, long enough for both).
  `LegacyCpx`: `NinaServed`, `BlocksOnlyInCircle`, `SendReturns` (false), `SendsOwnPacket`
  (false).
* `CpxSpi`: `RequestsTracked` (assertions, bits and requests agree, no task queued twice),
  `TransfersOnlyWhenReady`, `ReceiveBufferStable`, `SendsExactlyOnce`;
  `StarvedOnlyByOvertaking`, `SendsComplete` (false) and `PacketsDispatched`.
* `SpiTransfer`: `TransferExact`, `WholeFrame`. `Streamer`: `CopiesWithinBounds`,
  `CompletesOnceAndWhole`, and the action property `CompletedStable`.
* `FrameStream`: `FrameExclusive`, `StaticsNotShared`, the action property `EachSentOnce`;
  `FramesKeepComing`.
* `UartProtocol`: `ReadsWithinBuffer`, `StaysWithinBuffer` (false), the action property
  `StaysInStep`; `Resynchronises` (`UartResynchronises` in the run).
* `Client`: `BuffersIntact`, `PacketsWhole`; `BuffersReturn` (`ClientBuffersReturn`).
* `FrontnetNetwork`: `BuffersApart`, `ComputesOnItsTile`, `InputHeld`, `TilingExact`;
  `InferenceCompletes`.

### Fairness

* `CameraPipeline`: weak fairness of `camera_task` and of the event task (FreeRTOS runs
  ready tasks) and of the DMA (a started sensor delivers frames). None for the client.
* `LegacyCpx`: weak fairness of `com_task`, `cpx_rx_task`, `wifi_rx_task`'s receive, of the
  end of `com_init`, of the ESP32's lowering its line, and of its raising it while GAP8's
  line is high, which is the ESP32's part of the protocol. Strong fairness for each
  sender: FreeRTOS wakes the task that has waited longest on a queue or semaphore among
  equal priorities, so a sender that can go on again and again does.
* `CpxSpi`: weak fairness of the scheduler's loop (`pi_yield` in each application's main
  loop), the SPI driver, the callbacks' return and NINA, as above. The order of the run
  queue does the rest.
* `AsyncQueue`: weak fairness of the whole, which is the scheduler's loop and the clients'
  turns; strong fairness for what keeps a client from starving the other by choice: it
  commits or releases in the end, and a client that polls takes a slot when there is one.
* `FrameStream`: weak fairness of the scheduler's loop and of each device: what was started
  is finished.
* `UartProtocol`: weak fairness of the whole: the STM32 keeps sending, the task is run. That
  it sends messages that fit again and again is an assumption of the property itself.
* `Client`: weak fairness of the threads, of the deck's sending and of datagrams that
  nobody reads being dropped; strong fairness of taking the condition variable, which
  others release between two waits. None for faults and resets, which are bounded.
* `FrontnetNetwork`: weak fairness of the whole: cores, DMA and barriers go on.
* `Queue`, `SpiTransfer` and `Streamer` state safety only.

## Findings

1. `cpxSendPacketBlocking` can send another task's packet (`lib/cpx/src/cpx.c:87`, run
   `legacy_shared`).
2. `uart_protocol_task` writes a message's checksum and time of reception behind the end of
   its buffer, over `done_event`, when the message was found more than 48 bytes behind the
   start (`uart_protocol.c:114`, run `uart_overrun`). No byte need be lost: reception that
   starts inside a TOF message suffices.
3. `queue_push_acquire` with `overwrite` ends the program when the queue is full and the
   consumer holds an element: the release of the dropped one is out of order
   (`queue.c:104`, 187; `queue.h:59` promises that the oldest is discarded; run
   `queue_overwrite`).
4. A send can block for ever: with control packets in every place on the way in, `com_task`
   (`com.c:273`), `cpx_rx_task` and `wifi_rx_task`, which prints, wait for each other (run
   `legacy_circular`).
5. `cpx_send_task`'s waiting does not keep the order of the senders (`lib/cpx/cpx.c:128-130`
   says it does): one of three can be overtaken for ever (run `cpx_overtaken`).

Not a run of its own, but an exception that `NinaServed` names: an edge of the ESP32's line
between `com.c:163` and `com.c:316` is lost.

### Experiments

Instances that were checked once and that no run keeps; each is the config named with the
change given.

* `MCQueues` with `Mixing = TRUE`: `queue_async_pop_consume` and
  `queue_async_push_acquire` re-initialise an event whose callback may still be on its way;
  the next wait ends too early and an assertion fails (`queue.c:302`, `queue.c:251`). It
  needs `DoneAtPush = FALSE`.
* `CpxSpi` with two senders: every send completes. With two senders and `DoneAtPush`, a send
  can wait for ever, because `co_event_init` empties the list of waiters while the callback
  that would resume them is still queued. With one sender, as in the examples, neither
  that nor overtaking happens.
* `CpxSpi` with `DoneAtPush = TRUE`, two or three senders: `RequestsTracked`,
  `TransfersOnlyWhenReady` and `ReceiveBufferStable` hold (and are proved, for any number
  of senders), `SendsExactlyOnce` does not: the callback of an earlier push of `send_done`
  can run after the next sender has re-initialised it (`lib/cpx/cpx.c:138`), which then
  returns before its packet was sent.
* `UartProtocol` with a buffer of 31 bytes and reads of 2: the test at `uart_protocol.c:78`
  leaves room for one read behind what is discarded, but the read goes behind what is
  available, and passes the end. With a buffer that is a multiple of the read the two
  cannot differ there.
* `FrameStream` with `DoneAtPush = TRUE`: the same emptied list (`coroutine.h:159`) stops
  the frames. So the applications depend on `pi_task_is_done` turning true no earlier than
  the callback runs.

## Proofs

`tlapm` on the eight modules named `*Proofs`; nothing is assumed but the named assumptions
on constants and what each paragraph says.

* **Queue**, for every capacity, set of values and overwrite flags. `NoSlotShared` and
  `FailsOnlyOverwriting` are not inductive: an assertion compares one index with the pointer
  a client returns, and nothing in them says how the indices follow each other. `RingInv`
  does: the three runs are adjacent (`RunsAdjacent`), fit (`RunsFit`), and the clients hold
  exactly the first and the last of them, in order (`ClientsAgree`); an assertion has failed
  only in a full queue with an element in use. `Ahead` replaces the remainder by a
  conditional subtraction, which keeps the arithmetic linear; lemmas relate the two
  (`ModIsAhead`) and say that walks along the ring add up (`AheadAdds`) and that walks of
  different lengths below the capacity end apart (`AheadInjective`). `RingInvStep` has one
  step per operation. Clients that never pass `overwrite` therefore trip no assertion
  (`NeverFails`, which assumes just that).
  Theorems: `RingInvariant`, `TypeCorrect`, `FailsOnlyByOverwriting`, `NeverFails`,
  `SlotsNotShared`.
* **Queue implements QueueFifo**, for the same constants. The abstract state is the
  length of `held`, the contents of the committed slots in ring order and of the slots in
  use. `FifoStep` maps each call to the FIFO's step or to a stutter; the lemmas before it
  say what moving `start`, writing the slot at `end` and giving back a slot do to the two
  sequences. That a commit leaves the others' values alone is where `RingInv` is needed.
  Theorem: `ImplementsBoundedFifo`.
* **AsyncQueue**, for every capacity and either value of `DoneAtPush`, when no client both
  waits and polls (`~Mixing`; an assertion fails otherwise, see *Experiments*). `RingInv`
  carries over, since each call on the ring is one of `Queue`. `NoAssertionFailure` is about
  the task that resumes a client, and says nothing of what else is queued. `Side`, stated
  once and used for both ends of the queue, does: the client is in one place, its turn, a
  queued resume, or the wait for its call (`Single`); a `queue_free` or `queue_ready` that
  is still queued when nothing is left to get is an old one, with the client's own resume
  behind it (`NotTooEarly`); and once something is left, whoever waits for it is woken
  (`NotTooLate`). The lemmas say what the steps of a side do to it, and what those of the
  other side do (`Bystander` and the lemmas named `Other...`).
  Theorems: `AsyncInvariant`, `AsyncNeverFails`, `WakeUpsNotLost` (`NoLostWakeUp`, the
  safety half of the calls' returning).
* **AsyncQueue implements Queue**, under the same assumption: each step of the two
  coroutines and of the scheduler is one call of `Queue` or leaves the ring alone
  (`AsyncStepOnRing`). The coroutines' queue is therefore the bounded FIFO too, and shares
  no slot. Theorems: `AsyncIsQueue`, `AsyncKeepsPromises`.
* **SpiTransfer**, for every MTU that is a multiple of four, all heads that leave room for
  a word, all frame sizes and all received lengths. The invariant says that the request's
  lengths are whole words within the MTU (`RequestInv`), that the packet being sent ends
  less than a word behind the frame (`FrameInv`), and what each phase has clocked, written
  and released so far (`TransferInv`). The lemmas `RoundingUp`, `RoundingDown`,
  `TailBytesBounds` and `PacketLengthBounds` carry the arithmetic.
  Theorems: `TransferInvariant`, `TypeCorrect`, `LengthsAccepted`, `BothPacketsCovered`,
  `ReceiveBufferBounded`, `ChipSelectReleasedOnce`, `TransfersExact`, `FrameCarriedWhole`.
* **Streamer**, for the same constants and every storage, announced size and received
  length that `StorageAssumption` admits. Each step of the two directions is a step of
  `SpiTransfer` or leaves its variables alone, so the theorems above carry over; on top of
  them `StreamerInv` relates `armed`, the pushes of `done_task` and what
  `streamer_rx_task` does, and bounds the buffer's two sizes. The heart is the length of a
  segment: a remainder modulo `SizeModulus` that is either the true difference or larger
  than any storage.
  Theorems: `ImplementsSpiTransfer`, `StreamerTransfersExact`, `StreamerFramesWhole`,
  `CopiesStayWithinBounds`, `BuffersCompleteOnceAndWhole`, and the action property
  `CompletedUntouched` (`CompletedStable`).
* **LegacyCpx**, for all senders, packets of up to one MTU and lengths of the queues, and
  wherever the edge at startup falls. `TransfersOnlyWhenReady` does not say what becomes of an
  edge of NINA's line: `EdgesCounted` says that each is in one place, the event group or
  the hands of `com_task`, and stands for one transfer that NINA has prepared.
  `CarriesPackets` needs `BuffersKnown`, what `com_task` has in its two buffers and in
  `sizeLeft` phase by phase, and `PacketsInHand`, which types the packets of the tasks
  above the link.
  Theorems: `LinkInvariant`, `TypeCorrect`, `ClocksOnlyPrepared`, `TransfersCarryPackets`.
* **CameraPipeline**, in both modes, for every `CounterSize` above three, however the client
  comes and goes. `PipelineInv` follows the two threads through their statements: what the
  flags say at each (`FlagsFollow`), where a hand-over is (`HandOverFollows`), when the
  camera is off (`CameraOff`), how many captures are under way (`CapturesCounted`, with
  `Captures` as the number for each statement), that the counters' difference modulo their
  size is that number (`CountersAgree`), and that no buffer is in two places
  (`EachBufferOnce`, `BuffersApart`). `NoTornFrame` alone says nothing of the buffer that
  is about to be queued again, which `BuffersApart` does for each statement.
  Theorems: `PipelineInvariant`, `TypeCorrect`, `FramesWhole`, `PipelineStaysFull`,
  `AccountingExact`, and the action property `StoppedWhenDrained`.
* **UartProtocol**, for all kinds and lengths of messages that `UartAssumption` admits, any
  number of losses and any decoys. `UartInv` says that the searching reads come in whole
  reads and never get ahead of the search by more than a header and a read
  (`SearchKnown`), and that once a header is found what is read is the message it
  announces, which fits (`FoundKnown`). `NextReadFits` is where the multiple is needed.
  `StaysInStep` follows step by step: the bytes of the message that is being sent are the
  buffer, so the search stands on its first byte, whose header is that of its own kind, and
  the rest that is read ends with it.
  Theorems: `UartInvariant`, `ReadsFit`, and the action property `InStepKept`
  (`StaysInStep`). `StaysWithinBuffer` is false of the code (run `uart_overrun`).
* **CpxSpi**, for all senders, packets and lengths and either value of `DoneAtPush`. The
  run-time keeps sequences; no task is in one of them twice (`Known`), so the proofs see
  them as the sets `Queue` and `Waiters`, and one lemma per function of `Coroutine` says
  what it does to the two (`KnownPushed`, `KnownWait`, `KnownRun`, `KnownSet` and so on).
  On top of it `CpxInv` says that each task is queued or waits for the one thing that makes
  it go on (`SpiPlaced`, `ReceiverPlaced`, `SendersPlaced`); that the bits match the
  requests, and that a transfer works on requests that are still posted (`RequestsHeld`);
  that each edge of NINA's line is in one place, a queued callback, a bit or a transfer,
  and stands for one transfer she prepared (`EdgesCounted`); and that a packet is carried
  by the last phase of the one transfer that takes its request (`CarriedCounted`). When a
  task is done as soon as it is pushed, a coroutine goes on while the callback that did it
  is still queued, and no event tells that the callback has run: what keeps a callback from
  being queued twice, or from finishing a later wait, is the scheduler's order.
  `EventsAhead` says that the callback of `spi_done`, `send_done` or `receive_done` is
  queued ahead of the coroutine that could set the event again. Nothing orders the callback
  of `send_done` and the other senders, which is why `TypeCorrect` (a packet is carried
  once) and `SentOnce` assume `~DoneAtPush`: without it they are false, see *Experiments*.
  Theorems: `CpxInvariant`, `TypeCorrect`, `RequestsStayTracked`, `ClocksOnlyPrepared`,
  `BufferStable`, and the action property `SentOnce`.
* **FrontnetNetwork**, for every set of cores that contains core 0, both placements of the
  frame, and the numbers of the nine layers (`LayerFacts`, `SizeFacts`). `EndsSwap` says
  what lies at each end of the L2 buffer: the input and then the weights at the one that
  `dir` names, the output at the other. `dfree` does not know which block it
  frees; that the two ends change places with each layer is what makes it the right
  one (`FreeLayerSwaps`). For the cores, `ComputesOnItsTile` looks at one moment of the
  loop, while its truth is prepared a barrier or two before it: `Together` says that all
  cores are between the same two barriers, `OneTile` that their own indexes
  agree there, `CopiesInOrder` which copies core 0 has pushed, `TileInL1` that each region
  holds the tile before until its copy completes and the current one afterwards, or needs
  no copy because the two tiles agree in it (`CopiesKnown`), and `WorkRecorded` who is
  done. Only `BarrierReleasesKeeps` takes a core to another stage.
  `TilingExact` needs a second invariant, `TilesStored`: what has been copied out is what
  the loops have left behind, and the current tile from the completion of its copy
  (`NextTileFollows` says that w, h and n count through the tiles without a gap). The rest
  is arithmetic, done for any numbers that fit together and applied to the nine layers:
  `Fit` and `Covering` name what the generator has to get right about one dimension,
  `SpansDivide` and `WindowsKnown` what follows from it; `CopyIsBox` covers the three
  forms of `dory_dma_memcpy_async`; `ChunksDivide` and `PairsDivide` the ways the kernels
  share their loops, for any number of rows and columns (`ConvDivides`, `PoolDivides`,
  `LinearDivides`).
  Theorems: `NetworkInvariant`, `LayersApart`, `CoresOnTheirTile`, `FrameHeld`,
  `TilingStaysExact`, `ConvDivides`, `PoolDivides`, `LinearDivides`.
* **FrameStream**, for any number of rows and packets, with and without inference, under
  the assumption that a task is done no earlier than its callback runs (`~DoneAtPush`; with
  the other reading the frames stop, see *Experiments*). The run-time is seen as in
  `CpxSpi`, and also through `Before`, which of two queued tasks is ahead: some hand-overs
  are safe only because the scheduler runs its oldest task first. `FrameInv` says that each
  coroutine is queued or waits for the one event that resumes it (`ContextsPlaced`), and
  nobody for one that is done (`EventsQuiet`); where the camera may be with a buffer
  (`CameraAlone`, `FirstCaptures`); that `camera_callback` starts on a frame before
  `camera_task` takes up the next (`CallbackFirst`); that one send and one inference are
  under way, with one callback waiting for it (`OneSend`, `OneInference`); that the
  network's input is held by its callback until `frame_done`, which comes ahead of
  `network_done` (`InputReturned`); and that a callback that waits for the send of the
  frame before is ahead of everyone who could start another (`AwaitSendNext`). The last is
  what `camera_callback`'s loop at `main.c:99` relies on: it does not look at the inference
  again once it waits for the send. `StartBothKeeps` is the step that needs it.
  Theorems: `FrameInvariant`, `FramesExclusive`, `StaticsUnshared`, and the action property
  `FramesSentOnce`.
* **Client**, for any number of packets, connections and faults, any length of the queue and
  of the buffers, and any set of sequence numbers. For TCP, `StreamKnown` says that each
  unit of the stream that is still to be cut (`Uncut`, what has been received and what is on
  the wire) belongs to the packet whose number follows from the units behind it, and a
  header that has been cut off to the packet whose payload comes first. Moving a chunk of
  any length to the receiver leaves `Uncut` as it is (`ChunkMoved`); cutting and sending
  change its length by whole halves of a packet and whole packets. For UDP the invariant has
  a second part that holds as long as nothing has disturbed the datagrams: they are those of
  the first connection (`FirstConnection`), they arrive in order (`DatagramsInOrder`), and
  those in the queue between the threads lead without a gap from the segment the assembly
  waits for (`Awaited`) to the one that is received next (`QueueInOrder`, `NextPlace`). A
  summed buffer needs none of this: what fits its sum is whole.
  Theorems: `PacketsCutWhole`, `BuffersYieldedIntact`.

Every invariant of the passing runs is stated by a theorem (`AsyncNeverAsserts`, of the
asynchronous clients in `MCQueues`, by `AsyncNeverFails`). Only model-checked are the
liveness properties, which TLAPS does not reach (nor ENABLED, nor induction over data, nor
RECURSIVE operators; no module declares one).

## Not modelled

* Arithmetic of kernels. More than half of the repository's lines of C are the generated
  `pulp_nn_kernels.h` (18,841 lines, which the network's kernels include) and
  `pulp_nn_utils.h` (1,937): inner loops without state that outlives a call. The
  FaceDetection example (kernels, and a cascade table) and the vendored networks are of the
  same kind. The modelled share of the lines stays small for that reason.
* Registers of the sensor (`himax.c`, `himax_timing.c`), padding and pin set-up, tracing,
  time, random numbers: I/O without state that others depend on.
* The loading of weights from flash (`mem.c`, `network_init`): one-shot, before anything
  else runs.
* The lock of interrupts in `coroutine.h` and `event_group.h`: every set of an event group
  in the repository comes from a task.
* `memset` with swapped arguments in `cpxInit`, which leaves `queues[0]` non-null.
* The client's sending, decoding and shutting down.

## Plan

Done: 1. `Queue`, the structure under all the others, with its proofs. 2. `CameraPipeline`,
the densest sharing. 3. `ComLink` and `LegacyCpx`. 4. `SpiLengths`, `SpiTransfer` with its
proofs, `Coroutine`, `CpxSpi`. 5. `AsyncQueue` on `Queue` and `Coroutine`, and the proof
that `Queue` implements `QueueFifo`. 6. `Streamer`, with its proofs. 7. `FrameStream`.
8. `UartProtocol`. 9. `Client`. 10. `FrontnetLayers` and `FrontnetNetwork`.

11. Proofs for `LegacyCpx`, `CameraPipeline`, `UartProtocol`, `CpxSpi`,
`FrontnetNetwork`, `FrameStream`, `AsyncQueue` and `Client`. 12. The three invariants of
`CpxSpi` for either reading of `pi_task_is_done`.
