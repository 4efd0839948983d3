--------------------------- MODULE FrontnetNetwork ---------------------------
(* One inference of PULP-Frontnet: network_run_cluster allocates the layers'  *)
(* buffers from the two ends of one L2 buffer, and forks each layer on the    *)
(* cores of the cluster, which go through its tiles together. Core 0 alone    *)
(* talks to the DMA; the others rely on the team barriers to find their tile  *)
(* in L1 and to leave it there until the result has been copied out.          *)
(*                                                                            *)
(* External: the DMA engine, the event unit's barrier, the RAM the weights    *)
(* are read from (synchronously) and the arithmetic of the kernels.           *)
EXTENDS FrontnetLayers, FiniteSets

CONSTANTS Cores,        \* the cores that are modelled, 0 among them
          Placements    \* where the input may be: outside or at the start of the buffer
ASSUME CoresAssumption == 0 \in Cores /\ Cores \subseteq 0..NumCores - 1
ASSUME PlacementsAssumption == Placements \subseteq {"outside", "start"}

VARIABLES phase,      \* network_run_cluster: idle, alloc, layer, free or finish
          layer, dir, placement,
          mem,        \* directional_mem_begin and _end
          L2,         \* L2_input, L2_output, L2_weights
          inputDone,  \* input_done has been sent
          pc,         \* each core, within the layer
          load, exec, \* each core's _i_*_load and _i_*_exec
          pushed,     \* the transfers core 0 has pushed since the last barrier
          dma,        \* the transfer under way
          l1,         \* what each region of L1 holds
          written,    \* which core has computed its share of which tile
          stored      \* the output tiles in L2
network == <<phase, layer, dir, placement, mem, L2, inputDone>>
cluster == <<pc, load, exec, pushed, dma, l1, written, stored>>
vars == <<network, cluster>>

Null == -1
Frame == -Sizes.activations[1]         \* l2_input, when it is not in the buffer
Size(table, i) == Sizes[table][i + 1]

\* dmalloc and dfree: direction 1 is the beginning, 0 the end.
DMalloc(m, size, d) ==
  IF m.begin + size < m.end
  THEN IF d = 1 THEN [at |-> m.begin, mem |-> [m EXCEPT !.begin = @ + size]]
                ELSE [at |-> m.end - size, mem |-> [m EXCEPT !.end = @ - size]]
  ELSE [at |-> Null, mem |-> m]
\* Mutant of DFree: the other end grows.
DFreeOtherEnd(m, size, d) ==
  IF d = 1 THEN [m EXCEPT !.end = @ + size] ELSE [m EXCEPT !.begin = @ - size]
DFree(m, size, d) ==
  IF d = 1 THEN [m EXCEPT !.begin = @ - size] ELSE [m EXCEPT !.end = @ + size]

First == [n |-> 0, h |-> 0, w |-> 0, nif |-> 0]
NoTile == [n |-> 1, h |-> 1, w |-> 1, nif |-> 1]      \* the initial _i_*_exec
EmptyL1 == [x |-> {}, W |-> {}, k |-> {}, lambda |-> {}, pooled |-> {}]

Init ==
  /\ phase = "idle" /\ layer = 0 /\ dir = 1 /\ placement \in Placements
  /\ mem = [begin |-> 0, end |-> L2BufferSize]
  /\ L2 = [input |-> Null, output |-> Null, weights |-> Null]
  /\ inputDone = FALSE
  /\ pc = [c \in Cores |-> "end"] /\ load = [c \in Cores |-> First]
  /\ exec = [c \in Cores |-> NoTile] /\ pushed = 0 /\ dma = {}
  /\ l1 = EmptyL1 /\ written = {} /\ stored = {}

\* network_run_async, and network_run_cluster up to its loop.
RunAsync ==
  /\ phase = "idle"
  /\ phase' = "alloc" /\ layer' = 0 /\ dir' = 1 /\ inputDone' = FALSE
  /\ placement' \in Placements
  /\ mem' = [begin |-> 0, end |-> L2BufferSize]
  /\ L2' = [input |-> Null, output |-> Null, weights |-> Null]
  /\ UNCHANGED cluster

ReservesInput == layer = 0 /\ placement = "start"

\* The first half of the loop's body: memory, weights, and the fork of the layer.
ForkLayer ==
  /\ phase = "alloc"
  /\ LET input   == IF ReservesInput THEN DMalloc(mem, Size("activations", layer), dir).mem
                                     ELSE mem
         output  == DMalloc(input, Size("output", layer), 1 - dir)
         weights == DMalloc(output.mem, Size("weights", layer), dir)
     IN  /\ L2' = [input   |-> IF layer # 0 THEN L2.input
                               ELSE IF placement = "start" THEN 0 ELSE Frame,
                   output  |-> output.at,
                   weights |-> IF HasWeights(layer) THEN weights.at ELSE L2.weights]
         /\ mem' = IF HasWeights(layer) THEN weights.mem ELSE output.mem
  /\ phase' = "layer"
  /\ pc' = [c \in Cores |-> IF Layer[layer].kind = "pool" THEN "load" ELSE "begin"]
  /\ load' = [c \in Cores |-> First] /\ exec' = [c \in Cores |-> NoTile]
  /\ pushed' = 0 /\ l1' = EmptyL1 /\ written' = {} /\ stored' = {}
  /\ UNCHANGED <<layer, dir, placement, inputDone, dma>>

\* Mutant of HandOver: the next layer reads the input again.
HandOverNothing(b) == b
\* L2_input = L2_output.
HandOver(b) == [b EXCEPT !.input = b.output]

\* The second half: what the layer used is given back in the reverse order, and
\* after the first layer the frame is too. No layer branches or spills to RAM.
FreeLayer ==
  /\ phase = "layer" /\ \A c \in Cores : pc[c] = "end"
  /\ LET weights == IF HasWeights(layer) THEN DFree(mem, Size("weights", layer), dir) ELSE mem
     IN  mem' = IF layer # 0 \/ ReservesInput
                THEN DFree(weights, Size("activations", layer), dir) ELSE weights
  /\ inputDone' = (inputDone \/ layer = 0)
  /\ L2' = HandOver(L2)
  /\ dir' = 1 - dir
  /\ IF layer < 8 THEN layer' = layer + 1 /\ phase' = "alloc"
                  ELSE layer' = layer /\ phase' = "finish"
  /\ UNCHANGED <<placement, cluster>>

\* The memmove of the result to l2_output; network_done follows.
Finish ==
  /\ phase = "finish" /\ phase' = "idle"
  /\ UNCHANGED <<layer, dir, placement, mem, L2, inputDone, cluster>>

------------------------------------------------------------------------------
L == Layer[layer]
ReloadsInput(t, e) == t.nif # e.nif \/ t.w # e.w \/ t.h # e.h
ReloadsWeights(t, e) == t.nif # e.nif \/ t.n # e.n

\* The copies core 0 makes, in order, before it comes to the next barrier.
Copies(at, t, e) ==
  CASE at = "begin" -> IF L.kind = "linear" THEN <<"k">> ELSE <<>>
    [] at = "store" -> <<"y">>
    [] at = "load" /\ L.kind = "pool" -> <<"x">>
    [] at = "load" /\ L.kind # "pool" ->
         (IF ReloadsInput(t, e) THEN <<"x">> ELSE <<>>)
         \o (IF ~ReloadsWeights(t, e) THEN <<>>
             ELSE IF L.kind = "linear" THEN <<"W">> ELSE <<"W", "k", "lambda">>)
Pending(c) == IF c = 0 THEN Copies(pc[c], load[c], exec[c]) ELSE <<>>

\* dory_dma_memcpy_async: only core 0 gets past the test of its core number.
Push(c) ==
  /\ c = 0 /\ pc[c] \in {"begin", "load", "store"}
  /\ dma = {} /\ pushed < Len(Pending(c))
  /\ dma' = {[what |-> Pending(c)[pushed + 1], tile |-> load[c]]}
  /\ pushed' = pushed + 1
  /\ UNCHANGED <<network, pc, load, exec, l1, written, stored>>

\* The DMA engine completes the transfer.
TransferDone ==
  /\ \E d \in dma :
       IF d.what = "y"
       THEN stored' = stored \cup {d.tile} /\ UNCHANGED l1
       ELSE l1' = [l1 EXCEPT ![d.what] = {d.tile}] /\ UNCHANGED stored
  /\ dma' = {}
  /\ UNCHANGED <<network, pc, load, exec, pushed, written>>

\* Mutant of Waited: the transfers are pushed and not waited for.
NotWaited(c) == c = 0 => pushed = Len(Pending(c))
\* dory_dma_barrier: each core waits for the transfers it pushed itself.
Waited(c) == c = 0 => dma = {} /\ pushed = Len(Pending(c))

\* Mutant of NextTile: the output channels are not counted.
NextTileOfPlane(t) ==
  IF t.w + 1 < L.dim.w THEN [t EXCEPT !.w = @ + 1]
  ELSE IF t.h + 1 < L.dim.h THEN [t EXCEPT !.w = 0, !.h = @ + 1]
  ELSE [t EXCEPT !.w = 0, !.h = 0]
\* The loop indexes after the tile: w, then h, then the output channels.
NextTile(t) ==
  IF t.w + 1 < L.dim.w THEN [t EXCEPT !.w = @ + 1]
  ELSE IF t.h + 1 < L.dim.h THEN [t EXCEPT !.w = 0, !.h = @ + 1]
  ELSE [t EXCEPT !.w = 0, !.h = 0, !.n = @ + 1]

\* A core comes to the barrier after its copies; after the store it has moved
\* its indexes on.
Arrive(c) ==
  /\ pc[c] \in {"begin", "load", "store"} /\ Waited(c)
  /\ pc' = [pc EXCEPT ![c] = CASE @ = "begin" -> "begun"
                               [] @ = "load" -> "loaded"
                               [] @ = "store" -> "stored"]
  /\ pushed' = IF c = 0 THEN 0 ELSE pushed
  /\ IF pc[c] = "store"
     THEN exec' = [exec EXCEPT ![c] = load[c]] /\ load' = [load EXCEPT ![c] = NextTile(@)]
     ELSE UNCHANGED <<exec, load>>
  /\ UNCHANGED <<network, dma, l1, written, stored>>

\* The kernel on this core's share; the pooling does the rows of its input in
\* place, meets the other cores, and then the rows of its output.
Kernel(c) ==
  /\ \/ /\ pc[c] = "kernel" /\ L.kind = "pool"
        /\ pc' = [pc EXCEPT ![c] = "halfway"]
        /\ l1' = [l1 EXCEPT !.pooled = @ \cup {<<c, load[c]>>}]
        /\ UNCHANGED written
     \/ /\ pc[c] = "second" \/ (pc[c] = "kernel" /\ L.kind # "pool")
        /\ pc' = [pc EXCEPT ![c] = "computed"]
        /\ written' = written \cup {<<c, load[c]>>}
        /\ UNCHANGED l1
  /\ UNCHANGED <<network, load, exec, pushed, dma, stored>>

\* Where a core goes on from the barrier at which it stands.
Beyond(c) ==
  CASE pc[c] = "begun" -> "load"
    [] pc[c] = "loaded" -> "kernel"
    [] pc[c] = "halfway" -> "second"
    [] pc[c] = "computed" -> "store"
    [] pc[c] = "stored" -> IF load[c].n = L.dim.n THEN "end" ELSE "load"

\* pi_cl_team_barrier(0): one barrier for the team, wherever its cores stand.
BarrierReleases ==
  /\ \A c \in Cores : pc[c] \in {"begun", "loaded", "halfway", "computed", "stored"}
  /\ pc' = [c \in Cores |-> Beyond(c)]
  /\ UNCHANGED <<network, load, exec, pushed, dma, l1, written, stored>>

CoreStep == \E c \in Cores : Push(c) \/ Arrive(c) \/ Kernel(c)
Next == RunAsync \/ ForkLayer \/ FreeLayer \/ Finish \/ CoreStep \/ TransferDone \/ BarrierReleases
Spec == Init /\ [][Next]_vars /\ WF_vars(Next)

------------------------------------------------------------------------------
Region(from, size) == from..(from + size - 1)
Apart(from, size, from2, size2) == from + size <= from2 \/ from2 + size2 <= from

\* While a layer runs its input, output and weights are where dmalloc found
\* room for them, within the buffer, and none overlaps another; nothing else
\* that is allocated from the two ends lies between them.
BuffersApart ==
  phase = "layer" =>
    LET in == Size("activations", layer)
        out == Size("output", layer)
        wgt == Size("weights", layer)
    IN  /\ L2.output >= 0 /\ L2.output + out <= L2BufferSize
        /\ Apart(L2.input, in, L2.output, out)
        /\ L2.input # Frame => L2.input >= 0 /\ L2.input + in <= L2BufferSize
        /\ HasWeights(layer) =>
             /\ L2.weights >= 0 /\ L2.weights + wgt <= L2BufferSize
             /\ Apart(L2.weights, wgt, L2.input, in) /\ Apart(L2.weights, wgt, L2.output, out)

\* A core that computes finds in L1 the input tile and the weights of the tile it
\* is at, with no transfer under way that could change them or read the result
\* of the tile before; the second pass of the pooling starts from all the rows.
\* A result is copied out only when every core has computed its share of it.
ComputesOnItsTile ==
  /\ \A c \in Cores : pc[c] \in {"kernel", "second"} =>
       /\ dma = {}
       /\ \E t \in l1.x : t.h = load[c].h /\ t.w = load[c].w
       /\ L.kind # "pool" => \E t \in l1.W : t.n = load[c].n
       /\ L.kind # "pool" => \E t \in l1.k : t.n = load[c].n
       /\ L.kind = "conv" => \E t \in l1.lambda : t.n = load[c].n
       /\ pc[c] = "second" => \A d \in Cores : <<d, load[c]>> \in l1.pooled
  /\ \A d \in dma : d.what = "y" => \A c \in Cores : <<c, d.tile>> \in written

\* The frame is read only until the application is told, by input_done, that it
\* may have it back.
InputHeld ==
  \A d \in dma : d.what = "x" /\ L2.input = Frame => ~inputDone

\* The rows (columns) of a tile's input are the ones its windows cover, at the
\* place where the kernel looks for them; what it takes for padding is outside, and
\* the inner rows, where it does not test for the border, need none.
WindowsCovered(t, d) ==
  LET from == t[d] * (L.x[d] - L.overlap) - PadOffset(L, t, d)
      upto == from + XSize(L, t, d) - 1
      y0   == t[d] * L.y[d]
  IN  /\ from >= 0 /\ upto < L.in[d]
      /\ from - PadBefore(L, t, d) = y0 * L.stride - L.pad
      /\ \A o \in y0..(y0 + YSize(L, t, d) - 1) :
           \A i \in (o * L.stride - L.pad)..(o * L.stride - L.pad + L.window - 1) :
             \/ i \in from..upto
             \/ /\ i < 0 \/ i >= L.in[d]
                /\ \/ o < y0 + PadBefore(L, t, d)
                   \/ o >= y0 + YSize(L, t, d) - PadAfter(L, t, d)

\* The bytes of the copy, paired with L1 row by row, are the box of the tensor.
CopiesBox(r, base, width, channels) ==
  \A i \in 0..r.two - 1, j \in 0..r.one - 1, b \in {0, r.len - 1} :
    ExtOf(r, (i * r.one + j) * r.len + b) = base + (i * width + j) * channels + b

\* No region of the layer's L1 buffer, with its largest tile in it, reaches into the
\* region behind it; each core has two im2col columns.
L1Fits ==
  /\ L.x.h * L.x.w * L.nif <= L.l1.y
  /\ L.l1.y + L.y.h * L.y.w * L.y.c <= L.l1.W
  /\ L.kind = "conv" =>
       /\ L.l1.W + L.window * L.window * L.nif * L.y.c <= L.l1.k
       /\ L.l1.k + 8 * L.y.c <= L.l1.lambda /\ L.l1.lambda + 8 * L.y.c <= L.l1.im2col
       /\ L.l1.im2col + 2 * L.window * L.window * L.nif * NumCores <= L1BufferSize
  /\ L.kind = "linear" => L.l1.W + (L.y.c \div 4) * L.nif <= L.l1.k
  /\ L.l1.k <= L1BufferSize

\* What core 0 moves into and out of L1 is the tile: the DMA requests reach the
\* bytes of its box and no others, whichever of the three forms they take, and
\* the input tile is what the windows of the output tile need.
TilesExact ==
  \A d \in dma :
    /\ L1Fits
    /\ d.what = "x" => /\ CopiesBox(XCopy(L, d.tile), XAddress(L, d.tile), L.in.w, L.in.c)
                       /\ WindowsCovered(d.tile, "h") /\ WindowsCovered(d.tile, "w")
    /\ d.what = "y" => CopiesBox(YCopy(L, d.tile), YAddress(L, d.tile), L.out.w, L.out.c)

Box(t) == Region(t.h * L.y.h, YSize(L, t, "h")) \X Region(t.w * L.y.w, YSize(L, t, "w"))
Channels(t) == Region(t.n * L.y.c, YChannels(L, t))

\* The tile's shares do not meet and are the tile; when the layer ends, the
\* tiles that were stored do not meet and are the output.
WorkDividedExactly ==
  /\ phase = "layer" /\ (\A c \in Cores : pc[c] = "kernel") =>
       LET t == load[0] IN
       /\ UNION {Share(L, t, c) : c \in 0..NumCores - 1} = WholeTile(L, t)
       /\ \A c, d \in 0..NumCores - 1 : c < d => Share(L, t, c) \cap Share(L, t, d) = {}
  /\ phase = "layer" /\ (\A c \in Cores : pc[c] = "end") =>
       /\ UNION {Box(t) : t \in stored} = Region(0, L.out.h) \X Region(0, L.out.w)
       /\ UNION {Channels(t) : t \in stored} = 0..L.out.c - 1
       /\ \A t, u \in stored :
            t # u => Box(t) \cap Box(u) = {} \/ Channels(t) \cap Channels(u) = {}
       /\ Cardinality(stored) = L.dim.n * L.dim.h * L.dim.w

\* The tiling is exact: of the copies, of the work and of the whole layer.
TilingExact == TilesExact /\ WorkDividedExactly

\* Every inference ends: the cores never wait for each other for ever.
InferenceCompletes == (phase = "alloc" /\ layer = 0) ~> (phase = "finish")
==============================================================================
