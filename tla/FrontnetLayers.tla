--------------------------- MODULE FrontnetLayers ---------------------------
(* The nine layers of the generated PULP-Frontnet network: the sizes the     *)
(* network allocates for each of them (inc/network.h) and the tiling that    *)
(* each src/layerN_*.c has compiled in. All the convolutions are instances   *)
(* of one template, so a layer is a record of the template's numbers.        *)
(*                                                                           *)
(*   dim     tiles along height, width and output channels                   *)
(*   in out  height, width and bytes of the channels of the two tensors      *)
(*   x y     height, width (and, for y, channel bytes) of a tile; "Last" is  *)
(*           the size of the last tile of that dimension                     *)
(*   pad overlap window stride   of the convolution or of the pooling        *)
(*   xs ys   stride_2d and stride_1d of the copies of the two tiles          *)
(*   l1      where the L1 buffer holds y, the weights, k (or the bias),      *)
(*           lambda and the im2col columns; x is at 0                        *)
EXTENDS Integers, Sequences

\* Layers 0 and 1 of the network, in the order of Layers_name.
Layer0 == [kind |-> "conv", dim |-> [h |-> 2, w |-> 3, n |-> 1], nif |-> 1,
  in |-> [h |-> 96, w |-> 160, c |-> 1], out |-> [h |-> 48, w |-> 80, c |-> 32],
  x |-> [h |-> 67, w |-> 63], xLast |-> [h |-> 34, w |-> 42],
  y |-> [h |-> 32, w |-> 30, c |-> 32], yLast |-> [h |-> 16, w |-> 20, c |-> 32],
  pad |-> 2, overlap |-> 3, window |-> 5, stride |-> 2,
  xs |-> [two |-> 160, one |-> 1], ys |-> [two |-> 2560, one |-> 32],
  l1 |-> [y |-> 4229, W |-> 34957, k |-> 35765, lambda |-> 36029, im2col |-> 36293]]

Layer1 == [kind |-> "pool", dim |-> [h |-> 4, w |-> 2, n |-> 1], nif |-> 32,
  in |-> [h |-> 48, w |-> 80, c |-> 32], out |-> [h |-> 24, w |-> 40, c |-> 32],
  x |-> [h |-> 12, w |-> 76], xLast |-> [h |-> 12, w |-> 4],
  y |-> [h |-> 6, w |-> 38, c |-> 32], yLast |-> [h |-> 6, w |-> 2, c |-> 32],
  pad |-> 0, overlap |-> 0, window |-> 2, stride |-> 2,
  xs |-> [two |-> 2560, one |-> 32], ys |-> [two |-> 1280, one |-> 32],
  l1 |-> [y |-> 29192, W |-> 36520, k |-> 36520, lambda |-> 36520, im2col |-> 36520]]

Layer2 == [kind |-> "conv", dim |-> [h |-> 2, w |-> 2, n |-> 1], nif |-> 32,
  in |-> [h |-> 24, w |-> 40, c |-> 32], out |-> [h |-> 12, w |-> 20, c |-> 32],
  x |-> [h |-> 17, w |-> 33], xLast |-> [h |-> 9, w |-> 9],
  y |-> [h |-> 8, w |-> 16, c |-> 32], yLast |-> [h |-> 4, w |-> 4, c |-> 32],
  pad |-> 1, overlap |-> 1, window |-> 3, stride |-> 2,
  xs |-> [two |-> 1280, one |-> 32], ys |-> [two |-> 640, one |-> 32],
  l1 |-> [y |-> 17960, W |-> 22064, k |-> 31288, lambda |-> 31552, im2col |-> 31816]]

Layer3 == [kind |-> "conv", dim |-> [h |-> 1, w |-> 1, n |-> 1], nif |-> 32,
  in |-> [h |-> 12, w |-> 20, c |-> 32], out |-> [h |-> 12, w |-> 20, c |-> 32],
  x |-> [h |-> 12, w |-> 20], xLast |-> [h |-> 12, w |-> 20],
  y |-> [h |-> 12, w |-> 20, c |-> 32], yLast |-> [h |-> 12, w |-> 20, c |-> 32],
  pad |-> 1, overlap |-> 2, window |-> 3, stride |-> 1,
  xs |-> [two |-> 640, one |-> 32], ys |-> [two |-> 640, one |-> 32],
  l1 |-> [y |-> 7688, W |-> 15376, k |-> 24600, lambda |-> 24864, im2col |-> 25128]]

Layer4 == [kind |-> "conv", dim |-> [h |-> 1, w |-> 1, n |-> 1], nif |-> 32,
  in |-> [h |-> 12, w |-> 20, c |-> 32], out |-> [h |-> 6, w |-> 10, c |-> 64],
  x |-> [h |-> 12, w |-> 20], xLast |-> [h |-> 12, w |-> 20],
  y |-> [h |-> 6, w |-> 10, c |-> 64], yLast |-> [h |-> 6, w |-> 10, c |-> 64],
  pad |-> 1, overlap |-> 1, window |-> 3, stride |-> 2,
  xs |-> [two |-> 640, one |-> 32], ys |-> [two |-> 640, one |-> 64],
  l1 |-> [y |-> 7688, W |-> 11536, k |-> 29976, lambda |-> 30496, im2col |-> 31016]]

Layer5 == [kind |-> "conv", dim |-> [h |-> 1, w |-> 3, n |-> 2], nif |-> 64,
  in |-> [h |-> 6, w |-> 10, c |-> 64], out |-> [h |-> 6, w |-> 10, c |-> 64],
  x |-> [h |-> 6, w |-> 6], xLast |-> [h |-> 6, w |-> 3],
  y |-> [h |-> 6, w |-> 4, c |-> 40], yLast |-> [h |-> 6, w |-> 2, c |-> 24],
  pad |-> 1, overlap |-> 2, window |-> 3, stride |-> 1,
  xs |-> [two |-> 640, one |-> 64], ys |-> [two |-> 640, one |-> 64],
  l1 |-> [y |-> 2312, W |-> 3280, k |-> 26328, lambda |-> 26656, im2col |-> 26984]]

Layer6 == [kind |-> "conv", dim |-> [h |-> 2, w |-> 2, n |-> 4], nif |-> 64,
  in |-> [h |-> 6, w |-> 10, c |-> 64], out |-> [h |-> 3, w |-> 5, c |-> 128],
  x |-> [h |-> 5, w |-> 9], xLast |-> [h |-> 3, w |-> 3],
  y |-> [h |-> 2, w |-> 4, c |-> 40], yLast |-> [h |-> 1, w |-> 1, c |-> 8],
  pad |-> 1, overlap |-> 1, window |-> 3, stride |-> 2,
  xs |-> [two |-> 640, one |-> 64], ys |-> [two |-> 640, one |-> 128],
  l1 |-> [y |-> 2888, W |-> 3216, k |-> 26264, lambda |-> 26592, im2col |-> 26920]]

Layer7 == [kind |-> "conv", dim |-> [h |-> 1, w |-> 3, n |-> 11], nif |-> 128,
  in |-> [h |-> 3, w |-> 5, c |-> 128], out |-> [h |-> 3, w |-> 5, c |-> 128],
  x |-> [h |-> 3, w |-> 4], xLast |-> [h |-> 3, w |-> 2],
  y |-> [h |-> 3, w |-> 2, c |-> 12], yLast |-> [h |-> 3, w |-> 1, c |-> 8],
  pad |-> 1, overlap |-> 2, window |-> 3, stride |-> 1,
  xs |-> [two |-> 640, one |-> 128], ys |-> [two |-> 640, one |-> 128],
  l1 |-> [y |-> 1544, W |-> 1624, k |-> 15456, lambda |-> 15560, im2col |-> 15664]]

\* The four outputs are 32-bit words; k stands for the bias.
Layer8 == [kind |-> "linear", dim |-> [h |-> 1, w |-> 1, n |-> 1], nif |-> 1920,
  in |-> [h |-> 1, w |-> 1, c |-> 1920], out |-> [h |-> 1, w |-> 1, c |-> 16],
  x |-> [h |-> 1, w |-> 1], xLast |-> [h |-> 1, w |-> 1],
  y |-> [h |-> 1, w |-> 1, c |-> 16], yLast |-> [h |-> 1, w |-> 1, c |-> 16],
  pad |-> 0, overlap |-> 0, window |-> 1, stride |-> 1,
  xs |-> [two |-> 1920, one |-> 1920], ys |-> [two |-> 16, one |-> 16],
  l1 |-> [y |-> 1928, W |-> 1952, k |-> 9656, lambda |-> 9672, im2col |-> 9672]]

\* layers_pointers: what execute_layer_fork runs for layer_id i.
Layer == [i \in 0..8 |-> <<Layer0, Layer1, Layer2, Layer3, Layer4, Layer5,
                           Layer6, Layer7, Layer8>>[i + 1]]

\* The tables of network.h that the allocation of L2 follows.
Sizes == [activations |-> <<15360, 122880, 30720, 7680, 7680, 3840, 3840, 1920, 1920>>,
          output |-> <<122880, 30720, 7680, 7680, 3840, 3840, 1920, 1920, 16>>,
          weights |-> <<1312, 0, 9728, 9728, 19456, 37888, 75776, 149504, 7696>>]
L2BufferSize == 352000      \* NETWORK_L2_BUFFER_SIZE
L1BufferSize == 36700
NumCores == 8               \* NUM_CORES of network.mk

HasWeights(i) == i # 1      \* layer_with_weights and allocate_layer agree

------------------------------------------------------------------------------
\* A tile is named by the loop indexes [n, h, w]; the only input-channel tile is 0.
Tiles(l) == [n : 0..l.dim.n - 1, h : 0..l.dim.h - 1, w : 0..l.dim.w - 1]

LastOf(l, t, d) == t[d] + 1 = l.dim[d]
XSize(l, t, d) == IF LastOf(l, t, d) THEN l.xLast[d] ELSE l.x[d]
YSize(l, t, d) == IF LastOf(l, t, d) THEN l.yLast[d] ELSE l.y[d]
YChannels(l, t) == IF LastOf(l, t, "n") THEN l.yLast.c ELSE l.y.c
\* Mutant of PadOffset: the padding is not taken off the later tiles.
PadOffsetNone(l, t, d) == 0
PadOffset(l, t, d) == IF t[d] > 0 THEN l.pad ELSE 0
PadBefore(l, t, d) == IF t[d] = 0 THEN l.pad ELSE 0
PadAfter(l, t, d) == IF LastOf(l, t, d) THEN l.pad ELSE 0

\* dory_get_tile_3d on the grid of the input and of the output, in bytes.
XAddress(l, t) ==
  LET row == t.h * (l.x.h - l.overlap) - PadOffset(l, t, "h")
      col == t.w * (l.x.w - l.overlap) - PadOffset(l, t, "w")
  IN  row * l.in.w * l.in.c + col * l.in.c
YAddress(l, t) ==
  t.h * l.y.h * l.out.w * l.out.c + t.w * l.y.w * l.out.c + t.n * l.y.c

\* A DMA_copy: where it starts in L2, its three dimensions and two strides.
XCopy(l, t) == [ext |-> XAddress(l, t), two |-> XSize(l, t, "h"), one |-> XSize(l, t, "w"),
                len |-> l.nif, strideTwo |-> l.xs.two, strideOne |-> l.xs.one]
YCopy(l, t) == [ext |-> YAddress(l, t), two |-> YSize(l, t, "h"), one |-> YSize(l, t, "w"),
                len |-> YChannels(l, t), strideTwo |-> l.ys.two, strideOne |-> l.ys.one]

\* dory_dma_memcpy_async: is the copy one run of bytes, or runs at one stride?
OneRun(r) ==
  \/ r.two = 1 /\ r.one = 1
  \/ r.strideOne = r.len /\ r.one * r.len = r.strideTwo
  \/ r.two = 1 /\ r.len = r.strideOne
EqualRuns(r) == r.two = 1 \/ r.len = r.strideOne

\* The address in L2 of the byte that the transfers of the copy pair with byte
\* o of the L1 region: dory_dma_memcpy_1d_async, _2d_async and _3d_async.
ExtOf(r, o) ==
  LET run    == IF r.two = 1 THEN r.len ELSE r.len * r.one
      stride == IF r.two = 1 THEN r.strideOne ELSE r.strideTwo
      row    == r.one * r.len
  IN  IF OneRun(r) THEN r.ext + o
      ELSE IF EqualRuns(r) THEN r.ext + (o \div run) * stride + (o % run)
      ELSE r.ext + (o \div row) * r.strideTwo + ((o % row) \div r.len) * r.strideOne
                 + (o % r.len)

------------------------------------------------------------------------------
\* log2 of the C library cut to an integer, for the counts of cores used.
Log2[n \in 1..NumCores] == IF n = 1 THEN 0 ELSE 1 + Log2[n \div 2]
AtMost(a, b) == IF a < b THEN a ELSE b

\* The slice of 0..n-1 that the chunked loops give to core.
Slice(n, chunk, core) ==
  LET start == AtMost(chunk * core, n) IN start..(AtMost(start + chunk, n) - 1)
ChunkOf(n, cores) == n \div 2^Log2[cores] + (IF n % NumCores # 0 THEN 1 ELSE 0)

\* pulp_nn_conv_u8_u8_i8: rows to pairs of cores, halves of a row within a pair,
\* unless the rows are a multiple of the cores.
ConvShare(rows, cols, core) ==
  IF rows % NumCores # 0 /\ cols > 1
  THEN LET half  == cols \div 2
           chunk == rows \div (NumCores \div 2)
                      + (IF rows % (NumCores \div 2) # 0 THEN 1 ELSE 0)
           sect  == core % 2
       IN  Slice(rows, chunk, core \div 2)
             \X ((sect * half)..(half + sect * (half + (cols % 2)) - 1))
  ELSE Slice(rows, ChunkOf(rows, NumCores), core) \X (0..cols - 1)

\* pulp_nn_maxpool_u8: the rows of the output; start2 is not cut to the rows.
PoolShare(rows, cols, core) ==
  LET chunk == ChunkOf(rows, AtMost(rows, NumCores))
  IN  ((chunk * core)..(AtMost(chunk * core + chunk, rows) - 1)) \X (0..cols - 1)

\* pulp_nn_linear_u8_i32_i8: the output neurons, four bytes each.
LinearShare(bytes, core) ==
  Slice(bytes \div 4, ChunkOf(bytes \div 4, NumCores), core) \X {0}

\* What core computes of tile t, and the whole of it.
Share(l, t, core) ==
  IF l.kind = "linear" THEN LinearShare(YChannels(l, t), core)
  ELSE IF l.kind = "pool" THEN PoolShare(YSize(l, t, "h"), YSize(l, t, "w"), core)
  ELSE ConvShare(YSize(l, t, "h"), YSize(l, t, "w"), core)
WholeTile(l, t) ==
  IF l.kind = "linear" THEN (0..YChannels(l, t) \div 4 - 1) \X {0}
  ELSE (0..YSize(l, t, "h") - 1) \X (0..YSize(l, t, "w") - 1)
==============================================================================
