------------------------ MODULE FrontnetNetworkProofs ------------------------
(***************************************************************************)
(* Theorems about FrontnetNetwork, for every set of cores and both         *)
(* placements of the frame: where network_run_cluster puts the layers'     *)
(* buffers, that the barriers keep the cores of a team on one tile, and    *)
(* that the tiles, the copies and the cores' shares divide each layer.     *)
(***************************************************************************)
EXTENDS FrontnetNetwork, FiniteSetTheorems, TLAPS

Tile == [n : Nat, h : Nat, w : Nat, nif : {0}]
Place == {"begin", "begun", "load", "loaded", "kernel", "halfway", "second", "computed",
          "store", "stored", "end"}
Regions == {"x", "W", "k", "lambda"}

NetworkTypes ==
  /\ phase \in {"idle", "alloc", "layer", "finish"}
  /\ layer \in 0 .. 8 /\ dir \in {0, 1} /\ placement \in {"outside", "start"}
  /\ mem \in [begin : Int, end : Int]
  /\ L2 \in [input : Int, output : Int, weights : Int]
  /\ inputDone \in BOOLEAN

ClusterTypes ==
  /\ pc \in [Cores -> Place]
  /\ load \in [Cores -> Tile] /\ exec \in [Cores -> Tile \cup {NoTile}]
  /\ pushed \in Nat
  /\ dma \subseteq [what : Regions \cup {"y"}, tile : Tile]
  /\ l1 \in [x : SUBSET Tile, W : SUBSET Tile, k : SUBSET Tile, lambda : SUBSET Tile,
             pooled : SUBSET (Cores \X Tile)]
  /\ written \subseteq Cores \X Tile /\ stored \subseteq Tile

\* What is allocated at the end of the buffer that dir names, and at the other.
InputSize == Size("activations", layer)
OutputSize == Size("output", layer)
WeightsSize == IF HasWeights(layer) THEN Size("weights", layer) ELSE 0
Reserved == IF layer # 0 \/ ReservesInput THEN InputSize ELSE 0

\* The two ends of the buffer, with so much allocated at the one that dir names
Ends(near, far) ==
  IF dir = 1 THEN [begin |-> near, end |-> L2BufferSize - far]
             ELSE [begin |-> far, end |-> L2BufferSize - near]
\* Where a block of this size lies behind others at the end dir names, or at the other
NearEnd(size, behind) == IF dir = 1 THEN behind ELSE L2BufferSize - behind - size
FarEnd(size) == IF dir = 1 THEN L2BufferSize - size ELSE 0

\* Each layer finds its input at one end of the buffer, puts its weights behind it and
\* its output at the other end; the next layer takes the two ends the other way round.
EndsSwap ==
  /\ phase \in {"alloc", "layer"} =>
       /\ dir = 1 <=> layer \in {0, 2, 4, 6, 8}
       /\ inputDone <=> layer # 0
  /\ phase = "alloc" =>
       /\ mem = Ends(IF layer = 0 THEN 0 ELSE InputSize, 0)
       /\ layer # 0 => L2.input = NearEnd(InputSize, 0)
  /\ phase = "layer" =>
       /\ mem = Ends(Reserved + WeightsSize, OutputSize)
       /\ L2.input = IF Reserved = 0 THEN Frame ELSE NearEnd(InputSize, 0)
       /\ L2.output = FarEnd(OutputSize)
       /\ HasWeights(layer) => L2.weights = NearEnd(WeightsSize, Reserved)

\* The stage between two barriers that a core is in
Stage(p) ==
  CASE p \in {"begin", "begun"} -> "begin"
    [] p \in {"load", "loaded"} -> "load"
    [] p \in {"kernel", "halfway"} -> "kernel"
    [] p = "second" -> "second"
    [] p = "computed" -> IF L.kind = "pool" THEN "second" ELSE "kernel"
    [] p \in {"store", "stored"} -> "store"
    [] OTHER -> "end"

\* The cores are all in one stage.
Together ==
  /\ phase # "layer" => \A c \in Cores : pc[c] = "end"
  /\ \A c \in Cores : Stage(pc[c]) = Stage(pc[0])
  /\ \A c \in Cores : L.kind = "pool" => pc[c] \notin {"begin", "begun"}
  /\ \A c \in Cores : L.kind # "pool" => pc[c] \notin {"halfway", "second"}

\* They are at one tile, although each counts for itself.
Current(c) == IF pc[c] = "stored" THEN exec[c] ELSE load[c]
OneTile ==
  \A c \in Cores :
    /\ pc[c] # "end" => Current(c) = Current(0) /\ Current(c).n < L.dim.n
    /\ pc[c] = "stored" => load[c] = NextTile(exec[c])
    /\ pc[c] \in {"begin", "begun"} => load[c] = First /\ exec[c] = NoTile

\* Core 0 pushes its copies one after the other.
CopiesInOrder ==
  /\ pc[0] \in {"begin", "load", "store"} => pushed <= Len(Pending(0))
  /\ pc[0] \notin {"begin", "load", "store"} => dma = {} /\ pushed = 0
  /\ dma # {} => pushed > 0 /\ dma = {[what |-> Pending(0)[pushed], tile |-> load[0]]}

\* What a region holds belongs to the tile, as far as the region depends on it.
Holds(r, t) ==
  \E u \in l1[r] : IF r = "x" THEN u.h = t.h /\ u.w = t.w ELSE u.n = t.n
Needed ==
  CASE L.kind = "pool" -> {"x"} [] L.kind = "conv" -> Regions [] OTHER -> {"x", "W"}
Copied == {Pending(0)[i] : i \in 1 .. pushed} \ {d.what : d \in dma}

\* The regions pass from the tile before to the current one as the copies complete.
TileInL1 ==
  /\ pc[0] \in {"begin", "load"} => \A r \in Copied : Holds(r, load[0])
  /\ pc[0] = "load" /\ exec[0] # NoTile => \A r \in Needed \ Copied : Holds(r, exec[0])
  /\ pc[0] \notin {"begin", "begun", "load", "end"} => \A r \in Needed : Holds(r, Current(0))
  /\ L.kind = "linear" /\ pc[0] \notin {"begin", "end"} => Holds("k", First)

\* Who has computed its share of the current tile
WorkRecorded ==
  \A c \in Cores :
    /\ pc[c] \in {"computed", "store", "stored"} => <<c, Current(c)>> \in written
    /\ L.kind = "pool" /\ pc[c] \in {"halfway", "second", "computed"} =>
         <<c, load[c]>> \in l1.pooled

ClusterInv ==
  ClusterTypes /\ Together /\ OneTile /\ CopiesInOrder /\ TileInL1 /\ WorkRecorded
NetworkInv == NetworkTypes /\ EndsSwap /\ ClusterInv
------------------------------------------------------------------------------
(* The tables of the nine layers *)

LEMMA LayerFacts ==
  ASSUME NEW i \in 0 .. 8
  PROVE  /\ Layer[i].kind \in {"conv", "pool", "linear"}
         /\ Layer[i].dim.n \in Nat \ {0}
         /\ Layer[i].dim.h \in Nat /\ Layer[i].dim.w \in Nat
         /\ Layer[i].kind = "linear" => Layer[i].dim.n = 1
PROOF
  <1> DEFINE layers == <<Layer0, Layer1, Layer2, Layer3, Layer4, Layer5, Layer6, Layer7, Layer8>>
  <1>1. Layer[i] = layers[i + 1]
    BY DEF Layer
  <1>2. layers[i + 1] \in {Layer0, Layer1, Layer2, Layer3, Layer4, Layer5, Layer6, Layer7, Layer8}
    OBVIOUS
  <1> HIDE DEF layers
  <1>3. CASE Layer[i] = Layer0
    BY <1>3 DEF Layer0
  <1>4. CASE Layer[i] = Layer1
    BY <1>4 DEF Layer1
  <1>5. CASE Layer[i] = Layer2
    BY <1>5 DEF Layer2
  <1>6. CASE Layer[i] = Layer3
    BY <1>6 DEF Layer3
  <1>7. CASE Layer[i] = Layer4
    BY <1>7 DEF Layer4
  <1>8. CASE Layer[i] = Layer5
    BY <1>8 DEF Layer5
  <1>9. CASE Layer[i] = Layer6
    BY <1>9 DEF Layer6
  <1>10. CASE Layer[i] = Layer7
    BY <1>10 DEF Layer7
  <1>11. CASE Layer[i] = Layer8
    BY <1>11 DEF Layer8
  <1> QED
    BY <1>1, <1>2, <1>3, <1>4, <1>5, <1>6, <1>7, <1>8, <1>9, <1>10, <1>11

\* The output of a layer is the input of the next one, and each layer has room.
LEMMA SizeFacts ==
  ASSUME NEW i \in 0 .. 8
  PROVE  /\ Size("activations", i) \in Nat \ {0, 1} /\ Size("output", i) \in Nat \ {0, 1}
         /\ Size("weights", i) \in Nat
         /\ Size("activations", i) + Size("output", i) + Size("weights", i) < L2BufferSize
         /\ i < 8 => Size("activations", i + 1) = Size("output", i)
  BY DEF Size, Sizes, L2BufferSize

LEMMA FrameOutside == Frame \in Int /\ Frame < -1 /\ Frame = -Size("activations", 0)
  BY DEF Frame, Size, Sizes
------------------------------------------------------------------------------
(* The two ends of the L2 buffer *)

LEMMA NearAllocated ==
  ASSUME dir \in {0, 1}, NEW near \in Nat, NEW far \in Nat, NEW size \in Nat,
         near + far + size < L2BufferSize
  PROVE  /\ DMalloc(Ends(near, far), size, dir).at = NearEnd(size, near)
         /\ DMalloc(Ends(near, far), size, dir).mem = Ends(near + size, far)
  BY DEF DMalloc, Ends, NearEnd, L2BufferSize

LEMMA FarAllocated ==
  ASSUME dir \in {0, 1}, NEW near \in Nat, NEW size \in Nat, near + size < L2BufferSize
  PROVE  /\ DMalloc(Ends(near, 0), size, 1 - dir).at = FarEnd(size)
         /\ DMalloc(Ends(near, 0), size, 1 - dir).mem = Ends(near, size)
  BY DEF DMalloc, Ends, FarEnd, L2BufferSize

LEMMA NearFreed ==
  ASSUME dir \in {0, 1}, NEW near \in Nat, NEW far \in Nat, NEW size \in Nat
  PROVE  DFree(Ends(near + size, far), size, dir) = Ends(near, far)
  BY DEF DFree, Ends, L2BufferSize

LEMMA ForkLayerPlaces ==
  ASSUME NetworkTypes, EndsSwap, ForkLayer
  PROVE  NetworkTypes' /\ EndsSwap'
PROOF
  <1> DEFINE room == IF layer = 0 THEN 0 ELSE InputSize
             input == IF ReservesInput THEN DMalloc(mem, Size("activations", layer), dir).mem
                                       ELSE mem
             output == DMalloc(input, Size("output", layer), 1 - dir)
             weights == DMalloc(output.mem, Size("weights", layer), dir)
  <1> USE DEF NetworkTypes
  <1>1. /\ layer \in 0 .. 8 /\ dir \in {0, 1}
        /\ mem = Ends(room, 0)
        /\ InputSize \in Nat \ {0} /\ OutputSize \in Nat /\ WeightsSize \in Nat
        /\ Size("weights", layer) \in Nat
        /\ InputSize + OutputSize + Size("weights", layer) < L2BufferSize
    BY SizeFacts DEF EndsSwap, ForkLayer, InputSize, OutputSize, WeightsSize
  <1>2. input = Ends(Reserved, 0) /\ Reserved \in {0, InputSize} /\ (Reserved = 0 => room = 0)
    <2>1. CASE ReservesInput
      <3>1. room = 0 /\ Reserved = InputSize
        BY <2>1 DEF ReservesInput, Reserved
      <3>2. DMalloc(Ends(0, 0), InputSize, dir).mem = Ends(0 + InputSize, 0)
        BY <1>1, NearAllocated DEF L2BufferSize
      <3> QED
        BY <1>1, <2>1, <3>1, <3>2 DEF InputSize
    <2>2. CASE ~ReservesInput
      BY <1>1, <2>2 DEF Reserved
    <2> QED
      BY <2>1, <2>2
  <1>3. output.at = FarEnd(OutputSize) /\ output.mem = Ends(Reserved, OutputSize)
    BY <1>1, <1>2, FarAllocated DEF OutputSize, L2BufferSize
  <1>4. /\ weights.at = NearEnd(Size("weights", layer), Reserved)
        /\ weights.mem = Ends(Reserved + Size("weights", layer), OutputSize)
    <2>1. Reserved \in Nat /\ Reserved + OutputSize + Size("weights", layer) < L2BufferSize
      BY <1>1, <1>2 DEF L2BufferSize
    <2>2. weights = DMalloc(Ends(Reserved, OutputSize), Size("weights", layer), dir)
      BY <1>3
    <2> HIDE DEF weights
    <2> QED
      BY <1>1, <2>1, <2>2, NearAllocated
  <1>5. mem' = Ends(Reserved + WeightsSize, OutputSize)
    <2>1. mem' = IF HasWeights(layer) THEN weights.mem ELSE output.mem
      BY DEF ForkLayer
    <2> QED
      BY <1>1, <1>2, <1>3, <1>4, <2>1 DEF WeightsSize
  <1>6. L2' = [input   |-> IF layer # 0 THEN L2.input
                           ELSE IF placement = "start" THEN 0 ELSE Frame,
               output  |-> output.at,
               weights |-> IF HasWeights(layer) THEN weights.at ELSE L2.weights]
    BY DEF ForkLayer
  <1>7. L2.input' = IF Reserved = 0 THEN Frame ELSE NearEnd(InputSize, 0)
    <2>1. CASE layer # 0
      BY <1>1, <1>6, <2>1 DEF EndsSwap, ForkLayer, Reserved
    <2>2. CASE layer = 0 /\ placement = "start"
      <3>1. dir = 1
        BY <2>2 DEF EndsSwap, ForkLayer
      <3> QED
        BY <1>1, <1>6, <2>2, <3>1 DEF Reserved, ReservesInput, NearEnd
    <2>3. CASE layer = 0 /\ placement # "start"
      BY <1>1, <1>6, <2>3 DEF Reserved, ReservesInput
    <2> QED
      BY <2>1, <2>2, <2>3
  <1>8. L2.output' = FarEnd(OutputSize)
    BY <1>3, <1>6
  <1>9. HasWeights(layer) => L2.weights' = NearEnd(WeightsSize, Reserved)
    BY <1>4, <1>6 DEF WeightsSize
  <1>10. /\ phase = "alloc" /\ phase' = "layer"
         /\ UNCHANGED <<layer, dir, placement, inputDone>>
    BY DEF ForkLayer
  <1>11. /\ Ends(Reserved + WeightsSize, OutputSize) \in [begin : Int, end : Int]
         /\ NearEnd(InputSize, 0) \in Int /\ FarEnd(OutputSize) \in Int
         /\ NearEnd(Size("weights", layer), Reserved) \in Int
    BY <1>1, <1>2 DEF Ends, NearEnd, FarEnd, L2BufferSize
  <1>12. L2' \in [input : Int, output : Int, weights : Int]
    <2>1. /\ (IF layer # 0 THEN L2.input ELSE IF placement = "start" THEN 0 ELSE Frame) \in Int
          /\ output.at \in Int
          /\ (IF HasWeights(layer) THEN weights.at ELSE L2.weights) \in Int
      BY <1>3, <1>4, <1>11, FrameOutside
    <2> HIDE DEF output, weights
    <2> QED
      BY <1>6, <2>1
  <1>13. NetworkTypes'
    BY <1>5, <1>10, <1>11, <1>12
  <1> HIDE DEF room, input, output, weights
  <1>14. EndsSwap'
    BY <1>5, <1>7, <1>8, <1>9, <1>10
    DEF EndsSwap, Reserved, ReservesInput, InputSize, OutputSize, WeightsSize, Ends, NearEnd, FarEnd
  <1> QED
    BY <1>13, <1>14

LEMMA FreeLayerSwaps ==
  ASSUME NetworkTypes, EndsSwap, FreeLayer
  PROVE  NetworkTypes' /\ EndsSwap'
PROOF
  <1> DEFINE weights == IF HasWeights(layer) THEN DFree(mem, Size("weights", layer), dir) ELSE mem
             freed == IF layer # 0 \/ ReservesInput
                      THEN DFree(weights, Size("activations", layer), dir) ELSE weights
  <1> USE DEF NetworkTypes
  <1>1. /\ layer \in 0 .. 8 /\ dir \in {0, 1}
        /\ mem = Ends(Reserved + WeightsSize, OutputSize)
        /\ InputSize \in Nat /\ OutputSize \in Nat /\ WeightsSize \in Nat /\ Reserved \in Nat
        /\ L2.output = FarEnd(OutputSize)
        /\ dir = 1 <=> layer \in {0, 2, 4, 6, 8}
        /\ inputDone <=> layer # 0
    BY SizeFacts DEF EndsSwap, FreeLayer, InputSize, OutputSize, WeightsSize, Reserved
  <1>2. weights = Ends(Reserved, OutputSize)
    BY <1>1, NearFreed DEF WeightsSize
  <1>3. freed = Ends(0, OutputSize)
    BY <1>1, <1>2, NearFreed DEF Reserved, InputSize
  <1>4. mem' = freed /\ inputDone' = (inputDone \/ layer = 0)
    BY DEF FreeLayer
  <1> HIDE DEF weights, freed
  <1>5. /\ L2' = [L2 EXCEPT !.input = L2.output] /\ dir' = 1 - dir /\ placement' = placement
        /\ \/ layer < 8 /\ layer' = layer + 1 /\ phase' = "alloc"
           \/ layer' = layer /\ phase' = "finish"
    BY DEF FreeLayer, HandOver
  <1>6. Ends(0, OutputSize) \in [begin : Int, end : Int]
    BY <1>1 DEF Ends, L2BufferSize
  <1>7. NetworkTypes'
    BY <1>1, <1>3, <1>4, <1>5, <1>6
  <1>8. ASSUME phase' = "alloc" PROVE EndsSwap'
    <2>1. layer < 8 /\ layer' = layer + 1 /\ layer' # 0
      BY <1>1, <1>5, <1>8
    <2>2. InputSize' = OutputSize
      BY <1>1, <2>1, SizeFacts DEF InputSize, OutputSize, Size
    <2>3. dir' = 1 <=> layer' \in {0, 2, 4, 6, 8}
      BY <1>1, <1>5, <2>1
    <2>4. mem' = Ends(InputSize, 0)'
      BY <1>1, <1>3, <1>4, <1>5, <2>2 DEF Ends, L2BufferSize
    <2>5. L2.input' = NearEnd(InputSize, 0)'
      BY <1>1, <1>5, <2>2 DEF NearEnd, FarEnd, L2BufferSize
    <2>6. inputDone' <=> layer' # 0
      BY <1>1, <1>4, <2>1
    <2> QED
      BY <1>8, <2>1, <2>3, <2>4, <2>5, <2>6 DEF EndsSwap
  <1>9. ASSUME phase' = "finish" PROVE EndsSwap'
    BY <1>9 DEF EndsSwap
  <1> HIDE DEF NetworkTypes
  <1> QED
    BY <1>5, <1>7, <1>8, <1>9
------------------------------------------------------------------------------
(* The copies of core 0 *)

LEMMA TileTypes ==
  ASSUME NetworkTypes
  PROVE  /\ L.kind \in {"conv", "pool", "linear"} /\ L.dim.n \in Nat \ {0}
         /\ L.kind = "linear" => L.dim.n = 1
         /\ First \in Tile /\ NoTile \notin Tile /\ NoTile.nif = 1
         /\ \A t \in Tile : NextTile(t) \in Tile /\ NextTile(t).n \in {t.n, t.n + 1}
PROOF
  <1>1. /\ L.kind \in {"conv", "pool", "linear"} /\ L.dim.n \in Nat \ {0}
        /\ L.dim.h \in Nat /\ L.dim.w \in Nat /\ (L.kind = "linear" => L.dim.n = 1)
    BY LayerFacts DEF NetworkTypes, L
  <1>2. First \in Tile /\ NoTile \notin Tile /\ NoTile.nif = 1
    BY DEF First, NoTile, Tile
  <1>3. ASSUME NEW t \in Tile
        PROVE  NextTile(t) \in Tile /\ NextTile(t).n \in {t.n, t.n + 1}
    <2>1. /\ 0 \in Nat /\ t.n \in Nat /\ t.h \in Nat /\ t.w \in Nat
          /\ t.n + 1 \in Nat /\ t.h + 1 \in Nat /\ t.w + 1 \in Nat
      BY <1>3 DEF Tile
    <2>2. ASSUME NEW a \in Tile, NEW v \in Nat
          PROVE  /\ [a EXCEPT !.w = v] \in Tile /\ [a EXCEPT !.w = v].n = a.n
                 /\ [a EXCEPT !.h = v] \in Tile /\ [a EXCEPT !.h = v].n = a.n
                 /\ [a EXCEPT !.n = v] \in Tile /\ [a EXCEPT !.n = v].n = v
      BY <2>2 DEF Tile
    <2>3. \/ NextTile(t) = [t EXCEPT !.w = t.w + 1]
          \/ NextTile(t) = [[t EXCEPT !.w = 0] EXCEPT !.h = t.h + 1]
          \/ NextTile(t) = [[[t EXCEPT !.w = 0] EXCEPT !.h = 0] EXCEPT !.n = t.n + 1]
      BY DEF NextTile
    <2> DEFINE t0 == [t EXCEPT !.w = 0]
               t1 == [t0 EXCEPT !.h = 0]
    <2>4. [t EXCEPT !.w = t.w + 1] \in Tile /\ [t EXCEPT !.w = t.w + 1].n = t.n
      BY <2>1, <2>2, Zenon
    <2>5. t0 \in Tile /\ t0.n = t.n
      BY <2>1, <2>2
    <2> HIDE DEF t0
    <2>6. [t0 EXCEPT !.h = t.h + 1] \in Tile /\ [t0 EXCEPT !.h = t.h + 1].n = t.n
      BY <2>1, <2>2, <2>5, Zenon
    <2>7. t1 \in Tile /\ t1.n = t.n
      BY <2>1, <2>2, <2>5
    <2> HIDE DEF t1
    <2>8. [t1 EXCEPT !.n = t.n + 1] \in Tile /\ [t1 EXCEPT !.n = t.n + 1].n = t.n + 1
      BY <2>1, <2>2, <2>7, Zenon
    <2>9. \/ NextTile(t) = [t EXCEPT !.w = t.w + 1]
          \/ NextTile(t) = [t0 EXCEPT !.h = t.h + 1]
          \/ NextTile(t) = [t1 EXCEPT !.n = t.n + 1]
      BY <2>3 DEF t0, t1
    <2> QED
      BY <2>4, <2>6, <2>8, <2>9
  <1> QED
    BY <1>1, <1>2, <1>3

Distinct(s) == \A i, j \in 1 .. Len(s) : s[i] = s[j] => i = j
Members(s) == {s[i] : i \in 1 .. Len(s)}

LEMMA ConcatDistinct ==
  ASSUME NEW S, NEW s \in Seq(S), NEW t \in Seq(S), Distinct(s), Distinct(t),
         Members(s) \cap Members(t) = {}
  PROVE  /\ s \o t \in Seq(S) /\ Distinct(s \o t)
         /\ Members(s \o t) = Members(s) \cup Members(t)
PROOF
  <1> DEFINE u == s \o t
  <1>1. /\ u \in Seq(S) /\ Len(u) = Len(s) + Len(t)
        /\ Len(s) \in Nat /\ Len(t) \in Nat
        /\ \A i \in 1 .. Len(s) : u[i] = s[i]
        /\ \A i \in 1 .. Len(t) : u[Len(s) + i] = t[i]
    OBVIOUS
  <1> HIDE DEF u
  <1>2. \A i \in 1 .. Len(u) : i \in 1 .. Len(s) \/ (i - Len(s) \in 1 .. Len(t) /\ u[i] = t[i - Len(s)])
    <2> TAKE i \in 1 .. Len(u)
    <2>1. CASE i <= Len(s)
      BY <1>1, <2>1
    <2>2. CASE i > Len(s)
      <3>1. i - Len(s) \in 1 .. Len(t) /\ Len(s) + (i - Len(s)) = i
        BY <1>1, <2>2
      <3> QED
        BY <1>1, <3>1
    <2> QED
      BY <1>1, <2>1, <2>2
  <1>3. \A i \in 1 .. Len(s) : s[i] \in Members(s)
    BY DEF Members
  <1>4. \A i \in 1 .. Len(t) : t[i] \in Members(t)
    BY DEF Members
  <1>5. Distinct(u)
    <2> SUFFICES ASSUME NEW i \in 1 .. Len(u), NEW j \in 1 .. Len(u), u[i] = u[j]
                 PROVE  i = j
      BY DEF Distinct
    <2>1. CASE i \in 1 .. Len(s) /\ j \in 1 .. Len(s)
      BY <1>1, <2>1 DEF Distinct
    <2>2. CASE i \notin 1 .. Len(s) /\ j \notin 1 .. Len(s)
      <3>1. i - Len(s) = j - Len(s)
        BY <1>2, <2>2 DEF Distinct
      <3> QED
        BY <1>1, <3>1
    <2>3. CASE i \in 1 .. Len(s) /\ j \notin 1 .. Len(s)
      BY <1>1, <1>2, <1>3, <1>4, <2>3
    <2>4. CASE i \notin 1 .. Len(s) /\ j \in 1 .. Len(s)
      BY <1>1, <1>2, <1>3, <1>4, <2>4
    <2> QED
      BY <2>1, <2>2, <2>3, <2>4
  <1>6. Members(u) \subseteq Members(s) \cup Members(t)
    <2>1. \A i \in 1 .. Len(u) : u[i] \in Members(s) \cup Members(t)
      BY <1>1, <1>2, <1>3, <1>4
    <2> QED
      BY <2>1 DEF Members
  <1>7. Members(s) \subseteq Members(u)
    <2>1. \A i \in 1 .. Len(s) : i \in 1 .. Len(u)
      BY <1>1
    <2> QED
      BY <1>1, <2>1 DEF Members
  <1>8. Members(t) \subseteq Members(u)
    <2>1. \A i \in 1 .. Len(t) : Len(s) + i \in 1 .. Len(u)
      BY <1>1
    <2> QED
      BY <1>1, <2>1 DEF Members
  <1> QED
    BY <1>1, <1>5, <1>6, <1>7, <1>8 DEF u

\* What is copied before each barrier, each region once
LEMMA CopiesKnown ==
  ASSUME NetworkTypes, NEW at \in {"begin", "load", "store"},
         NEW t \in Tile, NEW e \in Tile \cup {NoTile}
  PROVE  /\ Copies(at, t, e) \in Seq(Regions \cup {"y"})
         /\ Distinct(Copies(at, t, e))
         /\ at = "store" => Members(Copies(at, t, e)) = {"y"}
         /\ at = "begin" => Members(Copies(at, t, e)) = IF L.kind = "linear" THEN {"k"} ELSE {}
         /\ at = "load" => /\ Members(Copies(at, t, e)) \subseteq Needed
                           /\ \A r \in Needed \ Members(Copies(at, t, e)) :
                                /\ e # NoTile
                                /\ IF r = "x" THEN t.h = e.h /\ t.w = e.w ELSE t.n = e.n
PROOF
  <1> DEFINE s == Copies(at, t, e)
             R == Regions \cup {"y"}
  <1>1. /\ L.kind \in {"conv", "pool", "linear"}
        /\ t.nif = 0 /\ (e = NoTile => e.nif = 1) /\ (e # NoTile => e.nif = 0)
    BY TileTypes DEF Tile
  <1>2. \A a : Distinct(<<a>>) /\ Members(<<a>>) = {a}
    BY DEF Distinct, Members
  <1>3. <<>> \in Seq(R) /\ Distinct(<<>>) /\ Members(<<>>) = {}
    BY DEF Distinct, Members
  <1>4. CASE at = "store"
    <2>1. s = <<"y">> /\ <<"y">> \in Seq(R)
      BY <1>4 DEF Copies
    <2> QED
      BY <1>2, <1>4, <2>1
  <1>5. CASE at = "begin"
    <2>1. s = IF L.kind = "linear" THEN <<"k">> ELSE <<>>
      BY <1>5 DEF Copies
    <2>2. <<"k">> \in Seq(R)
      BY DEF Regions
    <2> QED
      BY <1>2, <1>3, <1>5, <2>1, <2>2
  <1>6. CASE at = "load" /\ L.kind = "pool"
    <2>1. s = <<"x">> /\ <<"x">> \in Seq(R) /\ Needed = {"x"}
      BY <1>6 DEF Copies, Regions, Needed
    <2> QED
      BY <1>2, <1>6, <2>1
  <1>7. CASE at = "load" /\ L.kind # "pool"
    <2> DEFINE p == IF ReloadsInput(t, e) THEN <<"x">> ELSE <<>>
               q == IF ~ReloadsWeights(t, e) THEN <<>>
                    ELSE IF L.kind = "linear" THEN <<"W">> ELSE <<"W", "k", "lambda">>
    <2>1. s = p \o q
      BY <1>7 DEF Copies
    <2>2. /\ p \in Seq(R) /\ Distinct(p)
          /\ Members(p) = IF ReloadsInput(t, e) THEN {"x"} ELSE {}
      <3>1. <<"x">> \in Seq(R)
        BY DEF Regions
      <3> QED
        BY <1>2, <1>3, <3>1
    <2>3. /\ q \in Seq(R) /\ Distinct(q)
          /\ Members(q) = IF ReloadsWeights(t, e) THEN Needed \ {"x"} ELSE {}
      <3> DEFINE w == <<"W", "k", "lambda">>
      <3>1. <<"W">> \in Seq(R) /\ w \in Seq(R)
        BY DEF Regions
      <3>2. Len(w) = 3 /\ w[1] = "W" /\ w[2] = "k" /\ w[3] = "lambda"
        OBVIOUS
      <3> HIDE DEF w
      <3>3. \A i \in 1 .. 3 : i = 1 \/ i = 2 \/ i = 3
        OBVIOUS
      <3>4. Distinct(w)
        BY <3>2, <3>3 DEF Distinct
      <3>5. Members(w) = {"W", "k", "lambda"}
        BY <3>2, <3>3 DEF Members
      <3>6. Needed \ {"x"} = IF L.kind = "linear" THEN {"W"} ELSE {"W", "k", "lambda"}
        BY <1>1, <1>7 DEF Needed, Regions
      <3>7. q = IF ~ReloadsWeights(t, e) THEN <<>> ELSE IF L.kind = "linear" THEN <<"W">> ELSE w
        BY DEF w
      <3> HIDE DEF q
      <3> QED
        BY <1>2, <1>3, <3>1, <3>4, <3>5, <3>6, <3>7
    <2> HIDE DEF p, q
    <2>4. /\ s \in Seq(R) /\ Distinct(s) /\ Members(s) = Members(p) \cup Members(q)
      <3>1. Members(p) \cap Members(q) = {}
        BY <2>2, <2>3
      <3> QED
        BY <2>1, <2>2, <2>3, <3>1, ConcatDistinct
    <2>5. "x" \in Needed
      BY <1>1 DEF Needed, Regions
    <2>6. ~ReloadsInput(t, e) => e # NoTile /\ t.h = e.h /\ t.w = e.w
      BY <1>1 DEF ReloadsInput
    <2>7. ~ReloadsWeights(t, e) => e # NoTile /\ t.n = e.n
      BY <1>1 DEF ReloadsWeights
    <2> HIDE DEF s
    <2>8. Members(s) \subseteq Needed
      BY <2>2, <2>3, <2>4, <2>5
    <2>9. ASSUME NEW r \in Needed \ Members(s)
          PROVE  e # NoTile /\ IF r = "x" THEN t.h = e.h /\ t.w = e.w ELSE t.n = e.n
      BY <2>2, <2>3, <2>4, <2>6, <2>7, <2>9
    <2> QED
      BY <1>7, <2>4, <2>8, <2>9 DEF s
  <1> QED
    BY <1>4, <1>5, <1>6, <1>7
------------------------------------------------------------------------------
(* Each step of the cluster keeps its invariant. *)

LEMMA ZeroIsCore == 0 \in Cores
  BY CoresAssumption

\* Between two layers, whatever network_run_cluster does
LEMMA IdleKeeps ==
  ASSUME ClusterInv, \A c \in Cores : pc[c] = "end", UNCHANGED cluster
  PROVE  ClusterInv'
PROOF
  <1>1. ClusterTypes'
    BY DEF ClusterInv, ClusterTypes, cluster
  <1>2. /\ \A c \in Cores : pc'[c] = "end"
        /\ pc[0] = "end" /\ pc'[0] = "end"
        /\ dma' = dma /\ pushed' = pushed
    BY ZeroIsCore DEF cluster
  <1>3. Together'
    BY <1>2 DEF Together, Stage
  <1>4. OneTile'
    BY <1>2 DEF OneTile
  <1>5. CopiesInOrder'
    BY <1>2 DEF ClusterInv, CopiesInOrder
  <1>6. TileInL1'
    BY <1>2 DEF TileInL1
  <1>7. WorkRecorded'
    BY <1>2 DEF WorkRecorded
  <1> QED
    BY <1>1, <1>3, <1>4, <1>5, <1>6, <1>7 DEF ClusterInv

LEMMA ForkLayerKeeps ==
  ASSUME NetworkTypes, ClusterInv, ForkLayer
  PROVE  ClusterInv'
PROOF
  <1> DEFINE at == IF L.kind = "pool" THEN "load" ELSE "begin"
  <1>1. /\ \A c \in Cores : pc'[c] = at /\ load'[c] = First /\ exec'[c] = NoTile
        /\ pc' = [c \in Cores |-> at]
        /\ load' = [c \in Cores |-> First] /\ exec' = [c \in Cores |-> NoTile]
        /\ pushed' = 0 /\ l1' = EmptyL1 /\ written' = {} /\ stored' = {} /\ dma' = dma
        /\ layer' = layer /\ phase' = "layer"
    BY DEF ForkLayer, L
  <1>2. dma = {}
    <2>1. pc[0] = "end"
      BY ZeroIsCore DEF ForkLayer, ClusterInv, Together
    <2> QED
      BY <2>1 DEF ClusterInv, CopiesInOrder
  <1>3. ClusterTypes'
    BY <1>1, <1>2, TileTypes DEF ClusterTypes, Place, EmptyL1
  <1>4. L' = L
    BY <1>1 DEF L
  <1>5. Together'
    BY <1>1, <1>4, ZeroIsCore DEF Together, Stage
  <1>6. OneTile'
    <2>1. First.n < L.dim.n
      BY TileTypes DEF First
    <2> QED
      BY <1>1, <1>4, <2>1, ZeroIsCore DEF OneTile, Current
  <1>7. CopiesInOrder'
    <2>1. pc'[0] = at /\ load'[0] = First /\ exec'[0] = NoTile
      BY <1>1, ZeroIsCore
    <2>2. Copies(at, First, NoTile) \in Seq(Regions \cup {"y"})
      BY CopiesKnown, TileTypes
    <2> HIDE DEF at
    <2>3. Pending(0)' = Copies(at, First, NoTile)
      BY <1>4, <2>1 DEF Pending, Copies, ReloadsInput, ReloadsWeights
    <2>4. Len(Pending(0)') \in Nat
      BY <2>2, <2>3
    <2> QED
      BY <1>1, <1>2, <2>4 DEF CopiesInOrder
  <1>8. TileInL1'
    <2>1. Copied' = {}
      BY <1>1 DEF Copied
    <2> QED
      BY <1>1, <1>4, <2>1, ZeroIsCore DEF TileInL1
  <1>9. WorkRecorded'
    BY <1>1, <1>4 DEF WorkRecorded
  <1> QED
    BY <1>3, <1>5, <1>6, <1>7, <1>8, <1>9 DEF ClusterInv

\* What a step that leaves pc, the tiles and the layer alone leaves true
LEMMA StayingKeeps ==
  ASSUME ClusterInv, UNCHANGED <<network, pc, load, exec, written>>, l1'.pooled = l1.pooled
  PROVE  /\ Together' /\ OneTile' /\ WorkRecorded'
         /\ Pending(0)' = Pending(0) /\ Needed' = Needed
PROOF
  <1>1. L' = L /\ phase' = phase
    BY DEF network, L
  <1>2. Together'
    BY <1>1 DEF ClusterInv, Together, Stage
  <1>3. OneTile'
    BY <1>1 DEF ClusterInv, OneTile, Current, NextTile
  <1>4. WorkRecorded'
    BY <1>1 DEF ClusterInv, WorkRecorded, Current
  <1>5. Pending(0)' = Pending(0) /\ Needed' = Needed
    BY <1>1 DEF Pending, Copies, Needed
  <1> QED
    BY <1>2, <1>3, <1>4, <1>5

LEMMA PendingKnown ==
  ASSUME NetworkTypes, ClusterInv, pc[0] \in {"begin", "load", "store"}
  PROVE  /\ Pending(0) \in Seq(Regions \cup {"y"}) /\ Distinct(Pending(0))
         /\ pc[0] = "store" => Members(Pending(0)) = {"y"}
         /\ pc[0] = "begin" => Members(Pending(0)) = IF L.kind = "linear" THEN {"k"} ELSE {}
         /\ pc[0] = "load" => /\ Members(Pending(0)) \subseteq Needed
                              /\ \A r \in Needed \ Members(Pending(0)) :
                                   /\ exec[0] # NoTile
                                   /\ IF r = "x" THEN load[0].h = exec[0].h /\ load[0].w = exec[0].w
                                                 ELSE load[0].n = exec[0].n
PROOF
  <1>1. load[0] \in Tile /\ exec[0] \in Tile \cup {NoTile}
    BY ZeroIsCore DEF ClusterInv, ClusterTypes
  <1> DEFINE at == pc[0]
             t == load[0]
             e == exec[0]
  <1>2. Pending(0) = Copies(at, t, e)
    BY DEF Pending
  <1>3. at \in {"begin", "load", "store"} /\ t \in Tile /\ e \in Tile \cup {NoTile}
    BY <1>1
  <1> SUFFICES
        /\ Copies(at, t, e) \in Seq(Regions \cup {"y"})
        /\ Distinct(Copies(at, t, e))
        /\ at = "store" => Members(Copies(at, t, e)) = {"y"}
        /\ at = "begin" => Members(Copies(at, t, e)) = IF L.kind = "linear" THEN {"k"} ELSE {}
        /\ at = "load" => /\ Members(Copies(at, t, e)) \subseteq Needed
                          /\ \A r \in Needed \ Members(Copies(at, t, e)) :
                               /\ e # NoTile
                               /\ IF r = "x" THEN t.h = e.h /\ t.w = e.w ELSE t.n = e.n
    BY <1>2
  <1> HIDE DEF at, t, e
  <1> QED
    BY <1>3, CopiesKnown

LEMMA PushKeeps ==
  ASSUME NetworkTypes, ClusterInv, NEW c \in Cores, Push(c)
  PROVE  ClusterInv'
PROOF
  <1>1. /\ pc[0] \in {"begin", "load", "store"} /\ dma = {}
        /\ pushed \in Nat /\ pushed < Len(Pending(0))
        /\ dma' = {[what |-> Pending(0)[pushed + 1], tile |-> load[0]]} /\ pushed' = pushed + 1
        /\ UNCHANGED <<network, pc, load, exec, l1, written, stored>>
    BY DEF Push, ClusterInv, ClusterTypes
  <1>2. /\ Pending(0) \in Seq(Regions \cup {"y"}) /\ Distinct(Pending(0))
        /\ Len(Pending(0)) \in Nat
    BY <1>1, PendingKnown
  <1>3. /\ Together' /\ OneTile' /\ WorkRecorded'
        /\ Pending(0)' = Pending(0) /\ Needed' = Needed
    BY <1>1, StayingKeeps
  <1> DEFINE P == Pending(0)
  <1> HIDE DEF P
  <1>4. P[pushed + 1] \in Regions \cup {"y"} /\ load[0] \in Tile
    BY <1>1, <1>2, ZeroIsCore DEF P, ClusterInv, ClusterTypes
  <1>5. ClusterTypes'
    <2>1. dma' \subseteq [what : Regions \cup {"y"}, tile : Tile]
      BY <1>1, <1>4 DEF P
    <2> QED
      BY <1>1, <2>1 DEF ClusterInv, ClusterTypes
  <1>6. CopiesInOrder'
    <2>1. pushed + 1 <= Len(Pending(0)) /\ pushed + 1 > 0
      BY <1>1, <1>2
    <2> QED
      BY <1>1, <1>3, <2>1 DEF CopiesInOrder
  <1>7. Copied' = Copied
    <2>1. Copied = {P[i] : i \in 1 .. pushed}
      BY <1>1 DEF Copied, P
    <2>2. Copied' = {P[i] : i \in 1 .. pushed + 1} \ {P[pushed + 1]}
      <3>1. {d.what : d \in dma'} = {P[pushed + 1]}
        BY <1>1 DEF P
      <3> QED
        BY <1>1, <1>3, <3>1 DEF Copied, P
    <2>3. \A i \in 1 .. pushed : i \in 1 .. pushed + 1 /\ P[i] # P[pushed + 1]
      BY <1>1, <1>2 DEF P, Distinct
    <2>4. \A i \in 1 .. pushed + 1 : i \in 1 .. pushed \/ i = pushed + 1
      BY <1>1
    <2> QED
      BY <2>1, <2>2, <2>3, <2>4
  <1>8. TileInL1'
    <2>1. \A r, t : Holds(r, t)' = Holds(r, t)
      BY <1>1 DEF Holds
    <2>2. L' = L
      BY <1>1 DEF network, L
    <2> QED
      BY <1>1, <1>3, <1>7, <2>2 DEF ClusterInv, TileInL1, Holds, Current
  <1> QED
    BY <1>3, <1>5, <1>6, <1>8 DEF ClusterInv

LEMMA TransferDoneKeeps ==
  ASSUME NetworkTypes, ClusterInv, TransferDone
  PROVE  ClusterInv'
PROOF
  <1> DEFINE P == Pending(0)
  <1>1. PICK d \in dma :
          /\ d.what = "y" => stored' = stored \cup {d.tile} /\ UNCHANGED l1
          /\ d.what # "y" => l1' = [l1 EXCEPT ![d.what] = {d.tile}] /\ UNCHANGED stored
    BY DEF TransferDone
  <1>2. dma' = {} /\ UNCHANGED <<network, pc, load, exec, pushed, written>>
    BY DEF TransferDone
  <1> DEFINE what == d.what
  <1>3. /\ pc[0] \in {"begin", "load", "store"}
        /\ pushed > 0 /\ pushed <= Len(P) /\ pushed \in Nat
        /\ dma = {[what |-> P[pushed], tile |-> load[0]]}
        /\ d = [what |-> P[pushed], tile |-> load[0]]
        /\ what = P[pushed] /\ d.tile = load[0]
    BY <1>1 DEF ClusterInv, CopiesInOrder, ClusterTypes
  <1>4. /\ P \in Seq(Regions \cup {"y"}) /\ Distinct(P)
        /\ pc[0] = "store" => Members(P) = {"y"}
        /\ pc[0] = "begin" => Members(P) \subseteq {"k"}
        /\ pc[0] = "load" => Members(P) \subseteq Needed
        /\ Len(P) \in Nat
    BY <1>3, PendingKnown
  <1>5. /\ pushed \in 1 .. Len(P) /\ what \in Members(P) /\ what \in Regions \cup {"y"}
        /\ load[0] \in Tile
    BY <1>3, <1>4, ZeroIsCore DEF Members, ClusterInv, ClusterTypes
  <1>6. /\ what = "y" <=> pc[0] = "store"
        /\ pc[0] = "load" => what \in Needed
        /\ pc[0] = "begin" => what = "k"
    BY <1>3, <1>4, <1>5 DEF Needed, Regions
  <1>7. ASSUME what # "y"
        PROVE  /\ what \in Regions /\ l1'.pooled = l1.pooled /\ l1'[what] = {load[0]}
               /\ \A r \in Regions \ {what} : l1'[r] = l1[r]
               /\ l1' \in [x : SUBSET Tile, W : SUBSET Tile, k : SUBSET Tile,
                           lambda : SUBSET Tile, pooled : SUBSET (Cores \X Tile)]
    <2>1. l1' = [l1 EXCEPT ![what] = {load[0]}] /\ what \in Regions
      BY <1>1, <1>3, <1>5, <1>7
    <2>2. l1 \in [x : SUBSET Tile, W : SUBSET Tile, k : SUBSET Tile,
                  lambda : SUBSET Tile, pooled : SUBSET (Cores \X Tile)]
      BY DEF ClusterInv, ClusterTypes
    <2> HIDE DEF what
    <2>3. {load[0]} \subseteq Tile
      BY <1>5
    <2>4. CASE what = "x"
      BY <2>1, <2>2, <2>3, <2>4 DEF Regions
    <2>5. CASE what = "W"
      BY <2>1, <2>2, <2>3, <2>5 DEF Regions
    <2>6. CASE what = "k"
      BY <2>1, <2>2, <2>3, <2>6 DEF Regions
    <2>7. CASE what = "lambda"
      BY <2>1, <2>2, <2>3, <2>7 DEF Regions
    <2> QED
      BY <2>1, <2>4, <2>5, <2>6, <2>7 DEF Regions
  <1>8. what = "y" => l1' = l1 /\ stored' = stored \cup {load[0]}
    BY <1>1, <1>3
  <1>9. /\ Together' /\ OneTile' /\ WorkRecorded'
        /\ Pending(0)' = Pending(0) /\ Needed' = Needed
    <2>1. l1'.pooled = l1.pooled
      BY <1>7, <1>8
    <2> QED
      BY <1>2, <2>1, StayingKeeps
  <1>10. ClusterTypes'
    <2>1. stored' \subseteq Tile
      BY <1>1, <1>5 DEF ClusterInv, ClusterTypes
    <2>2. l1' \in [x : SUBSET Tile, W : SUBSET Tile, k : SUBSET Tile,
                   lambda : SUBSET Tile, pooled : SUBSET (Cores \X Tile)]
      BY <1>7, <1>8 DEF ClusterInv, ClusterTypes
    <2> QED
      BY <1>2, <2>1, <2>2 DEF ClusterInv, ClusterTypes
  <1>11. CopiesInOrder'
    BY <1>2, <1>9 DEF ClusterInv, CopiesInOrder
  <1>12. Copied' = Copied \cup {what}
    <2>1. Copied' = {P[i] : i \in 1 .. pushed}
      BY <1>2, <1>9 DEF Copied
    <2>2. Copied = {P[i] : i \in 1 .. pushed} \ {what}
      <3>1. {x.what : x \in dma} = {what}
        BY <1>3
      <3> QED
        BY <3>1 DEF Copied
    <2>3. what \in {P[i] : i \in 1 .. pushed}
      BY <1>3
    <2> QED
      BY <2>1, <2>2, <2>3
  <1> HIDE DEF what, P
  <1>13. ASSUME NEW r \in Regions, NEW t, Holds(r, t), r # what \/ what = "y"
         PROVE  Holds(r, t)'
    <2>1. l1'[r] = l1[r]
      BY <1>7, <1>8, <1>13
    <2> QED
      BY <1>13, <2>1 DEF Holds
  <1>14. what # "y" => Holds(what, load[0])'
    <2> SUFFICES ASSUME what # "y"
                 PROVE  Holds(what, load[0])'
      OBVIOUS
    <2>1. load[0] \in l1'[what] /\ load' = load
      BY <1>2, <1>7
    <2> QED
      BY <2>1 DEF Holds
  <1>15. TileInL1'
    <2>1. L' = L
      BY <1>2 DEF network, L
    <2>2. Needed \subseteq Regions /\ "k" \in Regions /\ Current(0)' = Current(0)
      BY <1>2 DEF Needed, Regions, Current
    <2>3. ASSUME pc[0] \in {"begin", "load"}, NEW r \in Copied'
          PROVE  Holds(r, load[0])'
      <3>1. CASE r = what
        <4>1. what # "y"
          BY <1>6, <2>3
        <4> QED
          BY <1>14, <3>1, <4>1
      <3>2. CASE r # what
        <4>1. r \in Copied /\ Holds(r, load[0])
          BY <1>12, <2>3, <3>2 DEF ClusterInv, TileInL1
        <4>2. r \in Regions
          <5>1. Copied \subseteq Members(P)
            BY <1>3, <1>4 DEF Copied, Members, P
          <5> QED
            BY <1>4, <2>2, <2>3, <4>1, <5>1
        <4> QED
          BY <1>2, <1>13, <3>2, <4>1, <4>2
      <3> QED
        BY <3>1, <3>2
    <2>4. ASSUME pc[0] = "load", exec[0] # NoTile, NEW r \in Needed \ Copied'
          PROVE  Holds(r, exec[0])'
      <3>1. r \in Needed \ Copied /\ r # what /\ Holds(r, exec[0])
        BY <1>12, <2>4 DEF ClusterInv, TileInL1
      <3> QED
        BY <1>2, <1>13, <2>2, <3>1
    <2>5. ASSUME pc[0] \notin {"begin", "begun", "load", "end"}, NEW r \in Needed
          PROVE  Holds(r, Current(0))'
      <3>1. what = "y" /\ Holds(r, Current(0))
        BY <1>3, <1>6, <2>5 DEF ClusterInv, TileInL1
      <3> QED
        BY <1>13, <2>2, <3>1
    <2>6. ASSUME L.kind = "linear", pc[0] \notin {"begin", "end"}
          PROVE  Holds("k", First)'
      <3>1. Holds("k", First) /\ what # "k"
        BY <1>3, <1>6, <2>6 DEF ClusterInv, TileInL1, Needed, Regions
      <3> QED
        BY <1>13, <2>2, <3>1
    <2> QED
      BY <1>2, <1>9, <2>1, <2>3, <2>4, <2>5, <2>6 DEF TileInL1
  <1> QED
    BY <1>9, <1>10, <1>11, <1>15 DEF ClusterInv

\* Arriving and computing do not take a core to another stage.
LEMMA ArriveKeeps ==
  ASSUME NetworkTypes, ClusterInv, NEW c \in Cores, Arrive(c)
  PROVE  ClusterInv'
PROOF
  <1> DEFINE to == CASE pc[c] = "begin" -> "begun" [] pc[c] = "load" -> "loaded"
                     [] pc[c] = "store" -> "stored"
  <1>1. /\ pc[c] \in {"begin", "load", "store"} /\ Waited(c)
        /\ pc' = [pc EXCEPT ![c] = to]
        /\ pushed' = IF c = 0 THEN 0 ELSE pushed
        /\ UNCHANGED <<network, dma, l1, written, stored>>
    BY DEF Arrive
  <1>2. /\ pc \in [Cores -> Place] /\ load \in [Cores -> Tile]
        /\ exec \in [Cores -> Tile \cup {NoTile}]
    BY DEF ClusterInv, ClusterTypes
  <1>3. /\ pc[c] = "begin" => to = "begun"
        /\ pc[c] = "load" => to = "loaded"
        /\ pc[c] = "store" => to = "stored"
    OBVIOUS
  <1>4. L' = L /\ phase' = phase
    BY <1>1 DEF network, L
  <1>5. /\ \A b \in Cores :
             /\ pc'[b] = IF b = c THEN to ELSE pc[b]
             /\ load'[b] = IF b = c /\ pc[c] = "store" THEN NextTile(load[c]) ELSE load[b]
             /\ exec'[b] = IF b = c /\ pc[c] = "store" THEN load[c] ELSE exec[b]
        /\ pc' \in [Cores -> Place] /\ load' \in [Cores -> Tile]
        /\ exec' \in [Cores -> Tile \cup {NoTile}]
    <2>1. to \in Place /\ load[c] \in Tile /\ NextTile(load[c]) \in Tile
      BY <1>1, <1>2, <1>3, TileTypes DEF Place
    <2>2. CASE pc[c] = "store"
      <3>1. exec' = [exec EXCEPT ![c] = load[c]] /\ load' = [load EXCEPT ![c] = NextTile(load[c])]
        BY <2>2 DEF Arrive
      <3> HIDE DEF to
      <3> QED
        BY <1>1, <1>2, <2>1, <2>2, <3>1
    <2>3. CASE pc[c] # "store"
      <3>1. exec' = exec /\ load' = load
        BY <2>3 DEF Arrive
      <3> HIDE DEF to
      <3> QED
        BY <1>1, <1>2, <2>1, <2>3, <3>1
    <2> QED
      BY <2>2, <2>3
  <1> HIDE DEF to
  <1>6. ClusterTypes'
    <2>1. pushed' \in Nat
      BY <1>1 DEF ClusterInv, ClusterTypes
    <2> QED
      BY <1>1, <1>5, <2>1 DEF ClusterInv, ClusterTypes
  <1>7. ASSUME NEW b \in Cores
        PROVE  /\ Stage(pc[b])' = Stage(pc[b])
               /\ pc'[b] \in {"kernel", "halfway", "second", "computed", "end"} => pc'[b] = pc[b]
               /\ pc'[b] \in {"begin", "begun"} => pc[b] \in {"begin", "begun"}
    BY <1>1, <1>3, <1>4, <1>5 DEF Stage
  <1>8. Together'
    <2>1. phase' # "layer" => \A b \in Cores : pc'[b] = "end"
      BY <1>1, <1>4, <1>5 DEF ClusterInv, Together
    <2>2. \A b \in Cores : Stage(pc[b])' = Stage(pc[0])'
      BY <1>7, ZeroIsCore DEF ClusterInv, Together
    <2>3. \A b \in Cores : L.kind = "pool" => pc'[b] \notin {"begin", "begun"}
      BY <1>7 DEF ClusterInv, Together
    <2>4. \A b \in Cores : L.kind # "pool" => pc'[b] \notin {"halfway", "second"}
      BY <1>7 DEF ClusterInv, Together
    <2> QED
      BY <1>4, <2>1, <2>2, <2>3, <2>4 DEF Together
  <1>9. \A b \in Cores : Current(b)' = Current(b)
    BY <1>1, <1>3, <1>5 DEF Current
  <1>10. OneTile'
    <2> SUFFICES ASSUME NEW b \in Cores
                 PROVE  /\ pc'[b] # "end" => /\ Current(b)' = Current(0)'
                                            /\ Current(b)'.n < L.dim.n
                        /\ pc'[b] = "stored" => load'[b] = NextTile(exec[b])'
                        /\ pc'[b] \in {"begin", "begun"} => load'[b] = First /\ exec'[b] = NoTile
      BY <1>4 DEF OneTile
    <2>1. pc'[b] # "end" => pc[b] # "end"
      BY <1>1, <1>5
    <2>2. pc'[b] # "end" => Current(b)' = Current(0)' /\ Current(b)'.n < L.dim.n
      BY <1>9, <2>1, ZeroIsCore DEF ClusterInv, OneTile
    <2>3. pc'[b] = "stored" => load'[b] = NextTile(exec'[b])
      BY <1>1, <1>3, <1>5 DEF ClusterInv, OneTile
    <2>4. NextTile(exec[b])' = NextTile(exec'[b])
      BY <1>4 DEF NextTile
    <2>5. pc'[b] \in {"begin", "begun"} => load'[b] = First /\ exec'[b] = NoTile
      BY <1>1, <1>3, <1>5 DEF ClusterInv, OneTile
    <2> QED
      BY <2>2, <2>3, <2>4, <2>5
  <1>11. CopiesInOrder'
    <2>1. CASE c = 0
      <3>1. dma' = {} /\ pushed' = 0 /\ pc'[0] \notin {"begin", "load", "store"}
        BY <1>1, <1>3, <1>5, <2>1 DEF Waited
      <3> QED
        BY <3>1 DEF CopiesInOrder
    <2>2. CASE c # 0
      <3>1. pc'[0] = pc[0] /\ load'[0] = load[0] /\ exec'[0] = exec[0] /\ pushed' = pushed
        BY <1>1, <1>5, <2>2, ZeroIsCore
      <3>2. Pending(0)' = Pending(0)
        BY <1>4, <3>1 DEF Pending, Copies, ReloadsInput, ReloadsWeights
      <3> QED
        BY <1>1, <3>1, <3>2 DEF ClusterInv, CopiesInOrder
    <2> QED
      BY <2>1, <2>2
  <1>12. TileInL1'
    <2>1. Needed' = Needed /\ Current(0)' = Current(0)
      BY <1>4, <1>9, ZeroIsCore DEF Needed
    <2>2. \A r, t : Holds(r, t)' <=> Holds(r, t)
      BY <1>1 DEF Holds
    <2>3. CASE c # 0
      <3>1. pc'[0] = pc[0] /\ load'[0] = load[0] /\ exec'[0] = exec[0] /\ pushed' = pushed
        BY <1>1, <1>5, <2>3, ZeroIsCore
      <3>2. Pending(0)' = Pending(0)
        BY <1>4, <3>1 DEF Pending, Copies, ReloadsInput, ReloadsWeights
      <3>3. Copied' = Copied
        BY <1>1, <3>1, <3>2 DEF Copied
      <3> QED
        BY <1>1, <1>4, <2>1, <3>1, <3>3 DEF ClusterInv, TileInL1, Holds
    <2>4. CASE c = 0
      <3> DEFINE P == Pending(0)
      <3>1. /\ pc[0] \in {"begin", "load", "store"} /\ dma = {} /\ pushed = Len(P)
            /\ pc'[0] \in {"begun", "loaded", "stored"}
            /\ pc[0] = "begin" => pc'[0] = "begun"
            /\ pc[0] = "load" => pc'[0] = "loaded"
            /\ pc[0] = "store" => pc'[0] = "stored"
        BY <1>1, <1>3, <1>5, <2>4 DEF Waited
      <3>2. Copied = Members(P)
        BY <3>1 DEF Copied, Members
      <3>3. pc[0] = "load" => \A r \in Needed : Holds(r, load[0])
        <4> SUFFICES ASSUME pc[0] = "load", NEW r \in Needed
                     PROVE  Holds(r, load[0])
          OBVIOUS
        <4>1. CASE r \in Members(P)
          BY <3>2, <4>1 DEF ClusterInv, TileInL1
        <4>2. CASE r \notin Members(P)
          <5>1. /\ exec[0] # NoTile /\ Holds(r, exec[0])
                /\ IF r = "x" THEN load[0].h = exec[0].h /\ load[0].w = exec[0].w
                              ELSE load[0].n = exec[0].n
            BY <3>1, <3>2, <4>2, PendingKnown DEF ClusterInv, TileInL1
          <5> QED
            BY <5>1 DEF Holds
        <4> QED
          BY <4>1, <4>2
      <3>4. pc[0] \in {"load", "store"} => \A r \in Needed : Holds(r, Current(0))
        BY <3>1, <3>3 DEF ClusterInv, TileInL1, Current
      <3>5. L.kind = "linear" => Holds("k", First)
        <4>1. CASE pc[0] = "begin" /\ L.kind = "linear"
          <5>1. "k" \in Copied /\ load[0] = First
            BY <3>2, <4>1, PendingKnown, ZeroIsCore DEF ClusterInv, OneTile
          <5> QED
            BY <4>1, <5>1 DEF ClusterInv, TileInL1
        <4>2. CASE pc[0] # "begin" /\ L.kind = "linear"
          BY <3>1, <4>2 DEF ClusterInv, TileInL1
        <4> QED
          BY <4>1, <4>2
      <3>6. pc'[0] \in {"loaded", "stored"} => pc[0] \in {"load", "store"}
        BY <3>1
      <3>7. /\ \A r \in Needed : Holds(r, Current(0))' <=> Holds(r, Current(0))
            /\ Holds("k", First)' <=> Holds("k", First)
        BY <1>1, <2>1 DEF Holds
      <3> QED
        BY <1>4, <2>1, <3>1, <3>4, <3>5, <3>6, <3>7 DEF TileInL1
    <2> QED
      BY <2>3, <2>4
  <1>13. WorkRecorded'
    <2> SUFFICES ASSUME NEW b \in Cores
                 PROVE  /\ pc'[b] \in {"computed", "store", "stored"} =>
                             <<b, Current(b)'>> \in written'
                        /\ L.kind = "pool" /\ pc'[b] \in {"halfway", "second", "computed"} =>
                             <<b, load'[b]>> \in l1'.pooled
      BY <1>4 DEF WorkRecorded
    <2>1. pc'[b] \in {"computed", "store", "stored"} => pc[b] \in {"computed", "store", "stored"}
      BY <1>1, <1>3, <1>5
    <2>2. pc'[b] \in {"halfway", "second", "computed"} => pc[b] = pc'[b] /\ load'[b] = load[b]
      BY <1>1, <1>3, <1>5
    <2> QED
      BY <1>1, <1>9, <2>1, <2>2 DEF ClusterInv, WorkRecorded
  <1> QED
    BY <1>6, <1>8, <1>10, <1>11, <1>12, <1>13 DEF ClusterInv

LEMMA KernelKeeps ==
  ASSUME NetworkTypes, ClusterInv, NEW c \in Cores, Kernel(c)
  PROVE  ClusterInv'
PROOF
  <1> DEFINE Computing == {"kernel", "halfway", "second", "computed"}
             share == <<c, load[c]>>
  <1>1. UNCHANGED <<network, load, exec, pushed, dma, stored>>
    BY DEF Kernel
  <1>2. PICK to \in {"halfway", "computed"} :
          /\ pc' = [pc EXCEPT ![c] = to]
          /\ to = "halfway" => /\ pc[c] = "kernel" /\ L.kind = "pool" /\ written' = written
                               /\ l1' = [l1 EXCEPT !.pooled = @ \cup {share}]
          /\ to = "computed" => /\ pc[c] = "second" \/ (pc[c] = "kernel" /\ L.kind # "pool")
                                /\ written' = written \cup {share} /\ l1' = l1
    BY DEF Kernel
  <1>3. /\ pc \in [Cores -> Place] /\ load \in [Cores -> Tile]
        /\ l1 \in [x : SUBSET Tile, W : SUBSET Tile, k : SUBSET Tile,
                   lambda : SUBSET Tile, pooled : SUBSET (Cores \X Tile)]
    BY DEF ClusterInv, ClusterTypes
  <1>4. L' = L /\ phase' = phase
    BY <1>1 DEF network, L
  <1>5. /\ pc[c] \in {"kernel", "second"} /\ pc' \in [Cores -> Place]
        /\ \A b \in Cores : pc'[b] = IF b = c THEN to ELSE pc[b]
    BY <1>2, <1>3 DEF Place
  <1>6. share \in Cores \X Tile
    BY <1>3
  <1> HIDE DEF share
  <1>7. /\ l1' \in [x : SUBSET Tile, W : SUBSET Tile, k : SUBSET Tile,
                    lambda : SUBSET Tile, pooled : SUBSET (Cores \X Tile)]
        /\ \A r \in Regions : l1'[r] = l1[r]
        /\ l1.pooled \subseteq l1'.pooled /\ (to = "halfway" => share \in l1'.pooled)
        /\ written \subseteq written' /\ (to = "computed" => share \in written')
    <2>1. CASE to = "halfway"
      <3>1. l1.pooled \cup {share} \subseteq Cores \X Tile
        BY <1>3, <1>6
      <3> QED
        BY <1>2, <1>3, <2>1, <3>1 DEF Regions
    <2>2. CASE to = "computed"
      BY <1>2, <1>3, <2>2
    <2> QED
      BY <2>1, <2>2
  <1>8. ClusterTypes'
    <2>1. written' \subseteq Cores \X Tile
      BY <1>2, <1>6 DEF ClusterInv, ClusterTypes
    <2> QED
      BY <1>1, <1>5, <1>7, <2>1 DEF ClusterInv, ClusterTypes
  <1>9. ASSUME NEW b \in Cores
        PROVE  /\ Stage(pc[b])' = Stage(pc[b]) /\ pc[b] \in Computing /\ pc'[b] \in Computing
               /\ L.kind # "pool" => pc'[b] \notin {"halfway", "second"}
    <2>1. Stage(pc[b]) = Stage(pc[c])
      BY ZeroIsCore DEF ClusterInv, Together
    <2>2. Stage(pc[c]) \in {"kernel", "second"} /\ (pc[c] = "second" => L.kind = "pool")
      BY <1>5 DEF Stage, ClusterInv, Together
    <2>3. pc[b] \in Computing
      BY <1>3, <2>1, <2>2 DEF Stage, Place
    <2>4. L.kind # "pool" => pc[b] \notin {"halfway", "second"}
      BY DEF ClusterInv, Together
    <2>5. CASE b = c
      BY <1>2, <1>4, <1>5, <2>2, <2>5 DEF Stage
    <2>6. CASE b # c
      BY <1>4, <1>5, <2>3, <2>4, <2>6 DEF Stage
    <2> QED
      BY <2>3, <2>5, <2>6
  <1>10. Together'
    <2>1. phase' = "layer"
      BY <1>4, <1>5 DEF ClusterInv, Together
    <2>2. \A b \in Cores : Stage(pc[b])' = Stage(pc[0])'
      BY <1>9, ZeroIsCore DEF ClusterInv, Together
    <2> QED
      BY <1>4, <1>9, <2>1, <2>2 DEF Together
  <1>11. \A b \in Cores : Current(b)' = load[b] /\ Current(b) = load[b]
    BY <1>1, <1>9 DEF Current
  <1>12. OneTile'
    <2>1. \A b \in Cores : load[b] = load[0] /\ load[b].n < L.dim.n
      BY <1>9, <1>11, ZeroIsCore DEF ClusterInv, OneTile
    <2> QED
      BY <1>4, <1>9, <1>11, <2>1, ZeroIsCore DEF OneTile
  <1>13. /\ pc[0] \in Computing /\ pc'[0] \in Computing
         /\ Current(0)' = load[0] /\ Current(0) = load[0]
    BY <1>9, <1>11, ZeroIsCore
  <1>14. CopiesInOrder'
    BY <1>1, <1>13 DEF ClusterInv, CopiesInOrder
  <1>15. TileInL1'
    <2>1. Needed' = Needed /\ Needed \subseteq Regions /\ "k" \in Regions
      BY <1>4 DEF Needed, Regions
    <2>2. ASSUME NEW r \in Regions, NEW t
          PROVE  Holds(r, t)' <=> Holds(r, t)
      BY <1>7 DEF Holds
    <2>3. /\ \A r \in Needed : Holds(r, load[0])'
          /\ L.kind = "linear" => Holds("k", First)'
      <3>1. \A r \in Needed : Holds(r, load[0])
        BY <1>13 DEF ClusterInv, TileInL1
      <3>2. L.kind = "linear" => Holds("k", First)
        BY <1>13 DEF ClusterInv, TileInL1
      <3>3. \A r \in Needed : Holds(r, load[0])'
        BY <1>1, <2>1, <2>2, <3>1
      <3>4. L.kind = "linear" => Holds("k", First)'
        BY <2>1, <2>2, <3>2
      <3> QED
        BY <3>3, <3>4
    <2>4. \A r \in Needed : Holds(r, Current(0))'
      BY <1>1, <1>13, <2>3 DEF Holds
    <2> QED
      BY <1>4, <1>13, <2>1, <2>3, <2>4 DEF TileInL1
  <1>16. WorkRecorded'
    <2> SUFFICES ASSUME NEW b \in Cores
                 PROVE  /\ pc'[b] = "computed" => <<b, load[b]>> \in written'
                        /\ L.kind = "pool" /\ pc'[b] \in {"halfway", "second", "computed"} =>
                             <<b, load[b]>> \in l1'.pooled
      BY <1>1, <1>4, <1>9, <1>11 DEF WorkRecorded
    <2>1. CASE b = c
      BY <1>2, <1>5, <1>7, <2>1 DEF share, ClusterInv, WorkRecorded
    <2>2. CASE b # c
      BY <1>5, <1>7, <1>11, <2>2 DEF ClusterInv, WorkRecorded
    <2> QED
      BY <2>1, <2>2
  <1> QED
    BY <1>8, <1>10, <1>12, <1>14, <1>15, <1>16 DEF ClusterInv

\* All the cores stand at the same barrier, with the same indexes, and go on alike.
LEMMA BarrierReleasesKeeps ==
  ASSUME NetworkTypes, ClusterInv, BarrierReleases
  PROVE  ClusterInv'
PROOF
  <1> DEFINE Points == {"begun", "loaded", "halfway", "computed", "stored"}
             at == pc[0]
             to == Beyond(0)
  <1>1. /\ \A b \in Cores : pc[b] \in Points
        /\ pc' = [b \in Cores |-> Beyond(b)]
        /\ UNCHANGED <<network, load, exec, pushed, dma, l1, written, stored>>
    BY DEF BarrierReleases
  <1>2. /\ L' = L /\ phase' = phase
        /\ load \in [Cores -> Tile] /\ exec \in [Cores -> Tile \cup {NoTile}]
    BY <1>1 DEF network, L, ClusterInv, ClusterTypes
  <1>3. /\ at \in Points /\ dma = {} /\ pushed = 0 /\ phase = "layer"
        /\ L.kind # "pool" => at # "halfway"
    BY <1>1, ZeroIsCore DEF ClusterInv, CopiesInOrder, Together
  <1>4. ASSUME NEW b \in Cores
        PROVE  pc[b] = at
    <2>1. Stage(pc[b]) = Stage(at) /\ pc[b] \in Points
      BY <1>1 DEF ClusterInv, Together
    <2>2. L.kind # "pool" => pc[b] # "halfway"
      BY DEF ClusterInv, Together
    <2> QED
      BY <1>3, <2>1, <2>2 DEF Stage
  <1>5. ASSUME NEW b \in Cores
        PROVE  /\ load[b] = load[0] /\ (at # "stored" => load[b].n < L.dim.n)
               /\ at = "begun" => load[b] = First /\ exec[b] = NoTile
    <2>1. Current(b) = Current(0) /\ Current(b).n < L.dim.n
      BY <1>3, <1>4 DEF ClusterInv, OneTile
    <2>2. at = "begun" => load[b] = First /\ exec[b] = NoTile
      BY <1>4 DEF ClusterInv, OneTile
    <2>3. at = "stored" => load[b] = NextTile(exec[b]) /\ load[0] = NextTile(exec[0])
      BY <1>4, ZeroIsCore DEF ClusterInv, OneTile
    <2> QED
      BY <1>4, <2>1, <2>2, <2>3 DEF Current
  <1>6. at = "stored" => exec[0] \in Tile /\ (load[0].n # L.dim.n => load[0].n < L.dim.n)
    <2>1. SUFFICES ASSUME at = "stored"
                   PROVE  exec[0] \in Tile /\ (load[0].n # L.dim.n => load[0].n < L.dim.n)
      OBVIOUS
    <2>2. exec[0].n < L.dim.n /\ load[0] = NextTile(exec[0])
      BY <2>1, ZeroIsCore DEF ClusterInv, OneTile, Current
    <2>3. /\ NoTile.n = 1 /\ L.dim.n \in Nat /\ exec[0] \in Tile \cup {NoTile}
          /\ L.kind = "linear" => L.dim.n = 1
      BY <1>2, TileTypes, ZeroIsCore DEF NoTile
    <2>4. exec[0] \in Tile
      <3>1. NextTile(NoTile).nif = 1
        BY DEF NextTile, NoTile
      <3>2. load[0].nif = 0
        BY <1>2, ZeroIsCore DEF Tile
      <3> QED
        BY <2>2, <2>3, <3>1, <3>2
    <2>5. exec[0].n \in Nat /\ load[0].n \in {exec[0].n, exec[0].n + 1}
      BY <2>2, <2>4, TileTypes DEF Tile
    <2> QED
      BY <2>2, <2>3, <2>4, <2>5
  <1> HIDE DEF at
  <1>7. /\ to \in {"load", "kernel", "second", "store", "end"}
        /\ to = "load" => at \in {"begun", "stored"}
        /\ to = "kernel" => at = "loaded"
        /\ to = "second" => at = "halfway"
        /\ to = "store" => at = "computed"
        /\ to # "end" => load[0].n < L.dim.n
    <2>1. CASE at = "stored"
      BY <1>6, <2>1 DEF Beyond, at
    <2>2. CASE at # "stored"
      BY <1>3, <1>5, <2>2, ZeroIsCore DEF Beyond, at
    <2> QED
      BY <2>1, <2>2
  <1>8. \A b \in Cores : Beyond(b) = to
    BY <1>4, <1>5, ZeroIsCore DEF Beyond
  <1> HIDE DEF to
  <1>9. /\ pc' \in [Cores -> Place]
        /\ \A b \in Cores : pc'[b] = to
        /\ pc'[0] = to
    BY <1>1, <1>7, <1>8, ZeroIsCore DEF Place
  <1>10. ClusterTypes'
    BY <1>1, <1>9 DEF ClusterInv, ClusterTypes
  <1>11. Together'
    <2>1. L.kind # "pool" => to # "second"
      BY <1>3, <1>7
    <2> QED
      BY <1>2, <1>3, <1>7, <1>9, <2>1 DEF Together, Stage
  <1>12. \A b \in Cores : Current(b)' = load[0]
    BY <1>1, <1>5, <1>7, <1>9 DEF Current
  <1>13. OneTile'
    BY <1>2, <1>7, <1>9, <1>12, ZeroIsCore DEF OneTile
  <1>14. CopiesInOrder'
    <2>1. ASSUME to \in {"load", "store"}
          PROVE  0 <= Len(Pending(0)')
      <3>1. load[0] \in Tile /\ exec[0] \in Tile \cup {NoTile}
        BY <1>2, ZeroIsCore
      <3> DEFINE t == load[0]
                 e == exec[0]
      <3>2. Pending(0)' = Copies(to, t, e)
        BY <1>1, <1>2, <1>9 DEF Pending, Copies, ReloadsInput, ReloadsWeights
      <3> HIDE DEF t, e
      <3>3. Copies(to, t, e) \in Seq(Regions \cup {"y"})
        BY <2>1, <3>1, CopiesKnown DEF t, e
      <3> QED
        BY <3>2, <3>3
    <2> QED
      BY <1>1, <1>3, <1>7, <1>9, <2>1 DEF CopiesInOrder
  <1>15. TileInL1'
    <2>1. /\ Needed' = Needed /\ Copied' = {} /\ load' = load /\ exec' = exec
          /\ Current(0)' = load[0] /\ l1' = l1
      BY <1>1, <1>2, <1>3, <1>12, ZeroIsCore DEF Needed, Copied
    <2>2. to = "load" /\ exec[0] # NoTile => \A r \in Needed : Holds(r, exec[0])'
      BY <1>5, <1>7, <2>1, ZeroIsCore DEF ClusterInv, TileInL1, Current, Holds, at
    <2>3. to \in {"kernel", "second", "store"} => \A r \in Needed : Holds(r, load[0])'
      BY <1>7, <2>1 DEF ClusterInv, TileInL1, Current, Holds, at
    <2>4. L.kind = "linear" => Holds("k", First)'
      BY <1>3, <2>1 DEF ClusterInv, TileInL1, Holds, at
    <2>5. to \in {"kernel", "second", "store"} => \A r \in Needed : Holds(r, Current(0))'
      BY <2>1, <2>3 DEF Holds
    <2> QED
      BY <1>2, <1>7, <1>9, <2>1, <2>2, <2>4, <2>5 DEF TileInL1
  <1>16. WorkRecorded'
    <2>1. ASSUME NEW b \in Cores
          PROVE  /\ to = "store" => <<b, load[0]>> \in written
                 /\ L.kind = "pool" /\ to = "second" => <<b, load[0]>> \in l1.pooled
      BY <1>4, <1>5, <1>7 DEF ClusterInv, WorkRecorded, Current
    <2> QED
      BY <1>1, <1>2, <1>5, <1>7, <1>9, <1>12, <2>1 DEF WorkRecorded
  <1> QED
    BY <1>10, <1>11, <1>13, <1>14, <1>15, <1>16 DEF ClusterInv
------------------------------------------------------------------------------
(* The inductive invariant *)

LEMMA NetworkInvInit == Init => NetworkInv
PROOF
  <1> SUFFICES ASSUME Init
               PROVE  NetworkInv
    OBVIOUS
  <1>1. NetworkTypes
    <2>1. /\ phase = "idle" /\ layer = 0 /\ dir = 1 /\ placement \in {"outside", "start"}
          /\ inputDone = FALSE /\ mem = [begin |-> 0, end |-> L2BufferSize]
          /\ L2 = [input |-> Null, output |-> Null, weights |-> Null]
      BY PlacementsAssumption DEF Init
    <2>2. Null \in Int /\ L2BufferSize \in Int
      BY DEF Null, L2BufferSize
    <2>3. mem \in [begin : Int, end : Int] /\ L2 \in [input : Int, output : Int, weights : Int]
      BY <2>1, <2>2
    <2>4. inputDone \in BOOLEAN
      BY <2>1, Zenon
    <2> QED
      BY <2>1, <2>3, <2>4 DEF NetworkTypes
  <1>2. phase = "idle" /\ EndsSwap
    BY DEF Init, EndsSwap
  <1>3. \A c \in Cores : pc[c] = "end"
    BY DEF Init
  <1>4. ClusterTypes
    <2>1. First \in Tile
      BY <1>1, TileTypes
    <2> QED
      BY <2>1 DEF Init, ClusterTypes, Place, EmptyL1
  <1>5. Together /\ OneTile /\ CopiesInOrder /\ TileInL1 /\ WorkRecorded
    <2>1. pc[0] = "end"
      BY <1>3, ZeroIsCore
    <2> QED
      BY <1>2, <1>3, <2>1
      DEF Init, Together, Stage, OneTile, CopiesInOrder, TileInL1, WorkRecorded
  <1> QED
    BY <1>1, <1>2, <1>4, <1>5 DEF NetworkInv, ClusterInv

LEMMA NetworkInvStep == NetworkInv /\ [Next]_vars => NetworkInv'
PROOF
  <1> SUFFICES ASSUME NetworkInv, [Next]_vars
               PROVE  NetworkInv'
    OBVIOUS
  <1>1. NetworkTypes /\ EndsSwap /\ ClusterInv
    BY DEF NetworkInv
  <1>2. ASSUME UNCHANGED network
        PROVE  NetworkTypes' /\ EndsSwap'
    BY <1>1, <1>2 DEF network, NetworkTypes, EndsSwap, Ends, NearEnd, FarEnd, InputSize,
                      OutputSize, WeightsSize, Reserved, ReservesInput
  <1>3. phase # "layer" => \A c \in Cores : pc[c] = "end"
    BY <1>1 DEF ClusterInv, Together
  <1>4. CASE RunAsync
    <2>1. NetworkTypes'
      <3>1. /\ phase' = "alloc" /\ layer' = 0 /\ dir' = 1 /\ placement' \in {"outside", "start"}
            /\ inputDone' = FALSE /\ mem' = [begin |-> 0, end |-> L2BufferSize]
            /\ L2' = [input |-> Null, output |-> Null, weights |-> Null]
        BY <1>4, PlacementsAssumption DEF RunAsync
      <3>2. Null \in Int /\ L2BufferSize \in Int
        BY DEF Null, L2BufferSize
      <3>3. /\ mem' \in [begin : Int, end : Int]
            /\ L2' \in [input : Int, output : Int, weights : Int]
        BY <3>1, <3>2
      <3>4. inputDone' \in BOOLEAN
        BY <3>1, Zenon
      <3> QED
        BY <3>1, <3>3, <3>4 DEF NetworkTypes
    <2>2. EndsSwap'
      BY <1>4 DEF RunAsync, EndsSwap, Ends, L2BufferSize
    <2>3. ClusterInv'
      BY <1>1, <1>3, <1>4, IdleKeeps DEF RunAsync
    <2> QED
      BY <2>1, <2>2, <2>3 DEF NetworkInv
  <1>5. CASE ForkLayer
    BY <1>1, <1>5, ForkLayerPlaces, ForkLayerKeeps DEF NetworkInv
  <1>6. CASE FreeLayer
    <2>1. ClusterInv'
      BY <1>1, <1>6, IdleKeeps DEF FreeLayer
    <2> QED
      BY <1>1, <1>6, <2>1, FreeLayerSwaps DEF NetworkInv
  <1>7. CASE Finish
    <2>1. NetworkTypes' /\ EndsSwap'
      BY <1>1, <1>7 DEF Finish, NetworkTypes, EndsSwap
    <2>2. ClusterInv'
      BY <1>1, <1>3, <1>7, IdleKeeps DEF Finish
    <2> QED
      BY <2>1, <2>2 DEF NetworkInv
  <1>8. ASSUME NEW c \in Cores, Push(c) \/ Arrive(c) \/ Kernel(c)
        PROVE  NetworkInv'
    <2>1. UNCHANGED network
      BY <1>8 DEF Push, Arrive, Kernel
    <2>2. ClusterInv'
      BY <1>1, <1>8, PushKeeps, ArriveKeeps, KernelKeeps
    <2> QED
      BY <1>2, <2>1, <2>2 DEF NetworkInv
  <1>9. CASE TransferDone
    <2>1. UNCHANGED network
      BY <1>9 DEF TransferDone
    <2> QED
      BY <1>1, <1>2, <1>9, <2>1, TransferDoneKeeps DEF NetworkInv
  <1>10. CASE BarrierReleases
    <2>1. UNCHANGED network
      BY <1>10 DEF BarrierReleases
    <2> QED
      BY <1>1, <1>2, <1>10, <2>1, BarrierReleasesKeeps DEF NetworkInv
  <1>11. CASE UNCHANGED vars
    <2>1. UNCHANGED network /\ UNCHANGED <<network, pc, load, exec, written, stored, dma, pushed>>
          /\ l1' = l1
      BY <1>11 DEF vars, cluster
    <2>2. /\ Together' /\ OneTile' /\ WorkRecorded'
          /\ Pending(0)' = Pending(0) /\ Needed' = Needed
      BY <1>1, <2>1, StayingKeeps
    <2>3. ClusterTypes' /\ CopiesInOrder'
      BY <1>1, <2>1, <2>2 DEF ClusterInv, ClusterTypes, CopiesInOrder
    <2>4. TileInL1'
      <3>1. Copied' = Copied
        BY <2>1, <2>2 DEF Copied
      <3>2. L' = L
        BY <2>1 DEF network, L
      <3> QED
        BY <1>1, <2>1, <2>2, <3>1, <3>2 DEF ClusterInv, TileInL1, Holds, Current
    <2> QED
      BY <1>2, <2>1, <2>2, <2>3, <2>4 DEF NetworkInv, ClusterInv
  <1> QED
    BY <1>4, <1>5, <1>6, <1>7, <1>8, <1>9, <1>10, <1>11 DEF Next, CoreStep

\* The inductive invariant of network_run_cluster and of the layers it forks: dir
\* alternates with the layers, so that each finds its input at the end it will free;
\* and between two pi_cl_team_barrier the cores are in one stage, at one tile.
THEOREM NetworkInvariant == Spec => []NetworkInv
PROOF
  <1>1. NetworkInv /\ [Next]_vars => NetworkInv'
    BY NetworkInvStep
  <1> QED
    BY <1>1, NetworkInvInit, PTL DEF Spec
------------------------------------------------------------------------------
(* What follows *)

\* dmalloc never fails, and what a running layer reads and writes in L2 - its input,
\* its output and its weights - does not overlap and is within the buffer.
THEOREM LayersApart == Spec => []BuffersApart
PROOF
  <1>1. NetworkInv => BuffersApart
    <2> SUFFICES ASSUME NetworkInv, phase = "layer"
                 PROVE  /\ L2.output >= 0 /\ L2.output + OutputSize <= L2BufferSize
                        /\ Apart(L2.input, InputSize, L2.output, OutputSize)
                        /\ L2.input # Frame => L2.input >= 0 /\ L2.input + InputSize <= L2BufferSize
                        /\ HasWeights(layer) =>
                             /\ L2.weights >= 0 /\ L2.weights + WeightsSize <= L2BufferSize
                             /\ Apart(L2.weights, WeightsSize, L2.input, InputSize)
                             /\ Apart(L2.weights, WeightsSize, L2.output, OutputSize)
      BY DEF BuffersApart, InputSize, OutputSize, WeightsSize
    <2>1. /\ layer \in 0 .. 8 /\ dir \in {0, 1}
          /\ L2.input = IF Reserved = 0 THEN Frame ELSE NearEnd(InputSize, 0)
          /\ L2.output = FarEnd(OutputSize)
          /\ HasWeights(layer) => L2.weights = NearEnd(WeightsSize, Reserved)
      BY DEF NetworkInv, NetworkTypes, EndsSwap
    <2>2. /\ InputSize \in Nat \ {0} /\ OutputSize \in Nat /\ WeightsSize \in Nat
          /\ InputSize + OutputSize + WeightsSize < L2BufferSize /\ L2BufferSize \in Nat
      BY <2>1, SizeFacts DEF InputSize, OutputSize, WeightsSize, L2BufferSize
    <2>3. /\ Reserved \in {0, InputSize}
          /\ Reserved = 0 => layer = 0
      BY <2>2 DEF Reserved
    <2>4. /\ Frame \in Int /\ Frame < 0
          /\ layer = 0 => Frame + InputSize = 0
      BY <2>1, FrameOutside, SizeFacts DEF InputSize
    <2> HIDE DEF Reserved
    <2>5. CASE Reserved = 0
      BY <2>1, <2>2, <2>3, <2>4, <2>5 DEF Apart, NearEnd, FarEnd
    <2>6. CASE Reserved = InputSize
      BY <2>1, <2>2, <2>3, <2>4, <2>6 DEF Apart, NearEnd, FarEnd
    <2> QED
      BY <2>3, <2>5, <2>6
  <1> QED
    BY <1>1, NetworkInvariant, PTL

\* The barriers of layerN's loop are enough: a core that computes finds its tile, its
\* weights and, in the second pass of the pooling, every core's rows; and core 0 copies
\* a result out only when every core has computed its share.
THEOREM CoresOnTheirTile == Spec => []ComputesOnItsTile
PROOF
  <1>1. ASSUME NetworkInv
        PROVE  ComputesOnItsTile
    <2>1. /\ NetworkTypes /\ ClusterTypes /\ Together /\ OneTile /\ CopiesInOrder
          /\ TileInL1 /\ WorkRecorded /\ ClusterInv
      BY <1>1 DEF NetworkInv, ClusterInv
    <2>2. ASSUME NEW c \in Cores, pc[c] \in {"kernel", "second"}
          PROVE  /\ dma = {}
                 /\ \E t \in l1.x : t.h = load[c].h /\ t.w = load[c].w
                 /\ L.kind # "pool" => \E t \in l1.W : t.n = load[c].n
                 /\ L.kind # "pool" => \E t \in l1.k : t.n = load[c].n
                 /\ L.kind = "conv" => \E t \in l1.lambda : t.n = load[c].n
                 /\ pc[c] = "second" => \A d \in Cores : <<d, load[c]>> \in l1.pooled
      <3>1. /\ Stage(pc[c]) = Stage(pc[0]) /\ \A d \in Cores : Stage(pc[d]) = Stage(pc[c])
            /\ pc[c] = "second" => L.kind = "pool"
        BY <2>1, <2>2, ZeroIsCore DEF Together
      <3>2. ASSUME NEW d \in Cores
            PROVE  /\ pc[d] \in {"kernel", "halfway", "second", "computed"}
                   /\ pc[c] = "second" => pc[d] \in {"second", "computed"}
        BY <2>1, <2>2, <3>1, <3>2 DEF Stage, ClusterTypes, Place
      <3>3. /\ dma = {} /\ \A r \in Needed : Holds(r, Current(0))
            /\ L.kind = "linear" => Holds("k", First)
            /\ Current(0) = load[0]
        BY <2>1, <3>2, ZeroIsCore DEF CopiesInOrder, TileInL1, Current
      <3>4. ASSUME NEW d \in Cores
            PROVE  load[d] = load[0] /\ load[d].n < L.dim.n
        <4>1. Current(d) = load[d] /\ Current(d) = Current(0) /\ Current(d).n < L.dim.n
          BY <2>1, <3>2 DEF OneTile, Current
        <4> QED
          BY <3>3, <4>1
      <3>5. /\ "x" \in Needed /\ (L.kind # "pool" => "W" \in Needed)
            /\ L.kind = "conv" => "k" \in Needed /\ "lambda" \in Needed
        BY DEF Needed, Regions
      <3>6. L.kind = "linear" => load[c].n = First.n
        BY <2>1, <3>4, TileTypes DEF ClusterTypes, Tile, First
      <3>7. \E t \in l1.x : t.h = load[c].h /\ t.w = load[c].w
        BY <3>3, <3>4, <3>5 DEF Holds
      <3>8. L.kind # "pool" => \E t \in l1.W : t.n = load[c].n
        BY <3>3, <3>4, <3>5 DEF Holds
      <3>9. L.kind = "conv" => /\ \E t \in l1.k : t.n = load[c].n
                               /\ \E t \in l1.lambda : t.n = load[c].n
        BY <3>3, <3>4, <3>5 DEF Holds
      <3>10. L.kind = "linear" => \E t \in l1.k : t.n = load[c].n
        BY <3>3, <3>6 DEF Holds
      <3>11. pc[c] = "second" => \A d \in Cores : <<d, load[c]>> \in l1.pooled
        BY <2>1, <3>1, <3>2, <3>4 DEF WorkRecorded
      <3> QED
        BY <2>1, <3>3, <3>7, <3>8, <3>9, <3>10, <3>11, TileTypes
    <2>3. ASSUME NEW d \in dma, d.what = "y", NEW c \in Cores
          PROVE  <<c, d.tile>> \in written
      <3>1. pc[0] \in {"begin", "load", "store"} /\ pushed \in 1 .. Len(Pending(0))
            /\ d = [what |-> Pending(0)[pushed], tile |-> load[0]]
        BY <2>1, <2>3 DEF CopiesInOrder, ClusterTypes
      <3>2. "y" \in Members(Pending(0))
        BY <2>3, <3>1 DEF Members
      <3>3. pc[0] = "store"
        BY <2>1, <3>1, <3>2, PendingKnown DEF Needed, Regions
      <3>4. Stage(pc[c]) = "store"
        BY <2>1, <3>3 DEF Together, Stage
      <3>5. pc[c] \in {"store", "stored"}
        BY <2>1, <3>4 DEF Stage, ClusterTypes, Place
      <3>6. Current(c) = Current(0) /\ Current(0) = load[0] /\ <<c, Current(c)>> \in written
        BY <2>1, <3>3, <3>5 DEF OneTile, WorkRecorded, Current
      <3> QED
        BY <3>1, <3>6
    <2> QED
      BY <2>2, <2>3 DEF ComputesOnItsTile
  <1> QED
    BY <1>1, NetworkInvariant, PTL

\* The frame outside the buffer is read by the first layer only, before input_done
\* gives it back to the application.
THEOREM FrameHeld == Spec => []InputHeld
PROOF
  <1>1. ASSUME NetworkInv
        PROVE  InputHeld
    <2> SUFFICES ASSUME NEW d \in dma, L2.input = Frame
                 PROVE  ~inputDone
      BY DEF InputHeld
    <2>1. phase = "layer"
      <3>1. pc[0] # "end"
        BY <1>1 DEF NetworkInv, ClusterInv, CopiesInOrder
      <3> QED
        BY <1>1, <3>1, ZeroIsCore DEF NetworkInv, ClusterInv, Together
    <2>2. layer \in 0 .. 8 /\ InputSize \in Nat \ {0} /\ InputSize < L2BufferSize
          /\ Frame < 0 /\ L2BufferSize \in Nat /\ OutputSize \in Nat
          /\ WeightsSize \in Nat
      BY <1>1, SizeFacts, FrameOutside
      DEF NetworkInv, NetworkTypes, InputSize, OutputSize, WeightsSize, L2BufferSize
    <2>3. Reserved # 0 => NearEnd(InputSize, 0) >= 0
      BY <2>2 DEF NearEnd
    <2>4. Reserved = 0
      <3>1. L2.input = IF Reserved = 0 THEN Frame ELSE NearEnd(InputSize, 0)
        BY <1>1, <2>1 DEF NetworkInv, EndsSwap
      <3>2. Frame \in Int /\ Frame < 0
        BY FrameOutside
      <3>3. ~(Frame >= 0)
        BY <3>2
      <3> QED
        BY <2>3, <3>1, <3>3
    <2>5. layer = 0
      BY <2>2, <2>4 DEF Reserved
    <2> QED
      BY <1>1, <2>1, <2>5 DEF NetworkInv, EndsSwap
  <1> QED
    BY <1>1, NetworkInvariant, PTL
------------------------------------------------------------------------------
(* How the numbers of a layer fit together *)

LEMMA LayerCases ==
  ASSUME NetworkTypes
  PROVE  L \in {Layer0, Layer1, Layer2, Layer3, Layer4, Layer5, Layer6, Layer7, Layer8}
PROOF
  <1> DEFINE layers == <<Layer0, Layer1, Layer2, Layer3, Layer4, Layer5, Layer6, Layer7, Layer8>>
  <1>1. L = layers[layer + 1] /\ layer \in 0 .. 8
    BY DEF L, Layer, NetworkTypes
  <1>2. layers[layer + 1] \in
          {Layer0, Layer1, Layer2, Layer3, Layer4, Layer5, Layer6, Layer7, Layer8}
    BY <1>1
  <1> QED
    BY <1>1, <1>2

\* Tiles of this size, the last of them smaller, are the whole of a dimension.
Fit(tiles, size, last, whole) ==
  /\ tiles \in Nat \ {0} /\ size \in Nat \ {0} /\ last \in 1 .. size
  /\ whole \in Nat /\ whole = (tiles - 1) * size + last
TilesFit ==
  /\ Fit(L.dim.h, L.y.h, L.yLast.h, L.out.h)
  /\ Fit(L.dim.w, L.y.w, L.yLast.w, L.out.w)
  /\ Fit(L.dim.n, L.y.c, L.yLast.c, L.out.c)

\* The input's tiles overlap by what a window reaches beyond its stride, and the last
\* of them ends with the input.
Covering(d) ==
  /\ Fit(L.dim[d], L.y[d], L.yLast[d], L.out[d])
  /\ L.stride \in {1, 2} /\ L.pad \in Nat /\ L.overlap \in Nat
  /\ L.window = L.overlap + L.stride
  /\ L.in[d] \in Nat /\ L.x[d] \in Nat /\ L.xLast[d] \in Nat /\ L.x[d] <= L.in[d]
  /\ L.x[d] = L.stride * L.y[d] + L.overlap \/ L.dim[d] = 1
  /\ L.dim[d] > 1 => L.overlap <= L.xLast[d] /\ L.pad <= L.stride * L.y[d]
  /\ L.in[d] = L.stride * ((L.dim[d] - 1) * L.y[d])
                 - (IF L.dim[d] > 1 THEN L.pad ELSE 0) + L.xLast[d]
  /\ L.stride * (L.yLast[d] - 1) - L.pad + L.window
       <= L.xLast[d] + L.pad - (IF L.dim[d] > 1 THEN L.pad ELSE 0)

\* The copies' strides are those of the tensors.
CopiesStride ==
  /\ L.nif \in Nat \ {0} /\ L.in.c \in Nat /\ L.out.c \in Nat /\ L.in.w \in Nat /\ L.out.w \in Nat
  /\ L.xs.one = L.in.c /\ L.xs.two = L.in.w * L.in.c
  /\ L.ys.one = L.out.c /\ L.ys.two = L.out.w * L.out.c
  /\ \A d \in {"h", "w"} : /\ L.x[d] \in Nat /\ L.xLast[d] \in Nat
                           /\ L.y[d] \in Nat \ {0} /\ L.yLast[d] \in Nat \ {0}
  /\ L.x.h \in Nat /\ L.x.w \in Nat /\ L.y.h \in Nat /\ L.y.w \in Nat
  /\ L.overlap \in Nat /\ L.pad \in Nat

LEMMA LayersFit ==
  ASSUME NetworkTypes
  PROVE  TilesFit
PROOF
  <1> USE DEF TilesFit, Fit
  <1>1. L \in {Layer0, Layer1, Layer2, Layer3, Layer4, Layer5, Layer6, Layer7, Layer8}
    BY LayerCases
  <1>2. CASE L = Layer0
    BY <1>2 DEF Layer0
  <1>3. CASE L = Layer1
    BY <1>3 DEF Layer1
  <1>4. CASE L = Layer2
    BY <1>4 DEF Layer2
  <1>5. CASE L = Layer3
    BY <1>5 DEF Layer3
  <1>6. CASE L = Layer4
    BY <1>6 DEF Layer4
  <1>7. CASE L = Layer5
    BY <1>7 DEF Layer5
  <1>8. CASE L = Layer6
    BY <1>8 DEF Layer6
  <1>9. CASE L = Layer7
    BY <1>9 DEF Layer7
  <1>10. CASE L = Layer8
    BY <1>10 DEF Layer8
  <1> QED
    BY <1>1, <1>2, <1>3, <1>4, <1>5, <1>6, <1>7, <1>8, <1>9, <1>10

LEMMA LayersCovering ==
  ASSUME NetworkTypes
  PROVE  Covering("h") /\ Covering("w")
PROOF
  <1> USE DEF Covering, Fit
  <1>1. L \in {Layer0, Layer1, Layer2, Layer3, Layer4, Layer5, Layer6, Layer7, Layer8}
    BY LayerCases
  <1>2. CASE L = Layer0
    BY <1>2 DEF Layer0
  <1>3. CASE L = Layer1
    BY <1>3 DEF Layer1
  <1>4. CASE L = Layer2
    BY <1>4 DEF Layer2
  <1>5. CASE L = Layer3
    BY <1>5 DEF Layer3
  <1>6. CASE L = Layer4
    BY <1>6 DEF Layer4
  <1>7. CASE L = Layer5
    BY <1>7 DEF Layer5
  <1>8. CASE L = Layer6
    BY <1>8 DEF Layer6
  <1>9. CASE L = Layer7
    BY <1>9 DEF Layer7
  <1>10. CASE L = Layer8
    BY <1>10 DEF Layer8
  <1> QED
    BY <1>1, <1>2, <1>3, <1>4, <1>5, <1>6, <1>7, <1>8, <1>9, <1>10

LEMMA LayersStride ==
  ASSUME NetworkTypes
  PROVE  CopiesStride
PROOF
  <1> USE DEF CopiesStride
  <1>1. L \in {Layer0, Layer1, Layer2, Layer3, Layer4, Layer5, Layer6, Layer7, Layer8}
    BY LayerCases
  <1>2. CASE L = Layer0
    BY <1>2 DEF Layer0
  <1>3. CASE L = Layer1
    BY <1>3 DEF Layer1
  <1>4. CASE L = Layer2
    BY <1>4 DEF Layer2
  <1>5. CASE L = Layer3
    BY <1>5 DEF Layer3
  <1>6. CASE L = Layer4
    BY <1>6 DEF Layer4
  <1>7. CASE L = Layer5
    BY <1>7 DEF Layer5
  <1>8. CASE L = Layer6
    BY <1>8 DEF Layer6
  <1>9. CASE L = Layer7
    BY <1>9 DEF Layer7
  <1>10. CASE L = Layer8
    BY <1>10 DEF Layer8
  <1> QED
    BY <1>1, <1>2, <1>3, <1>4, <1>5, <1>6, <1>7, <1>8, <1>9, <1>10

LEMMA LayersInL1 ==
  ASSUME NetworkTypes
  PROVE  L1Fits
PROOF
  <1> USE DEF L1Fits, NumCores, L1BufferSize
  <1>1. L \in {Layer0, Layer1, Layer2, Layer3, Layer4, Layer5, Layer6, Layer7, Layer8}
    BY LayerCases
  <1>2. CASE L = Layer0
    BY <1>2 DEF Layer0
  <1>3. CASE L = Layer1
    BY <1>3 DEF Layer1
  <1>4. CASE L = Layer2
    BY <1>4 DEF Layer2
  <1>5. CASE L = Layer3
    BY <1>5 DEF Layer3
  <1>6. CASE L = Layer4
    BY <1>6 DEF Layer4
  <1>7. CASE L = Layer5
    BY <1>7 DEF Layer5
  <1>8. CASE L = Layer6
    BY <1>8 DEF Layer6
  <1>9. CASE L = Layer7
    BY <1>9 DEF Layer7
  <1>10. CASE L = Layer8
    BY <1>10 DEF Layer8
  <1> QED
    BY <1>1, <1>2, <1>3, <1>4, <1>5, <1>6, <1>7, <1>8, <1>9, <1>10

------------------------------------------------------------------------------
(* Arithmetic of the tiles *)

LEMMA Decomposed ==
  ASSUME NEW d \in Nat \ {0}, NEW q \in Nat, NEW r \in 0 .. d - 1
  PROVE  (q * d + r) \div d = q /\ (q * d + r) % d = r
  OBVIOUS

LEMMA Ordered ==
  ASSUME NEW k \in Nat, NEW a \in Nat, NEW b \in Nat
  PROVE  /\ a <= b => a * k <= b * k
         /\ a < b => a * k + k <= b * k
  OBVIOUS

LEMMA Divided ==
  ASSUME NEW d \in Nat \ {0}, NEW x \in Nat
  PROVE  /\ x \div d \in Nat /\ x % d \in 0 .. d - 1
         /\ x = (x \div d) * d + (x % d)
  OBVIOUS

LEMMA PowersOfTwo == 2^0 = 1 /\ 2^1 = 2 /\ 2^2 = 4 /\ 2^3 = 8
  OBVIOUS

LEMMA LogKnown == \A n \in 1 .. NumCores : Log2[n] \in 0 .. 3 /\ (n = 8 => Log2[n] = 3)
PROOF
  <1> DEFINE def(f) == f = [n \in 1 .. NumCores |-> IF n = 1 THEN 0 ELSE 1 + f[n \div 2]]
             log == [n \in 1 .. NumCores |->
                       IF n = 1 THEN 0 ELSE IF n <= 3 THEN 1 ELSE IF n <= 7 THEN 2 ELSE 3]
  <1>1. def(log)
    BY DEF NumCores
  <1>2. Log2 = CHOOSE f : def(f)
    BY DEF Log2
  <1> HIDE DEF log
  <1>3. def(Log2)
    BY <1>1, <1>2
  <1>4. \A n \in 1 .. 8 : Log2[n] = IF n = 1 THEN 0 ELSE 1 + Log2[n \div 2]
    BY <1>3 DEF NumCores
  <1> HIDE DEF def
  <1>5. Log2[1] = 0
    BY <1>4
  <1>6. Log2[2] = 1 /\ Log2[3] = 1
    BY <1>4, <1>5, 2 \div 2 = 1, 3 \div 2 = 1
  <1>7. Log2[4] = 2 /\ Log2[5] = 2 /\ Log2[6] = 2 /\ Log2[7] = 2
    BY <1>4, <1>6, 4 \div 2 = 2, 5 \div 2 = 2, 6 \div 2 = 3, 7 \div 2 = 3
  <1>8. Log2[8] = 3
    BY <1>4, <1>7, 8 \div 2 = 4
  <1>9. \A n \in 1 .. 8 : n \in {1, 2, 3, 4, 5, 6, 7, 8}
    OBVIOUS
  <1> QED
    BY <1>5, <1>6, <1>7, <1>8, <1>9 DEF NumCores

------------------------------------------------------------------------------
(* What core 0 copies *)

LEMMA WindowInside ==
  ASSUME NEW stride \in {1, 2}, NEW pad \in Nat, NEW window \in Nat, NEW end \in Nat,
         NEW from \in Int, NEW size \in Nat, NEW before \in {0, pad}, NEW after \in {0, pad},
         NEW y0 \in Nat, NEW rows \in Nat,
         from - before = stride * y0 - pad,
         before # 0 => from = 0,
         after # 0 => from + size = end,
         stride * (y0 + rows - 1) - pad + window <= from + size + after,
         NEW o \in y0 .. (y0 + rows - 1),
         NEW i \in (o * stride - pad) .. (o * stride - pad + window - 1)
  PROVE  \/ i \in from .. (from + size - 1)
         \/ /\ i < 0 \/ i >= end
            /\ o < y0 + before \/ o >= y0 + rows - after
PROOF
  <1>1. CASE stride = 1
    BY <1>1
  <1>2. CASE stride = 2
    BY <1>2
  <1> QED
    BY <1>1, <1>2

\* The windows of a tile, whatever the numbers
LEMMA WindowsKnown ==
  ASSUME NEW t, NEW d, Covering(d), t[d] \in 0 .. L.dim[d] - 1
  PROVE  WindowsCovered(t, d)
PROOF
  <1> DEFINE k == t[d]
             K == L.dim[d]
             y == L.y[d]
             s == L.stride
             from   == k * (L.x[d] - L.overlap) - PadOffset(L, t, d)
             size   == XSize(L, t, d)
             before == PadBefore(L, t, d)
             after  == PadAfter(L, t, d)
             y0     == k * y
             rows   == YSize(L, t, d)
  <1>1. /\ K \in Nat \ {0} /\ k \in 0 .. K - 1 /\ y \in Nat \ {0} /\ s \in {1, 2}
        /\ L.yLast[d] \in 1 .. y /\ L.pad \in Nat /\ L.window \in Nat /\ L.in[d] \in Nat
        /\ L.window = L.overlap + s /\ L.overlap \in Nat
        /\ L.x[d] \in Nat /\ L.xLast[d] \in Nat /\ L.x[d] <= L.in[d]
    BY DEF Covering, Fit
  <1>2. /\ before = (IF k = 0 THEN L.pad ELSE 0)
        /\ after = (IF k = K - 1 THEN L.pad ELSE 0)
        /\ PadOffset(L, t, d) = (IF k > 0 THEN L.pad ELSE 0)
        /\ size = (IF k = K - 1 THEN L.xLast[d] ELSE L.x[d])
        /\ rows = (IF k = K - 1 THEN L.yLast[d] ELSE y)
    BY <1>1 DEF PadBefore, PadAfter, PadOffset, XSize, YSize, LastOf
  <1>3. from = s * y0 - PadOffset(L, t, d)
    <2>1. CASE K = 1
      BY <1>1, <1>2, <2>1
    <2>2. CASE L.x[d] = s * y + L.overlap
      <3>1. L.x[d] - L.overlap = s * y
        BY <1>1, <2>2
      <3>2. k * (s * y) = s * (k * y)
        BY <1>1
      <3> QED
        BY <1>1, <1>2, <3>1, <3>2
    <2> QED
      BY <2>1, <2>2 DEF Covering
  <1>4. y0 \in Nat
    BY <1>1
  <1>5. from - before = s * y0 - L.pad /\ from \in Nat
    <2>1. CASE k = 0
      BY <1>1, <1>2, <1>3, <1>4, <2>1
    <2>2. CASE k > 0
      <3>1. y0 >= y
        BY <1>1, <2>2
      <3>2. from = s * y0 - L.pad
        BY <1>2, <1>3, <2>2
      <3>3. s * y >= L.pad
        BY <1>1, <2>2 DEF Covering
      <3> HIDE DEF y0, from, before, s, y
      <3> QED
        BY <1>1, <1>2, <1>4, <2>2, <3>1, <3>2, <3>3
    <2> QED
      BY <1>1, <2>1, <2>2
  <1>6. before # 0 => from = 0
    BY <1>1, <1>2, <1>3, <1>4
  <1>7. k = K - 1 => from + size = L.in[d]
    BY <1>1, <1>2, <1>3, <1>4 DEF Covering
  <1>8. from + size <= L.in[d]
    <2>1. CASE k = K - 1
      BY <1>1, <1>2, <1>7, <2>1
    <2>2. CASE k = 0 /\ k # K - 1
      BY <1>1, <1>2, <1>3, <2>2
    <2>3. CASE k > 0 /\ k # K - 1
      <3> DEFINE last == (K - 1) * y
      <3>1. last \in Nat /\ y0 + y <= last
        <4>1. k \in Nat /\ K - 1 \in Nat /\ k < K - 1 /\ y \in Nat
          BY <1>1, <2>3
        <4> HIDE DEF k, K, y
        <4> QED
          BY <4>1, Ordered
      <3>2. L.in[d] = s * last - L.pad + L.xLast[d] /\ L.overlap <= L.xLast[d]
        BY <1>1, <2>3 DEF Covering
      <3>3. from = s * y0 - L.pad /\ size = s * y + L.overlap
        BY <1>1, <1>2, <1>3, <2>3 DEF Covering
      <3> HIDE DEF last, y0, from, size, s, y
      <3> QED
        BY <1>1, <1>4, <3>1, <3>2, <3>3
    <2> QED
      BY <1>1, <2>1, <2>2, <2>3
  <1>9. s * (y0 + rows - 1) - L.pad + L.window <= from + size + after
    <2>1. CASE k = K - 1
      <3>1. s * (L.yLast[d] - 1) - L.pad + L.window
              <= L.xLast[d] + L.pad - (IF K > 1 THEN L.pad ELSE 0)
        BY DEF Covering
      <3> QED
        BY <1>1, <1>2, <1>3, <1>4, <2>1, <3>1
    <2>2. CASE k # K - 1
      <3>1. size = s * y + L.overlap
        BY <1>1, <1>2, <2>2 DEF Covering
      <3>2. rows = y /\ after = 0 /\ PadOffset(L, t, d) \in {0, L.pad}
        BY <1>1, <1>2, <2>2
      <3> HIDE DEF y0, from, size, rows, after, s, y
      <3>3. CASE s = 1
        BY <1>1, <1>3, <1>4, <3>1, <3>2, <3>3
      <3>4. CASE s = 2
        BY <1>1, <1>3, <1>4, <3>1, <3>2, <3>4
      <3> QED
        BY <1>1, <3>3, <3>4
    <2> QED
      BY <2>1, <2>2
  <1>10. after # 0 => from + size = L.in[d]
    BY <1>2, <1>7
  <1>11. /\ before \in {0, L.pad} /\ after \in {0, L.pad}
         /\ size \in Nat /\ rows \in Nat
    BY <1>1, <1>2
  <1>12. from >= 0 /\ from + size - 1 < L.in[d] /\ from - before = y0 * s - L.pad
    <2> HIDE DEF from, size, before, after, y0, s
    <2>1. y0 * s = s * y0
      BY <1>1, <1>4
    <2> QED
      BY <1>1, <1>5, <1>8, <1>11, <2>1
  <1> HIDE DEF from, size, before, after, y0, rows, s
  <1>13. \A o \in y0 .. (y0 + rows - 1) :
           \A i \in (o * s - L.pad) .. (o * s - L.pad + L.window - 1) :
             \/ i \in from .. (from + size - 1)
             \/ /\ i < 0 \/ i >= L.in[d]
                /\ o < y0 + before \/ o >= y0 + rows - after
    BY <1>1, <1>4, <1>5, <1>6, <1>9, <1>10, <1>11, WindowInside
  <1> QED
    BY <1>12, <1>13, Zenon DEF WindowsCovered, from, size, before, after, y0, rows, s, k, y

\* A copy whose strides are the tensor's reaches its box, in each of the three forms.
LEMMA CopyIsBox ==
  ASSUME NEW r, NEW base \in Int, NEW width \in Nat, NEW channels \in Nat,
         r.ext = base, r.two \in Nat, r.one \in Nat, r.len \in Nat \ {0},
         r.strideOne = channels, r.strideTwo = width * channels
  PROVE  CopiesBox(r, base, width, channels)
PROOF
  <1> DEFINE one == r.one
             len == r.len
  <1> SUFFICES ASSUME NEW i \in 0 .. r.two - 1, NEW j \in 0 .. one - 1, NEW b \in {0, len - 1}
               PROVE  ExtOf(r, (i * one + j) * len + b)
                        = base + (i * width + j) * channels + b
    BY DEF CopiesBox
  <1> DEFINE o == (i * one + j) * len + b
             to == base + (i * width + j) * channels + b
  <1>1. /\ i \in Nat /\ j \in Nat /\ b \in 0 .. len - 1 /\ one \in Nat \ {0} /\ len \in Nat \ {0}
        /\ j < one
    OBVIOUS
  <1> DEFINE rows == i * (width * channels)
             cells == j * channels
  <1>2. /\ to = base + rows + cells + b
        /\ rows \in Int /\ cells \in Int
    BY <1>1
  <1>3. j * len + b \in 0 .. one * len - 1
    <2>1. j * len + len <= one * len
      BY <1>1, Ordered
    <2> QED
      BY <1>1, <2>1
  <1>4. o = i * (one * len) + (j * len + b) /\ one * len \in Nat \ {0}
    BY <1>1
  <1>5. /\ o \div (one * len) = i /\ o % (one * len) = j * len + b
        /\ o % len = b /\ (j * len + b) \div len = j /\ (j * len + b) % len = b
    <2>1. o \div (one * len) = i /\ o % (one * len) = j * len + b
      <3> DEFINE row == one * len
                 rest == j * len + b
      <3>1. row \in Nat \ {0} /\ rest \in 0 .. row - 1 /\ o = i * row + rest
        BY <1>3, <1>4
      <3> HIDE DEF row, rest, o
      <3>2. o \div row = i /\ o % row = rest
        BY <1>1, <3>1, Decomposed
      <3> QED
        BY <3>2 DEF row, rest
    <2>2. i * one + j \in Nat
      BY <1>1
    <2>3. o % len = b
      BY <1>1, <2>2, Decomposed
    <2>4. (j * len + b) \div len = j /\ (j * len + b) % len = b
      BY <1>1, Decomposed
    <2> QED
      BY <2>1, <2>3, <2>4
  <1> HIDE DEF o, to, rows, cells
  <1> SUFFICES ExtOf(r, o) = to
    BY DEF o, to
  <1>6. CASE OneRun(r)
    <2>1. ExtOf(r, o) = base + o
      BY <1>6 DEF ExtOf
    <2>2. CASE r.two = 1 /\ one = 1
      <3>1. i = 0 /\ j = 0
        BY <2>2
      <3> QED
        BY <1>1, <1>2, <1>4, <2>1, <3>1 DEF rows, cells
    <2>3. CASE channels = len /\ one * len = width * channels
      BY <1>1, <1>2, <1>4, <2>1, <2>3 DEF rows, cells
    <2>4. CASE r.two = 1 /\ len = channels
      <3>1. i = 0
        BY <2>4
      <3> QED
        BY <1>1, <1>2, <1>4, <2>1, <2>4, <3>1 DEF rows, cells
    <2> QED
      BY <1>6, <2>2, <2>3, <2>4 DEF OneRun
  <1>7. CASE ~OneRun(r) /\ r.two = 1
    <2>1. i = 0
      BY <1>7
    <2>2. o = j * len + b
      BY <1>1, <1>4, <2>1
    <2>3. ExtOf(r, o) = base + cells + b
      BY <1>1, <1>5, <1>7, <2>2 DEF ExtOf, EqualRuns, cells
    <2> QED
      BY <1>1, <1>2, <2>1, <2>3 DEF rows
  <1>8. CASE ~OneRun(r) /\ r.two # 1 /\ len = channels
    <2>1. len * one = one * len
      BY <1>1
    <2>2. ExtOf(r, o) = base + (o \div (len * one)) * r.strideTwo + (o % (len * one))
      BY <1>8 DEF ExtOf, EqualRuns
    <2>3. ExtOf(r, o) = base + rows + (j * len + b)
      BY <1>5, <2>1, <2>2 DEF rows
    <2>4. j * len = cells
      BY <1>8 DEF cells
    <2> QED
      BY <1>1, <1>2, <2>3, <2>4
  <1>9. CASE ~OneRun(r) /\ ~EqualRuns(r)
    <2>1. ExtOf(r, o) = base + (o \div (one * len)) * r.strideTwo
                          + ((o % (one * len)) \div len) * r.strideOne + (o % len)
      BY <1>9 DEF ExtOf
    <2>2. ExtOf(r, o) = base + rows + cells + b
      BY <1>5, <2>1 DEF rows, cells
    <2> QED
      BY <1>2, <2>2
  <1> QED
    BY <1>6, <1>7, <1>8, <1>9 DEF EqualRuns

LEMMA TileCopied ==
  ASSUME NetworkTypes, NEW t \in Tile
  PROVE  /\ CopiesBox(XCopy(L, t), XAddress(L, t), L.in.w, L.in.c)
         /\ CopiesBox(YCopy(L, t), YAddress(L, t), L.out.w, L.out.c)
PROOF
  <1>1. CopiesStride
    BY LayersStride
  <1>2. L.y.c \in Nat \ {0} /\ L.yLast.c \in Nat \ {0}
    BY LayersFit DEF TilesFit, Fit
  <1>3. t.n \in Nat /\ t.h \in Nat /\ t.w \in Nat
    BY DEF Tile
  <1>4. /\ XSize(L, t, "h") \in Nat /\ XSize(L, t, "w") \in Nat
        /\ YSize(L, t, "h") \in Nat /\ YSize(L, t, "w") \in Nat
        /\ YChannels(L, t) \in Nat \ {0}
    BY <1>1, <1>2 DEF CopiesStride, XSize, YSize, YChannels
  <1>5. XAddress(L, t) \in Int
    <2>1. PadOffset(L, t, "h") \in Nat /\ PadOffset(L, t, "w") \in Nat
      BY <1>1 DEF CopiesStride, PadOffset
    <2>2. \A a, b, x, y, p, q, w, c \in Int : (a * x - p) * w * c + (b * y - q) * c \in Int
      OBVIOUS
    <2>3. /\ L.x.h - L.overlap \in Int /\ L.x.w - L.overlap \in Int
          /\ L.in.w \in Int /\ L.in.c \in Int
      BY <1>1 DEF CopiesStride
    <2> QED
      BY <1>3, <2>1, <2>2, <2>3 DEF XAddress
  <1>6. YAddress(L, t) \in Int
    <2>1. \A a, b, n, x, y, w, c, k \in Int : a * x * w * c + b * y * c + n * k \in Int
      OBVIOUS
    <2> QED
      BY <1>1, <1>2, <1>3, <2>1 DEF CopiesStride, YAddress
  <1>7. CopiesBox(XCopy(L, t), XAddress(L, t), L.in.w, L.in.c)
    <2> DEFINE r == XCopy(L, t)
    <2>1. /\ r.ext = XAddress(L, t) /\ r.two \in Nat /\ r.one \in Nat /\ r.len \in Nat \ {0}
          /\ r.strideOne = L.in.c /\ r.strideTwo = L.in.w * L.in.c
      BY <1>1, <1>4 DEF XCopy, CopiesStride
    <2>2. L.in.w \in Nat /\ L.in.c \in Nat
      BY <1>1 DEF CopiesStride
    <2> HIDE DEF r
    <2>3. CopiesBox(r, XAddress(L, t), L.in.w, L.in.c)
      BY <1>5, <2>1, <2>2, CopyIsBox
    <2> QED
      BY <2>3 DEF r
  <1>8. CopiesBox(YCopy(L, t), YAddress(L, t), L.out.w, L.out.c)
    <2> DEFINE r == YCopy(L, t)
    <2>1. /\ r.ext = YAddress(L, t) /\ r.two \in Nat /\ r.one \in Nat /\ r.len \in Nat \ {0}
          /\ r.strideOne = L.out.c /\ r.strideTwo = L.out.w * L.out.c
      BY <1>1, <1>4 DEF YCopy, CopiesStride
    <2>2. L.out.w \in Nat /\ L.out.c \in Nat
      BY <1>1 DEF CopiesStride
    <2> HIDE DEF r
    <2>3. CopiesBox(r, YAddress(L, t), L.out.w, L.out.c)
      BY <1>6, <2>1, <2>2, CopyIsBox
    <2> QED
      BY <2>3 DEF r
  <1> QED
    BY <1>7, <1>8

------------------------------------------------------------------------------
(* What each core computes *)

\* The chunk of a loop on all the cores is large enough.
LEMMA ChunksReach ==
  ASSUME NEW n \in Nat
  PROVE  ChunkOf(n, NumCores) \in Nat /\ 8 * ChunkOf(n, NumCores) >= n
PROOF
  <1>1. NumCores = 8 /\ 8 \in 1 .. NumCores
    BY DEF NumCores
  <1>2. 2^Log2[NumCores] = 8
    BY <1>1, LogKnown, PowersOfTwo
  <1> QED
    BY <1>1, <1>2 DEF ChunkOf

LEMMA PoolChunksReach ==
  ASSUME NEW rows \in Nat \ {0}
  PROVE  /\ ChunkOf(rows, AtMost(rows, NumCores)) \in Nat
         /\ 8 * ChunkOf(rows, AtMost(rows, NumCores)) >= rows
PROOF
  <1> DEFINE used == AtMost(rows, NumCores)
  <1>1. CASE rows >= 8
    <2>1. used = NumCores
      BY <1>1 DEF AtMost, NumCores
    <2> QED
      BY <2>1, ChunksReach
  <1>2. CASE rows < 8
    <2>1. used = rows /\ rows \in 1 .. NumCores /\ rows % NumCores # 0
      BY <1>2 DEF AtMost, NumCores
    <2>2. Log2[used] \in {0, 1, 2, 3}
      BY <2>1, LogKnown
    <2>3. 2^Log2[used] \in {1, 2, 4, 8}
      BY <2>2, PowersOfTwo
    <2>4. rows \div 2^Log2[used] \in Nat
      BY <2>3
    <2>5. ChunkOf(rows, used) = rows \div 2^Log2[used] + 1
      BY <2>1 DEF ChunkOf
    <2> QED
      BY <1>2, <2>4, <2>5
  <1> QED
    BY <1>1, <1>2

\* Slices of a chunk each, as many as the cores or the pairs of cores
LEMMA SlicesWhole ==
  ASSUME NEW n \in Nat, NEW chunk \in Nat
  PROVE  /\ \A core \in 0 .. 7 : Slice(n, chunk, core) \subseteq 0 .. n - 1
         /\ \A c, d \in 0 .. 7 : c < d => Slice(n, chunk, c) \cap Slice(n, chunk, d) = {}
         /\ 8 * chunk >= n => \A x \in 0 .. n - 1 : \E c \in 0 .. 7 : x \in Slice(n, chunk, c)
         /\ 4 * chunk >= n => \A x \in 0 .. n - 1 : \E c \in 0 .. 3 : x \in Slice(n, chunk, c)
PROOF
  <1>1. ASSUME NEW core \in 0 .. 7
        PROVE  /\ chunk * core \in Nat /\ core * chunk = chunk * core
               /\ \A x \in Int : x \in Slice(n, chunk, core)
                                   <=> chunk * core <= x /\ x < chunk * core + chunk /\ x < n
    <2>1. chunk * core \in Nat /\ core * chunk = chunk * core
      OBVIOUS
    <2> DEFINE start == chunk * core
    <2> HIDE DEF start
    <2>2. start \in Nat /\ Slice(n, chunk, core)
                             = AtMost(start, n) .. (AtMost(AtMost(start, n) + chunk, n) - 1)
      BY <2>1 DEF Slice, start
    <2>3. \A x \in Int : x \in Slice(n, chunk, core)
                           <=> start <= x /\ x < start + chunk /\ x < n
      BY <2>2 DEF AtMost
    <2> QED
      BY <2>1, <2>3 DEF start
  <1>2. ASSUME NEW core \in 0 .. 7
        PROVE  Slice(n, chunk, core) \subseteq 0 .. n - 1
    <2>1. Slice(n, chunk, core) \subseteq Int
      BY DEF Slice
    <2> QED
      BY <1>1, <2>1
  <1>3. ASSUME NEW c \in 0 .. 7, NEW d \in 0 .. 7, c < d
        PROVE  Slice(n, chunk, c) \cap Slice(n, chunk, d) = {}
    <2>1. c * chunk + chunk <= d * chunk
      BY <1>3, Ordered
    <2> QED
      BY <1>1, <1>2, <2>1
  <1>4. ASSUME NEW x \in 0 .. n - 1, 8 * chunk >= n
        PROVE  \E c \in 0 .. 7 : x \in Slice(n, chunk, c)
    <2>1. \E c \in {0, 1, 2, 3, 4, 5, 6, 7} : chunk * c <= x /\ x < chunk * c + chunk
      BY <1>4
    <2> QED
      BY <1>1, <2>1
  <1>5. ASSUME NEW x \in 0 .. n - 1, 4 * chunk >= n
        PROVE  \E c \in 0 .. 3 : x \in Slice(n, chunk, c)
    <2>1. \E c \in {0, 1, 2, 3} : chunk * c <= x /\ x < chunk * c + chunk
      BY <1>5
    <2> QED
      BY <1>1, <2>1
  <1> QED
    BY <1>2, <1>3, <1>4, <1>5

\* The shares of the eight cores do not meet, and are the whole.
Divides(share, whole) ==
  /\ UNION {share[c] : c \in 0 .. NumCores - 1} = whole
  /\ \A c, d \in 0 .. NumCores - 1 : c < d => share[c] \cap share[d] = {}

LEMMA ChunksDivide ==
  ASSUME NEW n \in Nat, NEW chunk \in Nat, 8 * chunk >= n, NEW cols, NEW share,
         \A c \in 0 .. 7 : share[c] = Slice(n, chunk, c) \X cols
  PROVE  Divides(share, (0 .. n - 1) \X cols)
PROOF
  <1>1. NumCores - 1 = 7
    BY DEF NumCores
  <1>2. UNION {share[c] : c \in 0 .. 7} \subseteq (0 .. n - 1) \X cols
    BY SlicesWhole
  <1>3. ASSUME NEW x \in 0 .. n - 1, NEW y \in cols
        PROVE  <<x, y>> \in UNION {share[c] : c \in 0 .. 7}
    <2>1. PICK c \in 0 .. 7 : x \in Slice(n, chunk, c)
      BY SlicesWhole
    <2> QED
      BY <2>1
  <1>4. \A c, d \in 0 .. 7 : c < d => share[c] \cap share[d] = {}
    BY SlicesWhole
  <1> QED
    BY <1>1, <1>2, <1>3, <1>4 DEF Divides

\* Rows to pairs of cores, and the halves of each row within a pair
Half(cols, sect) ==
  LET half == cols \div 2 IN (sect * half) .. (half + sect * (half + (cols % 2)) - 1)

LEMMA PairsDivide ==
  ASSUME NEW n \in Nat, NEW chunk \in Nat, 4 * chunk >= n, NEW cols \in Nat, NEW share,
         \A c \in 0 .. 7 : share[c] = Slice(n, chunk, c \div 2) \X Half(cols, c % 2)
  PROVE  Divides(share, (0 .. n - 1) \X (0 .. cols - 1))
PROOF
  <1>1. NumCores - 1 = 7
    BY DEF NumCores
  <1>2. \A c \in 0 .. 7 : c \div 2 \in 0 .. 3 /\ c % 2 \in {0, 1} /\ c = 2 * (c \div 2) + (c % 2)
    OBVIOUS
  <1>3. /\ Half(cols, 0) \cup Half(cols, 1) = 0 .. cols - 1
        /\ Half(cols, 0) \cap Half(cols, 1) = {}
    BY DEF Half
  <1>4. UNION {share[c] : c \in 0 .. 7} \subseteq (0 .. n - 1) \X (0 .. cols - 1)
    <2>1. ASSUME NEW c \in 0 .. 7
          PROVE  share[c] \subseteq (0 .. n - 1) \X (0 .. cols - 1)
      <3>1. Slice(n, chunk, c \div 2) \subseteq 0 .. n - 1
        BY <1>2, SlicesWhole
      <3>2. Half(cols, c % 2) \subseteq 0 .. cols - 1
        BY <1>2, <1>3
      <3> QED
        BY <3>1, <3>2
    <2> QED
      BY <2>1
  <1>5. ASSUME NEW x \in 0 .. n - 1, NEW y \in 0 .. cols - 1
        PROVE  <<x, y>> \in UNION {share[c] : c \in 0 .. 7}
    <2>1. PICK p \in 0 .. 3 : x \in Slice(n, chunk, p)
      BY SlicesWhole
    <2>2. PICK sect \in {0, 1} : y \in Half(cols, sect)
      BY <1>3
    <2>3. 2 * p + sect \in 0 .. 7 /\ (2 * p + sect) \div 2 = p /\ (2 * p + sect) % 2 = sect
      OBVIOUS
    <2>4. <<x, y>> \in share[2 * p + sect]
      BY <2>1, <2>2, <2>3
    <2> QED
      BY <2>3, <2>4
  <1>6. ASSUME NEW c \in 0 .. 7, NEW d \in 0 .. 7, c < d
        PROVE  share[c] \cap share[d] = {}
    <2>1. \/ c \div 2 < d \div 2
          \/ c % 2 = 0 /\ d % 2 = 1
      BY <1>2, <1>6
    <2>2. CASE c \div 2 < d \div 2
      <3>1. Slice(n, chunk, c \div 2) \cap Slice(n, chunk, d \div 2) = {}
        <4> DEFINE p == c \div 2
                   q == d \div 2
        <4>1. p \in 0 .. 7 /\ q \in 0 .. 7 /\ p < q
          BY <1>2, <2>2
        <4> HIDE DEF p, q
        <4>2. Slice(n, chunk, p) \cap Slice(n, chunk, q) = {}
          BY <4>1, SlicesWhole
        <4> QED
          BY <4>2 DEF p, q
      <3> QED
        BY <3>1
    <2>3. CASE c % 2 = 0 /\ d % 2 = 1
      BY <1>3, <2>3
    <2> QED
      BY <2>1, <2>2, <2>3
  <1> QED
    BY <1>1, <1>4, <1>5, <1>6 DEF Divides

\* The eight cores' shares in pulp_nn_conv_u8_u8_i8 are disjoint and cover the whole output
\* tile, for any number of rows and columns: by rows when the cores divide those or there
\* is one column, by rows and halves of the columns otherwise.
THEOREM ConvDivides ==
  ASSUME NEW rows \in Nat, NEW cols \in Nat
  PROVE  Divides([c \in 0 .. NumCores - 1 |-> ConvShare(rows, cols, c)],
                 (0 .. rows - 1) \X (0 .. cols - 1))
PROOF
  <1> DEFINE share == [c \in 0 .. NumCores - 1 |-> ConvShare(rows, cols, c)]
  <1>1. NumCores = 8 /\ NumCores \div 2 = 4
    BY DEF NumCores
  <1>2. \A c \in 0 .. 7 : share[c] = ConvShare(rows, cols, c)
    BY <1>1
  <1> HIDE DEF share
  <1>3. CASE rows % NumCores # 0 /\ cols > 1
    <2> DEFINE chunk == rows \div 4 + (IF rows % 4 # 0 THEN 1 ELSE 0)
    <2>1. \A c \in 0 .. 7 : share[c] = Slice(rows, chunk, c \div 2) \X Half(cols, c % 2)
      BY <1>1, <1>2, <1>3 DEF ConvShare, Half
    <2>2. chunk \in Nat /\ 4 * chunk >= rows
      OBVIOUS
    <2> HIDE DEF chunk
    <2>3. Divides(share, (0 .. rows - 1) \X (0 .. cols - 1))
      BY <2>1, <2>2, PairsDivide
    <2> QED
      BY <2>3 DEF share
  <1>4. CASE ~(rows % NumCores # 0 /\ cols > 1)
    <2> DEFINE chunk == ChunkOf(rows, NumCores)
    <2>1. \A c \in 0 .. 7 : share[c] = Slice(rows, chunk, c) \X (0 .. cols - 1)
      BY <1>2, <1>4 DEF ConvShare
    <2>2. chunk \in Nat /\ 8 * chunk >= rows
      BY ChunksReach
    <2> HIDE DEF chunk
    <2>3. Divides(share, (0 .. rows - 1) \X (0 .. cols - 1))
      BY <2>1, <2>2, ChunksDivide
    <2> QED
      BY <2>3 DEF share
  <1> QED
    BY <1>3, <1>4

\* The eight cores' shares in pulp_nn_maxpool_u8 are disjoint and cover the whole output tile,
\* for any positive number of rows, also fewer than the cores, and any number of columns.
THEOREM PoolDivides ==
  ASSUME NEW rows \in Nat \ {0}, NEW cols \in Nat
  PROVE  Divides([c \in 0 .. NumCores - 1 |-> PoolShare(rows, cols, c)],
                 (0 .. rows - 1) \X (0 .. cols - 1))
PROOF
  <1> DEFINE share == [c \in 0 .. NumCores - 1 |-> PoolShare(rows, cols, c)]
             chunk == ChunkOf(rows, AtMost(rows, NumCores))
  <1>1. chunk \in Nat /\ 8 * chunk >= rows
    BY PoolChunksReach
  <1>2. ASSUME NEW c \in 0 .. 7
        PROVE  share[c] = Slice(rows, chunk, c) \X (0 .. cols - 1)
    <2>1. share[c] = ((chunk * c) .. (AtMost(chunk * c + chunk, rows) - 1)) \X (0 .. cols - 1)
      BY DEF PoolShare, NumCores
    <2> DEFINE start == chunk * c
    <2>2. start \in Nat
      BY <1>1
    <2> HIDE DEF start, chunk
    <2>3. start .. (AtMost(start + chunk, rows) - 1)
            = AtMost(start, rows) .. (AtMost(AtMost(start, rows) + chunk, rows) - 1)
      BY <1>1, <2>2 DEF AtMost
    <2> QED
      BY <2>1, <2>3 DEF Slice, start
  <1> HIDE DEF share, chunk
  <1>3. Divides(share, (0 .. rows - 1) \X (0 .. cols - 1))
    BY <1>1, <1>2, ChunksDivide
  <1> QED
    BY <1>3 DEF share

\* The eight cores' shares in pulp_nn_linear_u8_i32_i8 are disjoint and cover all outputs, for
\* any size of the output.
THEOREM LinearDivides ==
  ASSUME NEW bytes \in Nat
  PROVE  Divides([c \in 0 .. NumCores - 1 |-> LinearShare(bytes, c)],
                 (0 .. bytes \div 4 - 1) \X {0})
PROOF
  <1> DEFINE share == [c \in 0 .. NumCores - 1 |-> LinearShare(bytes, c)]
             n == bytes \div 4
             chunk == ChunkOf(n, NumCores)
  <1>1. n \in Nat
    OBVIOUS
  <1>2. chunk \in Nat /\ 8 * chunk >= n
    BY <1>1, ChunksReach
  <1>3. \A c \in 0 .. 7 : share[c] = Slice(n, chunk, c) \X {0}
    BY DEF LinearShare, NumCores
  <1> HIDE DEF share, chunk
  <1>4. Divides(share, (0 .. n - 1) \X {0})
    BY <1>1, <1>2, <1>3, ChunksDivide
  <1> QED
    BY <1>4 DEF share

\* Whatever the tile, the cores' shares divide it.
LEMMA WorkShared ==
  ASSUME NetworkTypes, NEW t
  PROVE  Divides([c \in 0 .. NumCores - 1 |-> Share(L, t, c)], WholeTile(L, t))
PROOF
  <1>1. /\ YSize(L, t, "h") \in Nat \ {0} /\ YSize(L, t, "w") \in Nat
        /\ YChannels(L, t) \in Nat
    BY LayersFit, LayersStride DEF TilesFit, Fit, CopiesStride, YSize, YChannels
  <1>2. CASE L.kind = "linear"
    BY <1>1, <1>2, LinearDivides DEF Share, WholeTile
  <1>3. CASE L.kind = "pool"
    BY <1>1, <1>3, PoolDivides DEF Share, WholeTile
  <1>4. CASE L.kind # "linear" /\ L.kind # "pool"
    BY <1>1, <1>4, ConvDivides DEF Share, WholeTile
  <1> QED
    BY <1>2, <1>3, <1>4

------------------------------------------------------------------------------
(* The tiles of a layer together *)

LayerTiles ==
  [n : 0 .. L.dim.n - 1, h : 0 .. L.dim.h - 1, w : 0 .. L.dim.w - 1, nif : {0}]

\* Where tile k of a dimension lies in it
Span(k, tiles, size, last) == Region(k * size, IF k + 1 = tiles THEN last ELSE size)

\* The tiles of one dimension do not meet, and are all of it.
LEMMA SpansDivide ==
  ASSUME NEW tiles, NEW size, NEW last, NEW whole, Fit(tiles, size, last, whole)
  PROVE  /\ \A k \in 0 .. tiles - 1 : Span(k, tiles, size, last) \subseteq 0 .. whole - 1
         /\ \A x \in 0 .. whole - 1 : \E k \in 0 .. tiles - 1 : x \in Span(k, tiles, size, last)
         /\ \A k, m \in 0 .. tiles - 1 :
              k # m => Span(k, tiles, size, last) \cap Span(m, tiles, size, last) = {}
PROOF
  <1> USE DEF Fit
  <1>1. ASSUME NEW k \in 0 .. tiles - 1
        PROVE  /\ k * size \in Nat
               /\ \A x \in Int : x \in Span(k, tiles, size, last)
                    <=> /\ k * size <= x
                        /\ x < k * size + (IF k + 1 = tiles THEN last ELSE size)
    <2>1. k * size \in Nat
      OBVIOUS
    <2> QED
      BY <2>1 DEF Span, Region
  <1>2. whole \in Nat /\ (tiles - 1) * size \in Nat
    OBVIOUS
  <1>3. ASSUME NEW k \in 0 .. tiles - 1
        PROVE  Span(k, tiles, size, last) \subseteq 0 .. whole - 1
    <2>1. Span(k, tiles, size, last) \subseteq Int
      BY DEF Span, Region
    <2>2. k + 1 # tiles => k * size + size <= (tiles - 1) * size
      BY Ordered
    <2>3. k + 1 = tiles => k * size = (tiles - 1) * size
      OBVIOUS
    <2> QED
      BY <1>1, <1>2, <2>1, <2>2, <2>3
  <1>4. ASSUME NEW x \in 0 .. whole - 1
        PROVE  \E k \in 0 .. tiles - 1 : x \in Span(k, tiles, size, last)
    <2> DEFINE k == x \div size
               rest == x % size
    <2>1. k \in Nat /\ rest \in 0 .. size - 1 /\ x = k * size + rest /\ k * size \in Nat
      <3>1. x \in Nat
        BY <1>2
      <3> QED
        <4>1. /\ k \in Nat /\ rest \in 0 .. size - 1
              /\ x = k * size + rest
          BY <3>1, Divided
        <4> HIDE DEF k, rest
        <4> QED
          BY <4>1
    <2> HIDE DEF k, rest
    <2>2. k < tiles
      <3>1. SUFFICES ASSUME tiles <= k PROVE FALSE
        BY <2>1
      <3>2. tiles * size <= k * size
        BY <2>1, <3>1, Ordered
      <3>3. (tiles - 1) * size + size = tiles * size
        OBVIOUS
      <3> QED
        BY <1>2, <2>1, <3>2, <3>3
    <2>3. k + 1 = tiles => k * size = (tiles - 1) * size
      BY <2>1
    <2>4. k \in 0 .. tiles - 1
      BY <2>1, <2>2
    <2>5. x < k * size + (IF k + 1 = tiles THEN last ELSE size)
      BY <1>2, <2>1, <2>3
    <2>6. x \in Span(k, tiles, size, last)
      BY <1>1, <2>1, <2>4, <2>5
    <2> QED
      BY <2>4, <2>6
  <1>5. ASSUME NEW k \in 0 .. tiles - 1, NEW m \in 0 .. tiles - 1, k < m
        PROVE  Span(k, tiles, size, last) \cap Span(m, tiles, size, last) = {}
    <2>1. k * size + size <= m * size /\ k + 1 # tiles
      BY <1>5, Ordered
    <2>2. ASSUME NEW x \in Int, x \in Span(k, tiles, size, last),
                 x \in Span(m, tiles, size, last)
          PROVE  FALSE
      BY <1>1, <2>1, <2>2
    <2> QED
      BY <1>2, <1>3, <2>2
  <1> QED
    BY <1>3, <1>4, <1>5

LEMMA BoxIsSpans ==
  ASSUME NEW t
  PROVE  /\ Box(t) = Span(t.h, L.dim.h, L.y.h, L.yLast.h) \X Span(t.w, L.dim.w, L.y.w, L.yLast.w)
         /\ Channels(t) = Span(t.n, L.dim.n, L.y.c, L.yLast.c)
  BY DEF Box, Channels, Span, YSize, YChannels, LastOf

\* All the tiles of a layer together
LEMMA TilesDivideOutput ==
  ASSUME TilesFit
  PROVE  /\ UNION {Box(t) : t \in LayerTiles} = Region(0, L.out.h) \X Region(0, L.out.w)
         /\ UNION {Channels(t) : t \in LayerTiles} = 0 .. L.out.c - 1
         /\ \A t, u \in LayerTiles :
              t # u => Box(t) \cap Box(u) = {} \/ Channels(t) \cap Channels(u) = {}
PROOF
  <1> DEFINE H(k) == Span(k, L.dim.h, L.y.h, L.yLast.h)
             W(k) == Span(k, L.dim.w, L.y.w, L.yLast.w)
             C(k) == Span(k, L.dim.n, L.y.c, L.yLast.c)
             tile(k, i, j) == [n |-> k, h |-> i, w |-> j, nif |-> 0]
  <1> HIDE DEF H, W, C
  <1>1. /\ \A k \in 0 .. L.dim.h - 1 : H(k) \subseteq 0 .. L.out.h - 1
        /\ \A x \in 0 .. L.out.h - 1 : \E k \in 0 .. L.dim.h - 1 : x \in H(k)
        /\ \A k, m \in 0 .. L.dim.h - 1 : k # m => H(k) \cap H(m) = {}
    BY SpansDivide DEF TilesFit, H
  <1>2. /\ \A k \in 0 .. L.dim.w - 1 : W(k) \subseteq 0 .. L.out.w - 1
        /\ \A x \in 0 .. L.out.w - 1 : \E k \in 0 .. L.dim.w - 1 : x \in W(k)
        /\ \A k, m \in 0 .. L.dim.w - 1 : k # m => W(k) \cap W(m) = {}
    BY SpansDivide DEF TilesFit, W
  <1>3. /\ \A k \in 0 .. L.dim.n - 1 : C(k) \subseteq 0 .. L.out.c - 1
        /\ \A x \in 0 .. L.out.c - 1 : \E k \in 0 .. L.dim.n - 1 : x \in C(k)
        /\ \A k, m \in 0 .. L.dim.n - 1 : k # m => C(k) \cap C(m) = {}
    BY SpansDivide DEF TilesFit, C
  <1>4. \A t : Box(t) = H(t.h) \X W(t.w) /\ Channels(t) = C(t.n)
    BY BoxIsSpans DEF H, W, C
  <1>5. \A t \in LayerTiles : /\ t.n \in 0 .. L.dim.n - 1 /\ t.h \in 0 .. L.dim.h - 1
                              /\ t.w \in 0 .. L.dim.w - 1 /\ t.nif = 0
                              /\ t = tile(t.n, t.h, t.w)
    BY DEF LayerTiles
  <1>6. ASSUME NEW k \in 0 .. L.dim.n - 1, NEW i \in 0 .. L.dim.h - 1, NEW j \in 0 .. L.dim.w - 1
        PROVE  /\ tile(k, i, j) \in LayerTiles
               /\ Box(tile(k, i, j)) = H(i) \X W(j) /\ Channels(tile(k, i, j)) = C(k)
    BY <1>4 DEF LayerTiles
  <1>7. 0 \in 0 .. L.dim.n - 1 /\ 0 \in 0 .. L.dim.h - 1 /\ 0 \in 0 .. L.dim.w - 1
    BY DEF TilesFit, Fit
  <1> HIDE DEF tile
  <1>8. Region(0, L.out.h) = 0 .. L.out.h - 1 /\ Region(0, L.out.w) = 0 .. L.out.w - 1
    <2>1. \A k \in Nat : Region(0, k) = 0 .. k - 1
      BY DEF Region
    <2> QED
      BY <2>1 DEF TilesFit, Fit
  <1>9. UNION {Box(t) : t \in LayerTiles} = (0 .. L.out.h - 1) \X (0 .. L.out.w - 1)
    <2>1. \A t \in LayerTiles : Box(t) \subseteq (0 .. L.out.h - 1) \X (0 .. L.out.w - 1)
      BY <1>1, <1>2, <1>4, <1>5
    <2>2. ASSUME NEW x \in 0 .. L.out.h - 1, NEW y \in 0 .. L.out.w - 1
          PROVE  \E t \in LayerTiles : <<x, y>> \in Box(t)
      <3>1. PICK i \in 0 .. L.dim.h - 1 : x \in H(i)
        BY <1>1
      <3>2. PICK j \in 0 .. L.dim.w - 1 : y \in W(j)
        BY <1>2
      <3>3. tile(0, i, j) \in LayerTiles /\ <<x, y>> \in Box(tile(0, i, j))
        BY <1>6, <1>7, <3>1, <3>2
      <3> QED
        BY <3>3
    <2> QED
      BY <2>1, <2>2
  <1>10. UNION {Channels(t) : t \in LayerTiles} = 0 .. L.out.c - 1
    <2>1. \A t \in LayerTiles : Channels(t) \subseteq 0 .. L.out.c - 1
      BY <1>3, <1>4, <1>5
    <2>2. ASSUME NEW x \in 0 .. L.out.c - 1
          PROVE  \E t \in LayerTiles : x \in Channels(t)
      <3>1. PICK k \in 0 .. L.dim.n - 1 : x \in C(k)
        BY <1>3
      <3>2. tile(k, 0, 0) \in LayerTiles /\ x \in Channels(tile(k, 0, 0))
        BY <1>6, <1>7, <3>1
      <3> QED
        BY <3>2
    <2> QED
      BY <2>1, <2>2
  <1>11. ASSUME NEW t \in LayerTiles, NEW u \in LayerTiles, t # u
         PROVE  Box(t) \cap Box(u) = {} \/ Channels(t) \cap Channels(u) = {}
    <2>1. t.n # u.n \/ t.h # u.h \/ t.w # u.w
      BY <1>5, <1>11
    <2>2. CASE t.n # u.n
      BY <1>3, <1>4, <1>5, <2>2
    <2>3. CASE t.h # u.h
      <3>1. H(t.h) \cap H(u.h) = {}
        BY <1>1, <1>5, <2>3
      <3> QED
        BY <1>4, <3>1
    <2>4. CASE t.w # u.w
      <3>1. W(t.w) \cap W(u.w) = {}
        BY <1>2, <1>5, <2>4
      <3> QED
        BY <1>4, <3>1
    <2> QED
      BY <2>1, <2>2, <2>3, <2>4
  <1> QED
    BY <1>8, <1>9, <1>10, <1>11

\* How many tiles a layer has
LEMMA TilesCounted ==
  ASSUME TilesFit
  PROVE  Cardinality(LayerTiles) = L.dim.n * L.dim.h * L.dim.w
PROOF
  <1> DEFINE N == 0 .. L.dim.n - 1
             H == 0 .. L.dim.h - 1
             W == 0 .. L.dim.w - 1
             product == (N \X H) \X W
             f == [p \in product |-> [n |-> p[1][1], h |-> p[1][2], w |-> p[2], nif |-> 0]]
  <1>1. L.dim.n \in Nat /\ L.dim.h \in Nat /\ L.dim.w \in Nat
    BY DEF TilesFit, Fit
  <1>2. /\ IsFiniteSet(N) /\ Cardinality(N) = L.dim.n
        /\ IsFiniteSet(H) /\ Cardinality(H) = L.dim.h
        /\ IsFiniteSet(W) /\ Cardinality(W) = L.dim.w
    <2>1. \A k \in Nat : IsFiniteSet(0 .. k - 1) /\ Cardinality(0 .. k - 1) = k
      BY FS_Interval
    <2> QED
      BY <1>1, <2>1
  <1> HIDE DEF N, H, W
  <1>3. IsFiniteSet(product) /\ Cardinality(product) = (L.dim.n * L.dim.h) * L.dim.w
    <2>1. IsFiniteSet(N \X H) /\ Cardinality(N \X H) = L.dim.n * L.dim.h
      BY <1>2, FS_Product
    <2> QED
      BY <1>2, <2>1, FS_Product
  <1>4. LayerTiles = [n : N, h : H, w : W, nif : {0}]
    BY DEF LayerTiles, N, H, W
  <1>5. f \in Bijection(product, LayerTiles)
    <2>1. f \in [product -> LayerTiles]
      BY <1>4
    <2>2. \A p, q \in product : f[p] = f[q] => p = q
      OBVIOUS
    <2>3. ASSUME NEW t \in LayerTiles
          PROVE  \E p \in product : f[p] = t
      <3>1. <<<<t.n, t.h>>, t.w>> \in product
        BY <1>4
      <3>2. f[<<<<t.n, t.h>>, t.w>>] = t
        BY <1>4, <3>1
      <3> QED
        BY <3>1, <3>2
    <2> HIDE DEF f, product
    <2> QED
      BY <2>1, <2>2, <2>3 DEF Bijection, Injection, Surjection, IsInjective
  <1> HIDE DEF f, product
  <1>6. ExistsBijection(product, LayerTiles)
    BY <1>5 DEF ExistsBijection
  <1> QED
    BY <1>3, <1>6, FS_Bijection

------------------------------------------------------------------------------
(* Which tiles have been copied out *)

\* The tiles that the loops come to before t
ComesBefore(u, t) ==
  \/ u.n < t.n
  \/ u.n = t.n /\ u.h < t.h
  \/ u.n = t.n /\ u.h = t.h /\ u.w < t.w
Before(t) == {u \in LayerTiles : ComesBefore(u, t)}

\* The loop indexes stay within the layer, and stop behind its last tile.
IndexIn(t) ==
  /\ t.h < L.dim.h /\ t.w < L.dim.w
  /\ t.n < L.dim.n \/ (t.n = L.dim.n /\ t.h = 0 /\ t.w = 0)

\* The tiles in L2 are those the loops have left, and the current one from the
\* completion of its copy.
CopiedOut == pc[0] = "store" /\ pushed = 1 /\ dma = {}
TilesStored ==
  phase = "layer" =>
    /\ IndexIn(load[0])
    /\ pc[0] = "end" => load[0].n = L.dim.n
    /\ stored = Before(load[0]) \cup (IF CopiedOut THEN {load[0]} ELSE {})

LEMMA TileInLayer ==
  ASSUME NEW t \in Tile, IndexIn(t), t.n < L.dim.n, NetworkTypes
  PROVE  t \in LayerTiles
  BY LayersFit DEF Tile, IndexIn, LayerTiles, TilesFit, Fit

\* The first tile is the first of all, and each one is followed by the next.
LEMMA NextTileFollows ==
  ASSUME NetworkTypes, NEW t \in LayerTiles
  PROVE  IndexIn(NextTile(t)) /\ Before(NextTile(t)) = Before(t) \cup {t}
PROOF
  <1>1. L.dim.n \in Nat \ {0} /\ L.dim.h \in Nat \ {0} /\ L.dim.w \in Nat \ {0}
    BY LayersFit DEF TilesFit, Fit
  <1>2. /\ t.n \in 0 .. L.dim.n - 1 /\ t.h \in 0 .. L.dim.h - 1 /\ t.w \in 0 .. L.dim.w - 1
        /\ t = [n |-> t.n, h |-> t.h, w |-> t.w, nif |-> 0]
    BY DEF LayerTiles
  <1> DEFINE next == NextTile(t)
  <1>3. \/ t.w + 1 < L.dim.w /\ next.n = t.n /\ next.h = t.h /\ next.w = t.w + 1
        \/ /\ t.w + 1 = L.dim.w /\ t.h + 1 < L.dim.h
           /\ next.n = t.n /\ next.h = t.h + 1 /\ next.w = 0
        \/ /\ t.w + 1 = L.dim.w /\ t.h + 1 = L.dim.h
           /\ next.n = t.n + 1 /\ next.h = 0 /\ next.w = 0
    BY <1>1, <1>2 DEF NextTile
  <1> HIDE DEF next
  <1>4. ASSUME NEW u \in LayerTiles
        PROVE  ComesBefore(u, next) <=> ComesBefore(u, t) \/ u = t
    <2>1. /\ u.n \in 0 .. L.dim.n - 1 /\ u.h \in 0 .. L.dim.h - 1 /\ u.w \in 0 .. L.dim.w - 1
          /\ u = [n |-> u.n, h |-> u.h, w |-> u.w, nif |-> 0]
      BY DEF LayerTiles
    <2>2. u = t <=> u.n = t.n /\ u.h = t.h /\ u.w = t.w
      BY <1>2, <2>1
    <2> QED
      BY <1>1, <1>2, <1>3, <2>1, <2>2 DEF ComesBefore
  <1>5. Before(next) = Before(t) \cup {t}
    BY <1>4 DEF Before
  <1>6. IndexIn(next)
    <2>1. CASE t.w + 1 < L.dim.w /\ next.n = t.n /\ next.h = t.h /\ next.w = t.w + 1
      BY <1>1, <1>2, <2>1 DEF IndexIn
    <2>2. CASE /\ t.w + 1 = L.dim.w /\ t.h + 1 < L.dim.h
               /\ next.n = t.n /\ next.h = t.h + 1 /\ next.w = 0
      BY <1>1, <1>2, <2>2 DEF IndexIn
    <2>3. CASE next.n = t.n + 1 /\ next.h = 0 /\ next.w = 0
      BY <1>1, <1>2, <2>3 DEF IndexIn
    <2> QED
      BY <1>3, <2>1, <2>2, <2>3
  <1> QED
    BY <1>5, <1>6 DEF next

LEMMA FirstAndLast ==
  ASSUME NetworkTypes
  PROVE  /\ IndexIn(First) /\ Before(First) = {}
         /\ \A t : t.n = L.dim.n => Before(t) = LayerTiles
PROOF
  <1>1. L.dim.n \in Nat \ {0} /\ L.dim.h \in Nat \ {0} /\ L.dim.w \in Nat \ {0}
    BY LayersFit DEF TilesFit, Fit
  <1>2. \A u \in LayerTiles : u.n \in 0 .. L.dim.n - 1 /\ u.h \in Nat /\ u.w \in Nat
    BY <1>1 DEF LayerTiles
  <1>3. IndexIn(First)
    BY <1>1 DEF IndexIn, First
  <1>4. Before(First) = {}
    BY <1>2 DEF Before, ComesBefore, First
  <1>5. ASSUME NEW t, t.n = L.dim.n
        PROVE  Before(t) = LayerTiles
    BY <1>1, <1>2, <1>5 DEF Before, ComesBefore
  <1> QED
    BY <1>3, <1>4, <1>5

\* At the store one copy is made, of the current tile; no other stage copies out.
LEMMA StoreKnown ==
  ASSUME NetworkInv
  PROVE  /\ pc[0] = "store" => Pending(0) = <<"y">> /\ Len(Pending(0)) = 1
         /\ pc[0] = "store" => IF dma = {} THEN pushed \in {0, 1}
                               ELSE pushed = 1 /\ dma = {[what |-> "y", tile |-> load[0]]}
         /\ pc[0] # "store" => \A d \in dma : d.what # "y"
         /\ \A d \in dma : d.tile = load[0] /\ pc[0] \in {"begin", "load", "store"}
         /\ load[0] \in Tile /\ pc[0] \in Place /\ 0 \in Cores
         /\ pc[0] \notin {"stored", "end"} => load[0].n < L.dim.n
PROOF
  <1>1. NetworkTypes /\ ClusterInv
    BY DEF NetworkInv
  <1>2. load[0] \in Tile /\ pc[0] \in Place /\ 0 \in Cores /\ pushed \in Nat
    BY <1>1, ZeroIsCore DEF ClusterInv, ClusterTypes
  <1>3. pc[0] = "store" => Pending(0) = <<"y">> /\ Len(Pending(0)) = 1
    BY DEF Pending, Copies
  <1>4. /\ pc[0] \in {"begin", "load", "store"} => pushed <= Len(Pending(0))
        /\ pc[0] \notin {"begin", "load", "store"} => dma = {} /\ pushed = 0
        /\ dma # {} => pushed > 0 /\ dma = {[what |-> Pending(0)[pushed], tile |-> load[0]]}
    BY <1>1 DEF ClusterInv, CopiesInOrder
  <1>5. pc[0] = "store" => IF dma = {} THEN pushed \in {0, 1}
                           ELSE pushed = 1 /\ dma = {[what |-> "y", tile |-> load[0]]}
    BY <1>2, <1>3, <1>4
  <1>6. ASSUME pc[0] # "store", NEW d \in dma
        PROVE  d.what # "y"
    <2>1. pc[0] \in {"begin", "load"} /\ pushed \in 1 .. Len(Pending(0))
          /\ d.what = Pending(0)[pushed]
      <3>1. Pending(0) \in Seq(Regions \cup {"y"})
        BY <1>1, <1>4, <1>6, PendingKnown
      <3> QED
        BY <1>2, <1>4, <1>6, <3>1
    <2>2. d.what \in Members(Pending(0))
      BY <2>1 DEF Members
    <2>3. Members(Pending(0)) \subseteq Regions
      BY <1>1, <2>1, PendingKnown DEF Needed, Regions
    <2> QED
      BY <2>2, <2>3 DEF Regions
  <1>7. \A d \in dma : d.tile = load[0] /\ pc[0] \in {"begin", "load", "store"}
    BY <1>4
  <1>8. pc[0] \notin {"stored", "end"} => load[0].n < L.dim.n
    BY <1>1, <1>2 DEF ClusterInv, OneTile, Current
  <1> QED
    BY <1>2, <1>3, <1>5, <1>6, <1>7, <1>8

LEMMA TilesStoredStep == NetworkInv /\ TilesStored /\ [Next]_vars => TilesStored'
PROOF
  <1> SUFFICES ASSUME NetworkInv, TilesStored, [Next]_vars, phase' = "layer"
               PROVE  TilesStored'
    BY DEF TilesStored
  <1>1. NetworkTypes /\ ClusterInv
    BY DEF NetworkInv
  <1>2. CASE ForkLayer
    <2>1. /\ layer' = layer /\ load'[0] = First /\ pc'[0] \in {"load", "begin"} /\ stored' = {}
      BY <1>2, StoreKnown DEF ForkLayer
    <2>2. L' = L
      BY <2>1 DEF L
    <2>3. IndexIn(First)' /\ Before(First)' = {}
      BY <1>1, <2>2, FirstAndLast DEF IndexIn, Before, LayerTiles, ComesBefore, First
    <2> QED
      BY <2>1, <2>3 DEF TilesStored, CopiedOut, IndexIn, Before, ComesBefore
  <1>3. CASE RunAsync \/ FreeLayer \/ Finish
    BY <1>3 DEF RunAsync, FreeLayer, Finish
  <1>4. ASSUME UNCHANGED network
        PROVE  /\ L' = L /\ phase = "layer" /\ LayerTiles' = LayerTiles
               /\ \A t : IndexIn(t)' = IndexIn(t) /\ Before(t)' = Before(t)
    BY <1>4 DEF network, L, LayerTiles, IndexIn, Before, ComesBefore
  <1>5. \/ phase # "layer"
        \/ /\ IndexIn(load[0])
           /\ pc[0] = "end" => load[0].n = L.dim.n
           /\ stored = Before(load[0]) \cup (IF CopiedOut THEN {load[0]} ELSE {})
    BY DEF TilesStored
  <1>6. ASSUME UNCHANGED <<network, pc, load, stored>>, CopiedOut' <=> CopiedOut
        PROVE  TilesStored'
    BY <1>4, <1>5, <1>6 DEF TilesStored
  <1>7. ASSUME NEW c \in Cores, Push(c)
        PROVE  TilesStored'
    <2>1. UNCHANGED <<network, pc, load, stored>> /\ c = 0 /\ dma = {} /\ dma' # {}
          /\ pushed < Len(Pending(0))
      BY <1>7 DEF Push
    <2>2. ~CopiedOut
      <3>1. SUFFICES ASSUME pc[0] = "store", pushed = 1 PROVE FALSE
        BY DEF CopiedOut
      <3>2. Len(Pending(0)) = 1
        BY <3>1, StoreKnown
      <3>3. 1 < 1
        BY <2>1, <3>1, <3>2
      <3> QED
        BY <3>3
    <2>3. ~CopiedOut'
      BY <2>1 DEF CopiedOut
    <2> QED
      BY <1>6, <2>1, <2>2, <2>3
  <1>8. ASSUME NEW c \in Cores, Kernel(c)
        PROVE  TilesStored'
    <2>1. UNCHANGED <<network, load, stored, pushed, dma>>
          /\ pc[c] \in {"kernel", "second"}
          /\ (pc' = [pc EXCEPT ![c] = "halfway"] \/ pc' = [pc EXCEPT ![c] = "computed"])
      BY <1>8 DEF Kernel
    <2>2. pc[0] # "store" => pc'[0] \notin {"store", "end"} \/ pc'[0] = pc[0]
      BY <1>1, <2>1, StoreKnown DEF ClusterInv, ClusterTypes
    <2>3. pc[0] = "store" => pc'[0] = pc[0]
      BY <1>1, <2>1, StoreKnown DEF ClusterInv, ClusterTypes
    <2>4. CopiedOut' = CopiedOut
      BY <2>1, <2>2, <2>3 DEF CopiedOut
    <2> QED
      BY <1>4, <1>5, <2>1, <2>2, <2>3, <2>4 DEF TilesStored
  <1>9. CASE TransferDone
    <2>1. PICK d \in dma : IF d.what = "y" THEN stored' = stored \cup {d.tile} ELSE stored' = stored
      BY <1>9 DEF TransferDone
    <2>2. UNCHANGED <<network, pc, load, pushed>> /\ dma' = {} /\ dma # {}
      BY <1>9 DEF TransferDone
    <2>3. ~CopiedOut
      BY <2>2 DEF CopiedOut
    <2>4. CASE pc[0] = "store"
      <3>1. d.what = "y" /\ d.tile = load[0] /\ pushed = 1
        BY <2>1, <2>2, <2>4, StoreKnown
      <3>2. CopiedOut'
        BY <2>2, <2>4, <3>1 DEF CopiedOut
      <3> QED
        BY <1>4, <1>5, <2>1, <2>2, <2>3, <3>1, <3>2 DEF TilesStored
    <2>5. CASE pc[0] # "store"
      <3>1. stored' = stored
        BY <2>1, <2>5, StoreKnown
      <3>2. ~CopiedOut'
        BY <2>2, <2>5 DEF CopiedOut
      <3> QED
        BY <1>6, <2>2, <2>3, <3>1, <3>2
    <2> QED
      BY <2>4, <2>5
  <1>10. ASSUME NEW c \in Cores, Arrive(c)
         PROVE  TilesStored'
    <2>1. UNCHANGED <<network, dma, stored>> /\ pc[c] \in {"begin", "load", "store"}
      BY <1>10 DEF Arrive
    <2>2. CASE c # 0
      <3>1. pc'[0] = pc[0] /\ load'[0] = load[0] /\ pushed' = pushed
        BY <1>1, <1>10, <2>2, StoreKnown DEF Arrive, ClusterInv, ClusterTypes
      <3> QED
        BY <1>4, <1>5, <2>1, <3>1 DEF TilesStored, CopiedOut
    <2>3. CASE c = 0 /\ pc[0] # "store"
      <3>1. pc'[0] \in {"begun", "loaded"} /\ load' = load /\ pc[0] # "end"
        BY <1>1, <1>10, <2>1, <2>3, StoreKnown DEF Arrive, ClusterInv, ClusterTypes
      <3> QED
        BY <1>4, <1>5, <2>1, <2>3, <3>1 DEF TilesStored, CopiedOut
    <2>4. CASE c = 0 /\ pc[0] = "store"
      <3>1. pc'[0] = "stored" /\ load'[0] = NextTile(load[0])
        BY <1>1, <1>10, <2>4, StoreKnown DEF Arrive, ClusterInv, ClusterTypes
      <3>2. dma = {} /\ pushed = 1
        BY <1>10, <2>4, StoreKnown DEF Arrive, Waited
      <3>3. stored = Before(load[0]) \cup {load[0]} /\ IndexIn(load[0])
        BY <1>4, <1>5, <2>1, <2>4, <3>2 DEF CopiedOut
      <3>4. load[0] \in LayerTiles
        BY <1>1, <2>4, <3>3, StoreKnown, TileInLayer
      <3>5. IndexIn(NextTile(load[0])) /\ Before(NextTile(load[0])) = stored
        BY <1>1, <3>3, <3>4, NextTileFollows
      <3>6. ~CopiedOut'
        BY <3>1 DEF CopiedOut
      <3>7. IndexIn(load[0])' /\ Before(load[0])' = stored'
        BY <1>4, <2>1, <3>1, <3>5 DEF IndexIn, Before, ComesBefore
      <3> QED
        BY <3>1, <3>6, <3>7 DEF TilesStored
    <2> QED
      BY <2>2, <2>3, <2>4
  <1>11. CASE BarrierReleases
    <2>1. UNCHANGED <<network, load, pushed, dma, stored>> /\ pc'[0] = Beyond(0)
          /\ pc[0] \in {"begun", "loaded", "halfway", "computed", "stored"}
      BY <1>11, StoreKnown DEF BarrierReleases
    <2>2. ~CopiedOut
      BY <2>1 DEF CopiedOut
    <2>3. pushed = 0
      BY <1>1, <2>1 DEF ClusterInv, CopiesInOrder
    <2>4. ~CopiedOut'
      BY <2>1, <2>3 DEF CopiedOut
    <2>5. pc'[0] = "end" => load[0].n = L.dim.n
      BY <2>1 DEF Beyond
    <2> QED
      BY <1>4, <1>5, <2>1, <2>2, <2>4, <2>5 DEF TilesStored
  <1>12. CASE UNCHANGED vars
    BY <1>6, <1>12 DEF vars, cluster, CopiedOut
  <1> QED
    BY <1>2, <1>3, <1>7, <1>8, <1>9, <1>10, <1>11, <1>12 DEF Next, CoreStep

LEMMA TilesStoredAlways == Spec => []TilesStored
PROOF
  <1>1. Init => TilesStored
    BY DEF Init, TilesStored
  <1> QED
    BY <1>1, TilesStoredStep, NetworkInvariant, PTL DEF Spec

------------------------------------------------------------------------------
(* The tiling as a whole *)

\* What core 0 copies into and out of L1 is the tile and what its windows need of the
\* input; the cores' shares of a tile do not meet and leave nothing out; and when the
\* layer ends its output has been stored, each tile of it once, for every set of cores.
THEOREM TilingStaysExact == Spec => []TilingExact
PROOF
  <1>1. NetworkInv /\ TilesStored => TilingExact
    <2> SUFFICES ASSUME NetworkInv, TilesStored
                 PROVE  TilingExact
      OBVIOUS
    <2>1. NetworkTypes /\ Together
      BY DEF NetworkInv, ClusterInv
    <2>2. TilesExact
      <3> SUFFICES ASSUME NEW d \in dma
                   PROVE  /\ L1Fits
                          /\ CopiesBox(XCopy(L, d.tile), XAddress(L, d.tile), L.in.w, L.in.c)
                          /\ WindowsCovered(d.tile, "h") /\ WindowsCovered(d.tile, "w")
                          /\ CopiesBox(YCopy(L, d.tile), YAddress(L, d.tile), L.out.w, L.out.c)
        BY DEF TilesExact
      <3>1. /\ d.tile = load[0] /\ load[0] \in Tile /\ 0 \in Cores
            /\ pc[0] \in {"begin", "load", "store"} /\ load[0].n < L.dim.n
        BY StoreKnown
      <3>2. phase = "layer"
        BY <2>1, <3>1 DEF Together
      <3>3. load[0] \in LayerTiles
        BY <2>1, <3>1, <3>2, TileInLayer DEF TilesStored
      <3>4. load[0]["h"] \in 0 .. L.dim["h"] - 1 /\ load[0]["w"] \in 0 .. L.dim["w"] - 1
        BY <3>3 DEF LayerTiles
      <3>5. WindowsCovered(load[0], "h") /\ WindowsCovered(load[0], "w")
        BY <2>1, <3>4, LayersCovering, WindowsKnown
      <3> QED
        BY <2>1, <3>1, <3>5, LayersInL1, TileCopied
    <2>3. /\ UNION {Share(L, load[0], c) : c \in 0 .. NumCores - 1} = WholeTile(L, load[0])
          /\ \A c, d \in 0 .. NumCores - 1 :
               c < d => Share(L, load[0], c) \cap Share(L, load[0], d) = {}
      <3> DEFINE share == [c \in 0 .. NumCores - 1 |-> Share(L, load[0], c)]
      <3>1. \A c \in 0 .. NumCores - 1 : share[c] = Share(L, load[0], c)
        OBVIOUS
      <3>2. Divides(share, WholeTile(L, load[0]))
        BY <2>1, WorkShared
      <3> HIDE DEF share
      <3> QED
        BY <3>1, <3>2 DEF Divides
    <2>4. ASSUME phase = "layer", \A c \in Cores : pc[c] = "end"
          PROVE  stored = LayerTiles
      <3>1. pc[0] = "end" /\ ~CopiedOut
        BY <2>4, StoreKnown DEF CopiedOut
      <3>2. load[0].n = L.dim.n /\ stored = Before(load[0])
        BY <2>4, <3>1 DEF TilesStored
      <3> QED
        BY <2>1, <3>2, FirstAndLast
    <2>5. TilesFit
      BY <2>1, LayersFit
    <2>6. WorkDividedExactly
      BY <2>3, <2>4, <2>5, TilesDivideOutput, TilesCounted DEF WorkDividedExactly
    <2> QED
      BY <2>2, <2>6 DEF TilingExact
  <1> QED
    BY <1>1, NetworkInvariant, TilesStoredAlways, PTL
=============================================================================
