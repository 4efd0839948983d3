------------------------- MODULE CameraPipelineProofs -------------------------
(***************************************************************************)
(* Theorems about CameraPipeline, for both builds, every size of the       *)
(* wrapping counters and however the client comes and goes.                *)
(***************************************************************************)
EXTENDS CameraPipeline, SequenceTheorems, TLAPS

\* capture_done has handed a frame over, and camera_task has not seen it yet.
Signalled == done_bit \/ cb = "signal"

\* Statements of camera_task while the camera streams
Streaming ==
  {"end_request", "end_wait", "requeue", "end_take", "clear", "discard", "drain",
   "clear_again", "reset"}

\* The flags of camera_task follow from the statement it executes next ...
FlagsFollow ==
  /\ camera_streaming => mode = "pipelined"
  /\ pc = "process" => (camera_streaming <=> mode = "pipelined")
  /\ pc \in Streaming => camera_streaming
  /\ pc \notin Streaming \cup {"check", "process"} => ~camera_streaming
  /\ discarding_captures <=> pc \in {"drain", "clear_again", "reset"}
  /\ pc \in {"second", "third"} => mode = "pipelined"
  /\ pc = "stop_frame" => mode = "start-stop"

\* ... and consumer_waiting and the done bit from the hand-over in between.
HandOverFollows ==
  /\ ~(done_bit /\ cb = "signal")
  /\ pc \in {"first", "second", "start"} => consumer_waiting
  /\ pc \in {"wait", "end_wait"} => (consumer_waiting <=> ~Signalled)
  /\ pc \notin {"first", "second", "start", "wait", "end_wait"} => ~consumer_waiting
  /\ pc \notin {"wait", "end_wait", "drain"} => ~Signalled

\* The camera is off before the first capture is scheduled, so that none is filled.
CameraOff ==
  /\ \/ pc \in {"init", "halted", "request", "first", "second", "start"}
     \/ pc = "check" /\ ~camera_streaming
     \/ pc \in {"take", "process"} /\ mode = "start-stop"
     => ~camera_on
  /\ pc \in {"second", "start"} => completed = << >> /\ cb = "idle"

Pipelined(n) == IF mode = "pipelined" THEN n ELSE 0

\* The number of captures that camera_task has under way
Captures ==
  CASE pc \in {"init", "halted", "request", "first"} -> 0
    [] pc \in {"clear_again", "reset", "stop"} -> 0
    [] pc = "second" -> 1
    [] pc = "start" -> 1 + Pipelined(1)
    [] pc = "wait" -> IF consumer_waiting THEN 1 + Pipelined(1) ELSE Pipelined(1)
    [] pc \in {"stop_frame", "take"} -> Pipelined(1)
    [] pc \in {"third", "requeue"} -> 1
    [] pc = "end_wait" -> IF consumer_waiting THEN 2 ELSE 1
    [] pc = "check" -> IF camera_streaming THEN 2 ELSE 0
    [] OTHER -> Pipelined(2)

CapturesCounted ==
  /\ pc # "drain" => Len(UnderWay) = Captures
  /\ pc = "drain" => Len(UnderWay) <= 2 /\ (Len(UnderWay) = 0 <=> Signalled)

CountersAgree == outstanding_captures = Len(UnderWay)

\* The buffers under way, and the ones that must not be among them
Busy == Range(UnderWay)
BuffersApart ==
  /\ pc \in {"second", "start", "wait", "take", "third"} /\ mode = "pipelined" => 0 \notin Busy
  /\ pc = "second" => 2 \notin Busy
  /\ pc = "wait" /\ mode = "pipelined" /\ ~consumer_waiting => ready_buffer \notin Busy \cup {0}
  /\ pc = "take" /\ mode = "pipelined" => ready_buffer \notin Busy \cup {0}
  /\ pc = "third" => processing_buffer # 0
  /\ FrameInHand => processing_buffer \notin Busy
  /\ \/ pc = "end_wait" /\ ~consumer_waiting
     \/ pc = "requeue"
     => ready_buffer \notin Busy \cup {processing_buffer}
  /\ pc = "end_take" => ready_buffer \notin Busy

PipelineInv ==
  /\ TypeOK
  /\ FlagsFollow
  /\ HandOverFollows
  /\ CameraOff
  /\ CapturesCounted
  /\ CountersAgree
  /\ EachBufferOnce
  /\ BuffersApart
------------------------------------------------------------------------------
(* The three lists of captures, and the counters *)

LEMMA AppendOnce ==
  ASSUME NEW S, NEW s \in Seq(S), NEW e \in S
  PROVE  /\ Range(Append(s, e)) = Range(s) \cup {e}
         /\ IsInjective(Append(s, e)) <=> IsInjective(s) /\ e \notin Range(s)
PROOF
  <1>1. /\ Append(s, e) \in Seq(S) /\ Len(Append(s, e)) = Len(s) + 1 /\ Len(s) \in Nat
        /\ \A i \in 1 .. Len(s) : Append(s, e)[i] = s[i]
        /\ Append(s, e)[Len(s) + 1] = e
        /\ DOMAIN s = 1 .. Len(s) /\ DOMAIN Append(s, e) = 1 .. Len(s) + 1
    OBVIOUS
  <1> HIDE <1>1
  <1>2. Range(Append(s, e)) = Range(s) \cup {e}
    <2>1. Range(Append(s, e)) \subseteq Range(s) \cup {e}
      BY <1>1 DEF Range
    <2>2. Range(s) \cup {e} \subseteq Range(Append(s, e))
      BY <1>1 DEF Range
    <2> QED
      BY <2>1, <2>2
  <1>3. IsInjective(Append(s, e)) => IsInjective(s) /\ e \notin Range(s)
    BY <1>1 DEF IsInjective, Range
  <1>4. IsInjective(s) /\ e \notin Range(s) => IsInjective(Append(s, e))
    BY <1>1 DEF IsInjective, Range
  <1> QED
    BY <1>2, <1>3, <1>4

LEMMA TailOnce ==
  ASSUME NEW S, NEW s \in Seq(S), s # << >>
  PROVE  /\ Range(s) = {Head(s)} \cup Range(Tail(s))
         /\ IsInjective(s) => IsInjective(Tail(s)) /\ Head(s) \notin Range(Tail(s))
PROOF
  <1>1. /\ Tail(s) \in Seq(S) /\ Len(s) \in Nat \ {0} /\ Len(Tail(s)) = Len(s) - 1
        /\ \A i \in 1 .. Len(s) - 1 : Tail(s)[i] = s[i + 1]
        /\ Head(s) = s[1]
        /\ DOMAIN s = 1 .. Len(s) /\ DOMAIN Tail(s) = 1 .. Len(s) - 1
    OBVIOUS
  <1>2. Range(s) \subseteq {Head(s)} \cup Range(Tail(s))
    <2> SUFFICES ASSUME NEW i \in 1 .. Len(s), i # 1
                 PROVE  s[i] \in Range(Tail(s))
      BY <1>1 DEF Range
    <2>1. i - 1 \in 1 .. Len(s) - 1 /\ Tail(s)[i - 1] = s[i]
      BY <1>1
    <2> QED
      BY <1>1, <2>1 DEF Range
  <1>3. {Head(s)} \cup Range(Tail(s)) \subseteq Range(s)
    BY <1>1 DEF Range
  <1>4. IsInjective(s) => IsInjective(Tail(s)) /\ Head(s) \notin Range(Tail(s))
    BY <1>1 DEF IsInjective, Range
  <1> QED
    BY <1>2, <1>3, <1>4

LEMMA ConcatOnce ==
  ASSUME NEW S, NEW s \in Seq(S), NEW t \in Seq(S)
  PROVE  IsInjective(s \o t) <=> /\ IsInjective(s) /\ IsInjective(t)
                                 /\ Range(s) \cap Range(t) = {}
PROOF
  <1>1. /\ Len(s) \in Nat /\ Len(t) \in Nat
        /\ DOMAIN s = 1 .. Len(s) /\ DOMAIN t = 1 .. Len(t)
        /\ DOMAIN (s \o t) = 1 .. Len(s) + Len(t)
        /\ \A i \in 1 .. Len(s) : (s \o t)[i] = s[i]
        /\ \A i \in 1 .. Len(t) : (s \o t)[Len(s) + i] = t[i]
    OBVIOUS
  <1>2. ASSUME IsInjective(s \o t)
        PROVE  IsInjective(s) /\ IsInjective(t) /\ Range(s) \cap Range(t) = {}
    <2>1. \A i \in 1 .. Len(s), j \in 1 .. Len(t) : s[i] # t[j]
      BY <1>1, <1>2 DEF IsInjective
    <2>2. IsInjective(s)
      BY <1>1, <1>2 DEF IsInjective
    <2>3. IsInjective(t)
      <3> SUFFICES ASSUME NEW i \in 1 .. Len(t), NEW j \in 1 .. Len(t), t[i] = t[j]
                   PROVE  i = j
        BY <1>1 DEF IsInjective
      <3>1. /\ Len(s) + i \in DOMAIN (s \o t) /\ Len(s) + j \in DOMAIN (s \o t)
            /\ (s \o t)[Len(s) + i] = (s \o t)[Len(s) + j]
        BY <1>1
      <3>2. Len(s) + i = Len(s) + j
        BY <1>2, <3>1 DEF IsInjective
      <3> QED
        BY <1>1, <3>2
    <2> QED
      BY <1>1, <2>1, <2>2, <2>3 DEF Range
  <1>3. ASSUME IsInjective(s), IsInjective(t), Range(s) \cap Range(t) = {}
        PROVE  IsInjective(s \o t)
    <2>1. \A i \in 1 .. Len(s), j \in 1 .. Len(t) : s[i] # t[j]
      BY <1>1, <1>3 DEF Range
    <2>2. \A i \in 1 .. Len(s) + Len(t) :
             i \in 1 .. Len(s) \/ (i - Len(s) \in 1 .. Len(t) /\ (s \o t)[i] = t[i - Len(s)])
      BY <1>1
    <2> SUFFICES ASSUME NEW i \in 1 .. Len(s) + Len(t), NEW j \in 1 .. Len(s) + Len(t),
                        (s \o t)[i] = (s \o t)[j]
                 PROVE  i = j
      BY <1>1 DEF IsInjective
    <2>3. CASE i \in 1 .. Len(s) /\ j \in 1 .. Len(s)
      BY <1>1, <1>3, <2>3 DEF IsInjective
    <2>4. CASE i \notin 1 .. Len(s) /\ j \notin 1 .. Len(s)
      <3>1. i - Len(s) = j - Len(s)
        BY <1>1, <1>3, <2>2, <2>4 DEF IsInjective
      <3> QED
        BY <1>1, <3>1
    <2>5. CASE i \in 1 .. Len(s) /\ j \notin 1 .. Len(s)
      BY <1>1, <2>1, <2>2, <2>5
    <2>6. CASE i \notin 1 .. Len(s) /\ j \in 1 .. Len(s)
      BY <1>1, <2>1, <2>2, <2>6
    <2> QED
      BY <2>3, <2>4, <2>5, <2>6
  <1> QED
    BY <1>2, <1>3

\* The difference of two wrapping counters follows an increment of either, as long as
\* it does not reach their size.
LEMMA CountersWrap ==
  ASSUME NEW q \in 0 .. CounterSize - 1, NEW c \in 0 .. CounterSize - 1
  PROVE  /\ Incremented(q) \in 0 .. CounterSize - 1
         /\ (q - c) % CounterSize = IF q >= c THEN q - c ELSE q - c + CounterSize
         /\ Incremented(q) = IF q = CounterSize - 1 THEN 0 ELSE q + 1
  BY CounterAssumption DEF Incremented

LEMMA CountOneMore ==
  ASSUME NEW q \in 0 .. CounterSize - 1, NEW c \in 0 .. CounterSize - 1,
         (q - c) % CounterSize < CounterSize - 1
  PROVE  (Incremented(q) - c) % CounterSize = ((q - c) % CounterSize) + 1
PROOF
  <1> DEFINE n == Incremented(q)
             before == (q - c) % CounterSize
             after == (n - c) % CounterSize
  <1>1. /\ n \in 0 .. CounterSize - 1
        /\ n = IF q = CounterSize - 1 THEN 0 ELSE q + 1
        /\ before = IF q >= c THEN q - c ELSE q - c + CounterSize
    BY CountersWrap
  <1>2. after = IF n >= c THEN n - c ELSE n - c + CounterSize
    BY <1>1, CountersWrap
  <1>3. before < CounterSize - 1
    OBVIOUS
  <1> HIDE DEF n, before, after
  <1>4. after = before + 1
    BY <1>1, <1>2, <1>3, CounterAssumption
  <1> QED
    BY <1>4 DEF n, before, after

LEMMA CountOneLess ==
  ASSUME NEW q \in 0 .. CounterSize - 1, NEW c \in 0 .. CounterSize - 1,
         (q - c) % CounterSize > 0
  PROVE  (q - Incremented(c)) % CounterSize = ((q - c) % CounterSize) - 1
PROOF
  <1> DEFINE n == Incremented(c)
             before == (q - c) % CounterSize
             after == (q - n) % CounterSize
  <1>1. /\ n \in 0 .. CounterSize - 1
        /\ n = IF c = CounterSize - 1 THEN 0 ELSE c + 1
        /\ before = IF q >= c THEN q - c ELSE q - c + CounterSize
    BY CountersWrap
  <1>2. after = IF q >= n THEN q - n ELSE q - n + CounterSize
    BY <1>1, CountersWrap
  <1>3. before > 0
    OBVIOUS
  <1> HIDE DEF n, before, after
  <1>4. after = before - 1
    BY <1>1, <1>2, <1>3, CounterAssumption
  <1> QED
    BY <1>4 DEF n, before, after
------------------------------------------------------------------------------
(* What a step does to the captures under way *)

\* The captures as one list: how many, which buffers, and when each is there once
PartsKnown ==
  /\ Len(UnderWay) = Len(dma) + Len(completed) + Len(InCallback)
  /\ Len(dma) \in Nat /\ Len(completed) \in Nat
  /\ Busy = Range(dma) \cup Range(completed) \cup Range(InCallback)
  /\ Len(UnderWay) = 0 => Busy = {}
  /\ EachBufferOnce <=> /\ IsInjective(dma) /\ IsInjective(completed)
                        /\ Range(dma) \cap Range(completed) = {}
                        /\ (Range(dma) \cup Range(completed)) \cap Range(InCallback) = {}
  /\ IF cb \in {"entered", "not_discarding"}
       THEN Len(InCallback) = 1 /\ Range(InCallback) = {cb_buffer}
       ELSE Len(InCallback) = 0 /\ Range(InCallback) = {}

LEMMA UnderWayParts == TypeOK => PartsKnown
PROOF
  <1> SUFFICES ASSUME TypeOK
               PROVE  PartsKnown
    OBVIOUS
  <1>1. dma \in Seq(Buffer) /\ completed \in Seq(Buffer) /\ cb_buffer \in Buffer
    BY DEF TypeOK
  <1>2. /\ InCallback \in Seq(Buffer) /\ IsInjective(InCallback)
        /\ IF cb \in {"entered", "not_discarding"}
             THEN Len(InCallback) = 1 /\ Range(InCallback) = {cb_buffer}
             ELSE Len(InCallback) = 0 /\ Range(InCallback) = {}
    <2>1. CASE cb \in {"entered", "not_discarding"}
      <3>1. InCallback = <<cb_buffer>>
        BY <2>1 DEF InCallback
      <3>2. /\ <<cb_buffer>> \in Seq(Buffer) /\ Len(<<cb_buffer>>) = 1
            /\ DOMAIN <<cb_buffer>> = {1} /\ <<cb_buffer>>[1] = cb_buffer
        BY <1>1
      <3>3. Range(<<cb_buffer>>) = {cb_buffer} /\ IsInjective(<<cb_buffer>>)
        BY <3>2 DEF Range, IsInjective
      <3> QED
        BY <2>1, <3>1, <3>2, <3>3
    <2>2. CASE cb \notin {"entered", "not_discarding"}
      <3>1. InCallback = << >>
        BY <2>2 DEF InCallback
      <3>2. << >> \in Seq(Buffer) /\ Len(<< >>) = 0 /\ DOMAIN << >> = {}
        OBVIOUS
      <3>3. Range(<< >>) = {} /\ IsInjective(<< >>)
        BY <3>2 DEF Range, IsInjective
      <3> QED
        BY <2>2, <3>1, <3>2, <3>3
    <2> QED
      BY <2>1, <2>2
  <1>3. dma \o completed \in Seq(Buffer) /\ Len(dma \o completed) = Len(dma) + Len(completed)
    BY <1>1
  <1>4. Range(dma \o completed) = Range(dma) \cup Range(completed)
    BY <1>1, RangeConcatenation
  <1>5. Busy = Range(dma \o completed) \cup Range(InCallback)
    <2> DEFINE taken == dma \o completed
    <2>1. UnderWay = taken \o InCallback /\ taken \in Seq(Buffer)
      BY <1>3 DEF UnderWay
    <2> HIDE DEF taken
    <2>2. Busy = Range(taken) \cup Range(InCallback)
      BY <1>2, <2>1, RangeConcatenation DEF Busy
    <2> QED
      BY <2>2 DEF taken
  <1>6. EachBufferOnce <=> /\ IsInjective(dma \o completed) /\ IsInjective(InCallback)
                           /\ Range(dma \o completed) \cap Range(InCallback) = {}
    BY <1>2, <1>3, ConcatOnce DEF EachBufferOnce, UnderWay
  <1>7. IsInjective(dma \o completed) <=> /\ IsInjective(dma) /\ IsInjective(completed)
                                          /\ Range(dma) \cap Range(completed) = {}
    BY <1>1, ConcatOnce
  <1>8. Len(UnderWay) = Len(dma) + Len(completed) + Len(InCallback)
    BY <1>2, <1>3 DEF UnderWay
  <1>9. Len(UnderWay) = 0 => Busy = {}
    <2>1. UnderWay \in Seq(Buffer)
      BY <1>2, <1>3 DEF UnderWay
    <2>2. Len(UnderWay) = 0 => DOMAIN UnderWay = {}
      BY <2>1
    <2> QED
      BY <2>2 DEF Busy, Range
  <1> QED
    BY <1>1, <1>2, <1>4, <1>5, <1>6, <1>7, <1>8, <1>9 DEF PartsKnown

\* They are known before and after a step.
LEMMA PartsBeforeAndAfter ==
  ASSUME TypeOK, TypeOK'
  PROVE  PartsKnown /\ PartsKnown'
  BY UnderWayParts, PTL

\* A capture is scheduled.
Scheduled(b) ==
  /\ Len(UnderWay)' = Len(UnderWay) + 1
  /\ Busy' = Busy \cup {b}
  /\ EachBufferOnce /\ b \notin Busy => EachBufferOnce'

LEMMA SchedulingAddsOne ==
  ASSUME TypeOK, TypeOK', NEW b \in Buffer,
         dma' = Append(dma, b), UNCHANGED <<completed, cb, cb_buffer>>
  PROVE  Scheduled(b)
PROOF
  <1>1. dma \in Seq(Buffer)
    BY DEF TypeOK
  <1>2. /\ Len(dma') = Len(dma) + 1
        /\ Range(dma') = Range(dma) \cup {b}
        /\ IsInjective(dma') <=> IsInjective(dma) /\ b \notin Range(dma)
    BY <1>1, AppendOnce
  <1>3. UNCHANGED InCallback
    BY DEF InCallback
  <1> QED
    BY <1>2, <1>3, PartsBeforeAndAfter DEF Scheduled, PartsKnown

\* A capture moves on from the driver to capture_done, or back from there.
Moved ==
  /\ Len(UnderWay)' = Len(UnderWay)
  /\ Busy' = Busy
  /\ EachBufferOnce => EachBufferOnce'

LEMMA CapturingMoves ==
  ASSUME TypeOK, TypeOK', FrameCaptured
  PROVE  Moved
PROOF
  <1>1. /\ dma \in Seq(Buffer) /\ dma # << >> /\ completed \in Seq(Buffer)
        /\ dma' = Tail(dma) /\ completed' = Append(completed, Head(dma))
    BY DEF TypeOK, FrameCaptured
  <1>2. Head(dma) \in Buffer /\ Len(dma') = Len(dma) - 1 /\ Len(completed') = Len(completed) + 1
    BY <1>1
  <1>3. /\ Range(dma) = {Head(dma)} \cup Range(dma')
        /\ IsInjective(dma) => IsInjective(dma') /\ Head(dma) \notin Range(dma')
    BY <1>1, TailOnce
  <1>4. /\ Range(completed') = Range(completed) \cup {Head(dma)}
        /\ IsInjective(completed') <=> IsInjective(completed) /\ Head(dma) \notin Range(completed)
    BY <1>1, <1>2, AppendOnce
  <1>5. UNCHANGED InCallback
    BY DEF FrameCaptured, InCallback
  <1>6. Len(UnderWay)' = Len(UnderWay)
    BY <1>2, <1>5, PartsBeforeAndAfter DEF PartsKnown
  <1>7. Busy' = Busy
    BY <1>3, <1>4, <1>5, PartsBeforeAndAfter DEF PartsKnown
  <1>8. EachBufferOnce => EachBufferOnce'
    BY <1>3, <1>4, <1>5, PartsBeforeAndAfter DEF PartsKnown
  <1> QED
    BY <1>6, <1>7, <1>8 DEF Moved

LEMMA EnteringMoves ==
  ASSUME TypeOK, TypeOK', EnterCallback
  PROVE  Moved
PROOF
  <1>1. /\ completed \in Seq(Buffer) /\ completed # << >>
        /\ cb_buffer' = Head(completed) /\ completed' = Tail(completed)
        /\ cb = "idle" /\ cb' = "entered" /\ UNCHANGED dma
    BY DEF TypeOK, EnterCallback
  <1>2. Len(completed') = Len(completed) - 1
    BY <1>1
  <1>3. /\ Range(completed) = {cb_buffer'} \cup Range(completed')
        /\ IsInjective(completed) => IsInjective(completed') /\ cb_buffer' \notin Range(completed')
    BY <1>1, TailOnce
  <1>4. /\ Len(InCallback) = 0 /\ Len(InCallback)' = 1
        /\ Range(InCallback) = {} /\ Range(InCallback)' = {cb_buffer'}
    BY <1>1, PartsBeforeAndAfter DEF PartsKnown
  <1>5. Len(UnderWay)' = Len(UnderWay)
    BY <1>1, <1>2, <1>4, PartsBeforeAndAfter DEF PartsKnown
  <1>6. Busy' = Busy
    BY <1>1, <1>3, <1>4, PartsBeforeAndAfter DEF PartsKnown
  <1>7. EachBufferOnce => EachBufferOnce'
    BY <1>1, <1>3, <1>4, PartsBeforeAndAfter DEF PartsKnown
  <1> QED
    BY <1>5, <1>6, <1>7 DEF Moved

LEMMA DroppingMoves ==
  ASSUME TypeOK, TypeOK', DropFrame
  PROVE  Moved
PROOF
  <1>1. /\ dma \in Seq(Buffer) /\ cb_buffer \in Buffer
        /\ dma' = Append(dma, cb_buffer)
        /\ cb = "not_discarding" /\ cb' = "idle" /\ UNCHANGED completed
    BY DEF TypeOK, DropFrame
  <1>2. /\ Len(dma') = Len(dma) + 1
        /\ Range(dma') = Range(dma) \cup {cb_buffer}
        /\ IsInjective(dma') <=> IsInjective(dma) /\ cb_buffer \notin Range(dma)
    BY <1>1, AppendOnce
  <1>3. /\ Len(InCallback) = 1 /\ Len(InCallback)' = 0
        /\ Range(InCallback) = {cb_buffer} /\ Range(InCallback)' = {}
    BY <1>1, PartsBeforeAndAfter DEF PartsKnown
  <1>4. Len(UnderWay)' = Len(UnderWay)
    BY <1>1, <1>2, <1>3, PartsBeforeAndAfter DEF PartsKnown
  <1>5. Busy' = Busy
    BY <1>1, <1>2, <1>3, PartsBeforeAndAfter DEF PartsKnown
  <1>6. EachBufferOnce => EachBufferOnce'
    BY <1>1, <1>2, <1>3, PartsBeforeAndAfter DEF PartsKnown
  <1> QED
    BY <1>4, <1>5, <1>6 DEF Moved

LEMMA StayingMoves ==
  ASSUME TypeOK, TypeOK', UNCHANGED <<dma, completed, cb_buffer>>,
         cb \in {"entered", "not_discarding"} <=> cb' \in {"entered", "not_discarding"}
  PROVE  Moved
PROOF
  <1>1. UNCHANGED UnderWay
    BY DEF UnderWay, InCallback
  <1> QED
    BY <1>1 DEF Moved, Busy, EachBufferOnce

\* capture_done takes a capture out, for good.
Completed ==
  /\ Len(UnderWay)' = Len(UnderWay) - 1 /\ Len(UnderWay) > 0
  /\ Busy' \subseteq Busy
  /\ EachBufferOnce => EachBufferOnce' /\ cb_buffer \notin Busy' /\ cb_buffer \in Busy

LEMMA CallbackTakesOut ==
  ASSUME TypeOK, TypeOK', HandOver \/ DiscardCapture
  PROVE  Completed
PROOF
  <1>1. /\ cb \in {"entered", "not_discarding"} /\ cb' \notin {"entered", "not_discarding"}
        /\ UNCHANGED <<dma, completed, cb_buffer>>
    BY DEF HandOver, DiscardCapture
  <1>2. /\ Len(InCallback) = 1 /\ Len(InCallback)' = 0
        /\ Range(InCallback) = {cb_buffer} /\ Range(InCallback)' = {}
    BY <1>1, PartsBeforeAndAfter DEF PartsKnown
  <1>3. Len(UnderWay)' = Len(UnderWay) - 1 /\ Len(UnderWay) > 0
    BY <1>1, <1>2, PartsBeforeAndAfter DEF PartsKnown
  <1>4. Busy' \subseteq Busy /\ cb_buffer \in Busy
    BY <1>1, <1>2, PartsBeforeAndAfter DEF PartsKnown
  <1>5. EachBufferOnce => EachBufferOnce' /\ cb_buffer \notin Busy'
    BY <1>1, <1>2, PartsBeforeAndAfter DEF PartsKnown
  <1> QED
    BY <1>3, <1>4, <1>5 DEF Completed

\* The counters follow the captures.
LEMMA CountersFollow ==
  ASSUME TypeOK, TypeOK', CountersAgree,
         \/ /\ \E b \in Buffer : Scheduled(b)
            /\ Len(UnderWay) < 3
            /\ captures_queued' = Incremented(captures_queued) /\ UNCHANGED captures_completed
         \/ Moved /\ UNCHANGED counters
         \/ /\ Completed
            /\ captures_completed' = Incremented(captures_completed) /\ UNCHANGED captures_queued
  PROVE  CountersAgree'
PROOF
  <1>1. captures_queued \in 0 .. CounterSize - 1 /\ captures_completed \in 0 .. CounterSize - 1
    BY DEF TypeOK
  <1>2. Len(UnderWay) \in Nat
    BY UnderWayParts DEF PartsKnown, InCallback
  <1>3. CASE /\ \E b \in Buffer : Scheduled(b)
             /\ Len(UnderWay) < 3
             /\ captures_queued' = Incremented(captures_queued) /\ UNCHANGED captures_completed
    <2>1. (captures_queued - captures_completed) % CounterSize < CounterSize - 1
      BY <1>2, <1>3, CounterAssumption DEF CountersAgree, outstanding_captures
    <2> QED
      BY <1>1, <1>3, <2>1, CountOneMore DEF CountersAgree, outstanding_captures, Scheduled
  <1>4. CASE Moved /\ UNCHANGED counters
    BY <1>4 DEF Moved, counters, CountersAgree, outstanding_captures
  <1>5. CASE /\ Completed
             /\ captures_completed' = Incremented(captures_completed) /\ UNCHANGED captures_queued
    <2>1. (captures_queued - captures_completed) % CounterSize > 0
      BY <1>5 DEF CountersAgree, outstanding_captures, Completed
    <2> QED
      BY <1>1, <1>5, <2>1, CountOneLess DEF CountersAgree, outstanding_captures, Completed
  <1> QED
    BY <1>3, <1>4, <1>5
------------------------------------------------------------------------------
(* The inductive step *)

LEMMA PipelineInvInit == Init => PipelineInv
PROOF
  <1> SUFFICES ASSUME Init
               PROVE  PipelineInv
    OBVIOUS
  <1>1. TypeOK
    <2>1. /\ {consumer_waiting, camera_streaming, discarding_captures} \subseteq BOOLEAN
          /\ {done_bit, camera_on} \subseteq BOOLEAN /\ client \in BOOLEAN
      BY Zenon DEF Init
    <2>2. {captures_queued, captures_completed} \subseteq 0 .. CounterSize - 1
      BY CounterAssumption DEF Init
    <2>3. {ready_buffer, processing_buffer, cb_buffer} \subseteq Buffer
      BY DEF Init, Buffer
    <2>4. dma \in Seq(Buffer) /\ completed \in Seq(Buffer)
      BY DEF Init
    <2> QED
      BY <2>1, <2>2, <2>3, <2>4 DEF Init, TypeOK, TaskPC, CallbackPC
  <1>2. FlagsFollow /\ HandOverFollows /\ CameraOff
    BY DEF Init, FlagsFollow, HandOverFollows, CameraOff, Signalled, Streaming
  <1>3. UnderWay = << >>
    <2>1. << >> \o << >> = << >>
      OBVIOUS
    <2> QED
      BY <2>1 DEF Init, UnderWay, InCallback
  <1>4. CapturesCounted
    BY <1>3 DEF Init, CapturesCounted, Captures
  <1>5. CountersAgree
    BY <1>3, CounterAssumption DEF Init, CountersAgree, outstanding_captures
  <1>6. EachBufferOnce
    <2>1. DOMAIN << >> = {}
      OBVIOUS
    <2> QED
      BY <1>3, <2>1 DEF EachBufferOnce, IsInjective
  <1>7. BuffersApart
    BY DEF Init, BuffersApart, FrameInHand
  <1> QED
    BY <1>1, <1>2, <1>4, <1>5, <1>6, <1>7 DEF PipelineInv

\* Steps of camera_task that leave the captures alone
TaskOnly ==
  \/ PipelineInit \/ CheckClient \/ RequestFrame \/ StartCamera \/ WaitForReadyFrame
  \/ StopFrame \/ TakeFrame \/ ProcessFrame
  \/ ClearDone \/ StartDiscarding \/ ResetFlags \/ StopCamera

LEMMA TaskStays ==
  ASSUME PipelineInv, TaskOnly
  PROVE  PipelineInv'
PROOF
  <1>1. TypeOK'
    <2> USE DEF PipelineInv, TypeOK, TaskPC, Buffer, flags, counters, indices, callback, Go
    <2>1. CASE PipelineInit
      BY <2>1 DEF PipelineInit
    <2>2. CASE CheckClient
      BY <2>2 DEF CheckClient
    <2>3. CASE RequestFrame
      BY <2>3 DEF RequestFrame
    <2>4. CASE StartCamera
      BY <2>4 DEF StartCamera
    <2>5. CASE WaitForReadyFrame
      BY <2>5 DEF WaitForReadyFrame
    <2>6. CASE StopFrame
      BY <2>6 DEF StopFrame
    <2>7. CASE TakeFrame
      BY <2>7 DEF TakeFrame
    <2>8. CASE ProcessFrame
      BY <2>8 DEF ProcessFrame
    <2>9. CASE ClearDone
      BY <2>9 DEF ClearDone
    <2>10. CASE StartDiscarding
      BY <2>10 DEF StartDiscarding
    <2>11. CASE ResetFlags
      BY <2>11 DEF ResetFlags
    <2>12. CASE StopCamera
      BY <2>12 DEF StopCamera
    <2> QED
      BY <2>1, <2>2, <2>3, <2>4, <2>5, <2>6, <2>7, <2>8, <2>9, <2>10, <2>11, <2>12 DEF TaskOnly
  <1>2. /\ UNCHANGED <<mode, counters, dma, completed, cb, cb_buffer, ready_buffer>>
        /\ Moved
    <2>1. UNCHANGED <<mode, counters, dma, completed, cb, cb_buffer, ready_buffer>>
      BY DEF TaskOnly, flags, counters, indices, callback,
             PipelineInit, CheckClient, RequestFrame, StartCamera, WaitForReadyFrame, StopFrame,
             TakeFrame, ProcessFrame, ClearDone, StartDiscarding, ResetFlags, StopCamera
    <2> QED
      BY <1>1, <2>1, StayingMoves DEF PipelineInv
  <1>3. CountersAgree' /\ EachBufferOnce'
    BY <1>1, <1>2, CountersFollow DEF PipelineInv, Moved
  <1>4. FlagsFollow' /\ HandOverFollows' /\ CameraOff' /\ CapturesCounted' /\ BuffersApart'
    <2> USE ModesAssumption
        DEF PipelineInv, TypeOK, FlagsFollow, HandOverFollows, CameraOff, Signalled, Streaming,
            Moved, flags, counters, indices, callback, Go
    <2>1. CASE PipelineInit
      <3>1. FlagsFollow' /\ HandOverFollows' /\ CameraOff'
        BY <1>2, <2>1 DEF PipelineInit
      <3>2. CapturesCounted' /\ BuffersApart'
        BY <1>2, <2>1 DEF PipelineInit, CapturesCounted, Captures, Pipelined,
                              BuffersApart, FrameInHand
      <3> QED
        BY <3>1, <3>2
    <2>2. CASE CheckClient
      <3>1. FlagsFollow' /\ HandOverFollows' /\ CameraOff'
        BY <1>2, <2>2 DEF CheckClient
      <3>2. CapturesCounted' /\ BuffersApart'
        BY <1>2, <2>2 DEF CheckClient, CapturesCounted, Captures, Pipelined,
                              BuffersApart, FrameInHand
      <3> QED
        BY <3>1, <3>2
    <2>3. CASE RequestFrame
      <3>1. FlagsFollow' /\ HandOverFollows' /\ CameraOff'
        BY <1>2, <2>3 DEF RequestFrame
      <3>2. CapturesCounted' /\ BuffersApart'
        BY <1>2, <2>3 DEF RequestFrame, CapturesCounted, Captures, Pipelined,
                              BuffersApart, FrameInHand
      <3> QED
        BY <3>1, <3>2
    <2>4. CASE StartCamera
      <3>1. FlagsFollow' /\ HandOverFollows' /\ CameraOff'
        BY <1>2, <2>4 DEF StartCamera
      <3>2. CapturesCounted' /\ BuffersApart'
        BY <1>2, <2>4 DEF StartCamera, CapturesCounted, Captures, Pipelined,
                              BuffersApart, FrameInHand
      <3> QED
        BY <3>1, <3>2
    <2>5. CASE WaitForReadyFrame
      <3>1. FlagsFollow' /\ HandOverFollows' /\ CameraOff'
        BY <1>2, <2>5 DEF WaitForReadyFrame
      <3>2. CapturesCounted' /\ BuffersApart'
        BY <1>2, <2>5 DEF WaitForReadyFrame, CapturesCounted, Captures, Pipelined,
                              BuffersApart, FrameInHand
      <3> QED
        BY <3>1, <3>2
    <2>6. CASE StopFrame
      <3>1. FlagsFollow' /\ HandOverFollows' /\ CameraOff'
        BY <1>2, <2>6 DEF StopFrame
      <3>2. CapturesCounted' /\ BuffersApart'
        BY <1>2, <2>6 DEF StopFrame, CapturesCounted, Captures, Pipelined,
                              BuffersApart, FrameInHand
      <3> QED
        BY <3>1, <3>2
    <2>7. CASE TakeFrame
      <3>1. FlagsFollow' /\ HandOverFollows' /\ CameraOff'
        BY <1>2, <2>7 DEF TakeFrame
      <3>2. CapturesCounted'
        BY <1>2, <2>7 DEF TakeFrame, CapturesCounted, Captures, Pipelined
      <3>3. BuffersApart'
        <4>1. pc = "take" /\ mode # "pipelined" => Busy = {}
          BY UnderWayParts DEF CapturesCounted, Captures, Pipelined, PartsKnown
        <4> QED
          BY <1>2, <2>7, <4>1 DEF TakeFrame, BuffersApart, FrameInHand
      <3> QED
        BY <3>1, <3>2, <3>3
    <2>8. CASE ProcessFrame
      <3>1. FlagsFollow' /\ HandOverFollows' /\ CameraOff'
        BY <1>2, <2>8 DEF ProcessFrame
      <3>2. CapturesCounted' /\ BuffersApart'
        BY <1>2, <2>8 DEF ProcessFrame, CapturesCounted, Captures, Pipelined,
                              BuffersApart, FrameInHand
      <3> QED
        BY <3>1, <3>2
    <2>9. CASE ClearDone
      <3>1. FlagsFollow' /\ HandOverFollows' /\ CameraOff'
        BY <1>2, <2>9 DEF ClearDone
      <3>2. CapturesCounted' /\ BuffersApart'
        BY <1>2, <2>9 DEF ClearDone, CapturesCounted, Captures, Pipelined,
                              BuffersApart, FrameInHand
      <3> QED
        BY <3>1, <3>2
    <2>10. CASE StartDiscarding
      <3>1. FlagsFollow' /\ HandOverFollows' /\ CameraOff'
        BY <1>2, <2>10 DEF StartDiscarding
      <3>2. CapturesCounted'
        <4>1. Len(UnderWay) = 2 /\ ~Signalled
          BY <2>10 DEF StartDiscarding, CapturesCounted, Captures, Pipelined
        <4> QED
          BY <1>2, <2>10, <4>1 DEF StartDiscarding, CapturesCounted
      <3>3. BuffersApart'
        BY <1>2, <2>10 DEF StartDiscarding, BuffersApart, FrameInHand
      <3> QED
        BY <3>1, <3>2, <3>3
    <2>11. CASE ResetFlags
      <3>1. FlagsFollow' /\ HandOverFollows' /\ CameraOff'
        BY <1>2, <2>11 DEF ResetFlags
      <3>2. CapturesCounted' /\ BuffersApart'
        BY <1>2, <2>11 DEF ResetFlags, CapturesCounted, Captures, Pipelined,
                              BuffersApart, FrameInHand
      <3> QED
        BY <3>1, <3>2
    <2>12. CASE StopCamera
      <3>1. FlagsFollow' /\ HandOverFollows' /\ CameraOff'
        BY <1>2, <2>12 DEF StopCamera
      <3>2. CapturesCounted' /\ BuffersApart'
        BY <1>2, <2>12 DEF StopCamera, CapturesCounted, Captures, Pipelined,
                              BuffersApart, FrameInHand
      <3> QED
        BY <3>1, <3>2
    <2> QED
      BY <2>1, <2>2, <2>3, <2>4, <2>5, <2>6, <2>7, <2>8, <2>9, <2>10, <2>11, <2>12 DEF TaskOnly
  <1> QED
    BY <1>1, <1>3, <1>4 DEF PipelineInv

\* Steps of camera_task that schedule a capture
TaskSchedules == ScheduleFirst \/ ScheduleSecond \/ ScheduleThird \/ Requeue

Target ==
  CASE pc = "first" -> IF mode = "pipelined" THEN 1 ELSE processing_buffer
    [] pc = "second" -> 2
    [] pc = "third" -> 0
    [] OTHER -> processing_buffer

\* The buffer scheduled is free, and there is room for it: all three are never queued
\* while a frame is in hand.
LEMMA TargetFree ==
  ASSUME PipelineInv, TaskSchedules
  PROVE  /\ Target \in Buffer /\ Target \notin Busy
         /\ Len(UnderWay) < 3
         /\ pc = "first" => Busy = {} /\ completed = << >> /\ cb = "idle"
PROOF
  <1> USE DEF PipelineInv, Go
  <1>1. CASE ScheduleFirst
    <2>1. pc = "first" /\ Len(UnderWay) = 0
      BY <1>1 DEF ScheduleFirst, CapturesCounted, Captures
    <2>2. PartsKnown /\ completed \in Seq(Buffer)
      BY UnderWayParts DEF TypeOK
    <2>3. Busy = {} /\ Len(completed) = 0 /\ Len(InCallback) = 0
      <3>1. Len(InCallback) \in {0, 1}
        BY <2>2 DEF PartsKnown
      <3>2. Busy = {}
        BY <2>1, <2>2 DEF PartsKnown
      <3>3. /\ Len(dma) \in Nat /\ Len(completed) \in Nat
            /\ Len(dma) + Len(completed) + Len(InCallback) = 0
        BY <2>1, <2>2 DEF PartsKnown
      <3> QED
        BY <3>1, <3>2, <3>3
    <2>4. cb \notin {"entered", "not_discarding"}
      BY <2>2, <2>3 DEF PartsKnown
    <2>5. cb = "idle"
      BY <2>1, <2>4 DEF TypeOK, CallbackPC, HandOverFollows, Signalled
    <2>6. Target \in Buffer
      BY <2>1 DEF Target, TypeOK, Buffer
    <2> QED
      BY <2>1, <2>2, <2>3, <2>5, <2>6
  <1>2. CASE ScheduleSecond
    <2>1. pc = "second" /\ mode = "pipelined" /\ Len(UnderWay) = 1 /\ 2 \notin Busy
      BY <1>2 DEF ScheduleSecond, FlagsFollow, CapturesCounted, Captures, BuffersApart
    <2> QED
      BY <2>1 DEF Target, Buffer
  <1>3. CASE ScheduleThird
    <2>1. pc = "third" /\ mode = "pipelined" /\ Len(UnderWay) = 1 /\ 0 \notin Busy
      BY <1>3 DEF ScheduleThird, FlagsFollow, CapturesCounted, Captures, BuffersApart
    <2> QED
      BY <2>1 DEF Target, Buffer
  <1>4. CASE Requeue
    <2>1. pc = "requeue" /\ Len(UnderWay) = 1 /\ processing_buffer \notin Busy
      BY <1>4 DEF Requeue, CapturesCounted, Captures, BuffersApart, FrameInHand
    <2> QED
      BY <2>1 DEF Target, TypeOK
  <1> QED
    BY <1>1, <1>2, <1>3, <1>4 DEF TaskSchedules

LEMMA TaskSchedulesOne ==
  ASSUME PipelineInv, TaskSchedules
  PROVE  PipelineInv'
PROOF
  <1>1. /\ dma' = Append(dma, Target)
        /\ captures_queued' = Incremented(captures_queued)
        /\ UNCHANGED <<mode, client, captures_completed, done_bit, camera_on, callback,
                       consumer_waiting, discarding_captures, indices>>
    BY DEF TaskSchedules, ScheduleFirst, ScheduleSecond, ScheduleThird, Requeue,
           ScheduleCapture, Target, Go
  <1>2. Target \in Buffer /\ Target \notin Busy /\ Len(UnderWay) < 3
    BY TargetFree
  <1>3. TypeOK'
    <2>1. pc' \in TaskPC /\ camera_streaming' \in BOOLEAN
      BY DEF TaskSchedules, ScheduleFirst, ScheduleSecond, ScheduleThird, Requeue, Go,
             PipelineInv, TypeOK, TaskPC
    <2>2. Buffer' = Buffer
      BY <1>1 DEF Buffer
    <2>3. captures_queued' \in 0 .. CounterSize - 1
      BY <1>1, CountersWrap DEF PipelineInv, TypeOK
    <2>4. dma' \in Seq(Buffer)
      BY <1>1, <1>2 DEF PipelineInv, TypeOK
    <2> QED
      BY <1>1, <2>1, <2>2, <2>3, <2>4 DEF PipelineInv, TypeOK, callback, indices
  <1>4. Scheduled(Target)
    BY <1>1, <1>2, <1>3, SchedulingAddsOne DEF PipelineInv, callback
  <1>5. CountersAgree' /\ EachBufferOnce'
    <2>1. EachBufferOnce'
      BY <1>2, <1>4 DEF PipelineInv, Scheduled
    <2>2. CountersAgree'
      BY <1>1, <1>2, <1>3, <1>4, CountersFollow DEF PipelineInv
    <2> QED
      BY <2>1, <2>2
  <1>6. FlagsFollow' /\ HandOverFollows' /\ CameraOff' /\ CapturesCounted' /\ BuffersApart'
    <2> USE ModesAssumption
        DEF PipelineInv, TypeOK, FlagsFollow, HandOverFollows, CameraOff, Signalled, Streaming,
            Scheduled, Target, callback, indices, Go
    <2>1. CASE ScheduleFirst
      <3>1. FlagsFollow' /\ HandOverFollows' /\ CameraOff'
        BY <1>1, <2>1, TargetFree DEF ScheduleFirst, TaskSchedules
      <3>2. CapturesCounted'
        BY <1>1, <1>4, <2>1 DEF ScheduleFirst, CapturesCounted, Captures, Pipelined
      <3>3. BuffersApart'
        BY <1>1, <1>4, <2>1, TargetFree DEF ScheduleFirst, TaskSchedules, BuffersApart, FrameInHand
      <3> QED
        BY <3>1, <3>2, <3>3
    <2>2. CASE ScheduleSecond
      <3>1. FlagsFollow' /\ HandOverFollows' /\ CameraOff'
        BY <1>1, <2>2 DEF ScheduleSecond, TaskSchedules
      <3>2. CapturesCounted'
        BY <1>1, <1>4, <2>2 DEF ScheduleSecond, CapturesCounted, Captures, Pipelined
      <3>3. BuffersApart'
        BY <1>1, <1>4, <2>2 DEF ScheduleSecond, TaskSchedules, BuffersApart, FrameInHand
      <3> QED
        BY <3>1, <3>2, <3>3
    <2>3. CASE ScheduleThird
      <3>1. FlagsFollow' /\ HandOverFollows' /\ CameraOff'
        BY <1>1, <2>3 DEF ScheduleThird, TaskSchedules
      <3>2. CapturesCounted'
        <4>1. mode = "pipelined" /\ pc' = "process"
          BY <2>3 DEF ScheduleThird
        <4>2. Len(UnderWay) = 1
          BY <2>3 DEF ScheduleThird, CapturesCounted, Captures
        <4> QED
          BY <1>1, <1>4, <4>1, <4>2 DEF CapturesCounted, Captures, Pipelined
      <3>3. BuffersApart'
        BY <1>1, <1>4, <2>3 DEF ScheduleThird, TaskSchedules, BuffersApart, FrameInHand
      <3> QED
        BY <3>1, <3>2, <3>3
    <2>4. CASE Requeue
      <3>1. FlagsFollow' /\ HandOverFollows' /\ CameraOff'
        BY <1>1, <2>4 DEF Requeue, TaskSchedules
      <3>2. CapturesCounted'
        <4>1. mode = "pipelined" /\ pc' = "end_take"
          BY <2>4 DEF Requeue
        <4>2. Len(UnderWay) = 1
          BY <2>4 DEF Requeue, CapturesCounted, Captures
        <4> QED
          BY <1>1, <1>4, <4>1, <4>2 DEF CapturesCounted, Captures, Pipelined
      <3>3. BuffersApart'
        BY <1>1, <1>4, <2>4 DEF Requeue, TaskSchedules, BuffersApart, FrameInHand
      <3> QED
        BY <3>1, <3>2, <3>3
    <2> QED
      BY <2>1, <2>2, <2>3, <2>4 DEF TaskSchedules
  <1> QED
    BY <1>3, <1>5, <1>6 DEF PipelineInv

\* Steps of the event task, the camera and the network that leave the captures under way
OthersMove ==
  EnterCallback \/ NotDiscarding \/ DropFrame \/ SignalDone \/ FrameCaptured \/ ClientStatus

LEMMA OthersStay ==
  ASSUME PipelineInv, OthersMove
  PROVE  PipelineInv'
PROOF
  <1> USE DEF PipelineInv
  <1>1. /\ UNCHANGED <<mode, pc, flags, counters, indices, camera_on>>
        /\ Signalled' <=> Signalled
    <2> USE DEF flags, counters, indices, callback, CallbackUnchanged, taskVars,
                Signalled, TypeOK, CallbackPC
    <2>1. CASE EnterCallback
      BY <2>1 DEF EnterCallback
    <2>2. CASE NotDiscarding
      BY <2>2 DEF NotDiscarding
    <2>3. CASE DropFrame
      BY <2>3 DEF DropFrame
    <2>4. CASE SignalDone
      BY <2>4 DEF SignalDone
    <2>5. CASE FrameCaptured
      BY <2>5 DEF FrameCaptured
    <2>6. CASE ClientStatus
      BY <2>6 DEF ClientStatus
    <2> QED
      BY <2>1, <2>2, <2>3, <2>4, <2>5, <2>6 DEF OthersMove
  <1>2. TypeOK'
    <2>1. Buffer' = Buffer
      BY <1>1 DEF Buffer
    <2>2. dma' \in Seq(Buffer) /\ completed' \in Seq(Buffer) /\ cb_buffer' \in Buffer
      <3> USE DEF TypeOK
      <3>1. CASE EnterCallback
        BY <3>1 DEF EnterCallback
      <3>2. CASE DropFrame
        BY <3>2 DEF DropFrame
      <3>3. CASE FrameCaptured
        BY <3>3 DEF FrameCaptured
      <3> QED
        BY <3>1, <3>2, <3>3
        DEF OthersMove, NotDiscarding, SignalDone, ClientStatus, callback
    <2>3. cb' \in CallbackPC
      BY DEF OthersMove, EnterCallback, NotDiscarding, DropFrame, SignalDone, FrameCaptured,
             ClientStatus, TypeOK, callback, CallbackPC
    <2>4. client' \in BOOLEAN /\ done_bit' \in BOOLEAN
      BY DEF OthersMove, EnterCallback, NotDiscarding, DropFrame, SignalDone, FrameCaptured,
             ClientStatus, TypeOK, CallbackUnchanged
    <2> QED
      BY <1>1, <2>1, <2>2, <2>3, <2>4 DEF TypeOK, flags, counters, indices
  <1>3. Moved
    <2>1. CASE NotDiscarding \/ SignalDone \/ ClientStatus
      BY <1>2, <2>1, StayingMoves DEF NotDiscarding, SignalDone, ClientStatus, callback
    <2> QED
      BY <1>2, <2>1, EnteringMoves, DroppingMoves, CapturingMoves DEF OthersMove
  <1>4. CountersAgree' /\ EachBufferOnce'
    BY <1>1, <1>2, <1>3, CountersFollow DEF Moved
  <1>5. FlagsFollow' /\ HandOverFollows'
    <2>1. ~(done_bit' /\ cb' = "signal")
      BY DEF OthersMove, EnterCallback, NotDiscarding, DropFrame, SignalDone, FrameCaptured,
             ClientStatus, HandOverFollows, CallbackUnchanged, callback
    <2> QED
      BY <1>1, <2>1 DEF FlagsFollow, HandOverFollows, flags
  <1>6. CameraOff'
    <2>1. ASSUME pc \in {"second", "start"}
          PROVE  completed' = << >> /\ cb' = "idle"
      <3>1. completed = << >> /\ cb = "idle" /\ ~camera_on
        BY <2>1 DEF CameraOff
      <3> QED
        BY <3>1 DEF OthersMove, EnterCallback, NotDiscarding, DropFrame, SignalDone,
                    FrameCaptured, ClientStatus, callback
    <2> QED
      BY <1>1, <2>1 DEF CameraOff, flags
  <1>7. CapturesCounted' /\ BuffersApart'
    <2>1. CapturesCounted'
      BY <1>1, <1>3 DEF CapturesCounted, Captures, Pipelined, Moved, flags
    <2>2. BuffersApart'
      BY <1>1, <1>3 DEF BuffersApart, FrameInHand, Moved, flags, indices
    <2> QED
      BY <2>1, <2>2
  <1> QED
    BY <1>2, <1>4, <1>5, <1>6, <1>7

\* A frame is handed over: only while camera_task waits for it.
LEMMA HandOverKeeps ==
  ASSUME PipelineInv, HandOver
  PROVE  PipelineInv'
PROOF
  <1> USE DEF PipelineInv
  <1>1. /\ cb = "not_discarding" /\ consumer_waiting /\ consumer_waiting' = FALSE /\ cb' = "signal"
        /\ captures_completed' = Incremented(captures_completed)
        /\ ready_buffer' = cb_buffer
        /\ UNCHANGED <<mode, client, pc, camera_streaming, discarding_captures,
                       processing_buffer, camera_on, captures_queued, done_bit, dma,
                       completed, cb_buffer>>
    BY DEF HandOver, CallbackUnchanged, taskVars
  <1>2. pc \in {"wait", "end_wait"} /\ ~Signalled
    <2>1. pc \notin {"second", "start"}
      BY <1>1 DEF CameraOff
    <2>2. pc # "first"
      <3>1. pc = "first" => Len(UnderWay) = 0
        BY DEF CapturesCounted, Captures
      <3>2. cb_buffer \in Busy
        BY <1>1, UnderWayParts DEF PartsKnown
      <3>3. Len(UnderWay) = 0 => Busy = {}
        BY UnderWayParts DEF PartsKnown
      <3> QED
        BY <3>1, <3>2, <3>3
    <2>3. pc \in {"wait", "end_wait"}
      BY <1>1, <2>1, <2>2 DEF HandOverFollows
    <2> QED
      BY <1>1, <2>3 DEF HandOverFollows
  <1>3. TypeOK'
    <2>1. Buffer' = Buffer
      BY <1>1 DEF Buffer
    <2>2. captures_completed' \in 0 .. CounterSize - 1
      BY <1>1, CountersWrap DEF TypeOK
    <2> QED
      BY <1>1, <2>1, <2>2 DEF TypeOK, CallbackPC
  <1>4. Completed
    BY <1>3, CallbackTakesOut
  <1>5. CountersAgree' /\ EachBufferOnce'
    <2>1. EachBufferOnce'
      BY <1>4 DEF Completed
    <2>2. CountersAgree'
      BY <1>1, <1>3, <1>4, CountersFollow
    <2> QED
      BY <2>1, <2>2
  <1>6. FlagsFollow' /\ HandOverFollows' /\ CameraOff'
    <2>1. FlagsFollow'
      BY <1>1 DEF FlagsFollow
    <2>2. HandOverFollows'
      BY <1>1, <1>2 DEF HandOverFollows, Signalled
    <2>3. CameraOff'
      BY <1>1, <1>2 DEF CameraOff
    <2> QED
      BY <2>1, <2>2, <2>3
  <1>7. CapturesCounted'
    BY <1>1, <1>2, <1>4, ModesAssumption
    DEF CapturesCounted, Captures, Pipelined, Completed, TypeOK
  <1>8. BuffersApart'
    <2>1. cb_buffer \in Busy /\ cb_buffer \notin Busy' /\ Busy' \subseteq Busy
      BY <1>4 DEF Completed
    <2> QED
      BY <1>1, <1>2, <2>1 DEF BuffersApart, FrameInHand
  <1> QED
    BY <1>3, <1>5, <1>6, <1>7, <1>8

\* A capture is discarded: only while camera_task drains the pipeline, and the count
\* tells the last one.
LEMMA DiscardKeeps ==
  ASSUME PipelineInv, DiscardCapture
  PROVE  PipelineInv'
PROOF
  <1> USE DEF PipelineInv
  <1>1. /\ cb = "entered" /\ discarding_captures
        /\ captures_completed' = Incremented(captures_completed)
        /\ cb' = IF outstanding_captures' = 0 THEN "signal" ELSE "idle"
        /\ UNCHANGED <<mode, client, pc, consumer_waiting, camera_streaming,
                       discarding_captures, ready_buffer,
                       processing_buffer, camera_on, captures_queued, done_bit, dma,
                       completed, cb_buffer>>
    BY DEF DiscardCapture, CallbackUnchanged, taskVars, outstanding_captures
  <1>2. TypeOK'
    <2>1. Buffer' = Buffer
      BY <1>1 DEF Buffer
    <2>2. captures_completed' \in 0 .. CounterSize - 1
      BY <1>1, CountersWrap DEF TypeOK
    <2> QED
      BY <1>1, <2>1, <2>2 DEF TypeOK, CallbackPC
  <1>3. Completed
    BY <1>2, CallbackTakesOut
  <1>4. CountersAgree' /\ EachBufferOnce'
    <2>1. EachBufferOnce'
      BY <1>3 DEF Completed
    <2>2. CountersAgree'
      BY <1>1, <1>2, <1>3, CountersFollow
    <2> QED
      BY <2>1, <2>2
  <1>5. pc = "drain" /\ Len(UnderWay) \in {1, 2} /\ ~Signalled
    <2>1. Len(UnderWay) > 0 /\ Len(UnderWay) \in Nat
      BY <1>3, UnderWayParts DEF Completed, PartsKnown, InCallback
    <2>2. pc = "drain"
      BY <1>1, <2>1 DEF FlagsFollow, CapturesCounted, Captures
    <2>3. Len(UnderWay) <= 2
      BY <2>2 DEF CapturesCounted
    <2>4. ~Signalled
      BY <2>1, <2>2 DEF CapturesCounted
    <2>5. \A n \in Nat : n > 0 /\ n <= 2 => n \in {1, 2}
      OBVIOUS
    <2> QED
      BY <2>1, <2>2, <2>3, <2>4, <2>5
  <1>6. /\ Len(UnderWay)' \in {0, 1}
        /\ Len(UnderWay)' = 0 <=> cb' = "signal"
    BY <1>1, <1>3, <1>4, <1>5 DEF Completed, CountersAgree
  <1>7. FlagsFollow' /\ HandOverFollows' /\ CameraOff'
    BY <1>1, <1>5 DEF FlagsFollow, HandOverFollows, CameraOff, Signalled
  <1>8. CapturesCounted'
    BY <1>1, <1>5, <1>6 DEF CapturesCounted, Signalled
  <1>9. BuffersApart'
    BY <1>1, <1>5 DEF BuffersApart, FrameInHand
  <1> QED
    BY <1>2, <1>4, <1>7, <1>8, <1>9

LEMMA PipelineInvStep == PipelineInv /\ [Next]_vars => PipelineInv'
PROOF
  <1> SUFFICES ASSUME PipelineInv, [Next]_vars
               PROVE  PipelineInv'
    OBVIOUS
  <1>1. CASE UNCHANGED vars
    <2> USE <1>1 DEF PipelineInv, vars, flags, counters, indices, callback
    <2>1. UNCHANGED <<UnderWay, Buffer>>
      BY DEF UnderWay, InCallback, Buffer
    <2>2. TypeOK' /\ FlagsFollow' /\ HandOverFollows' /\ CameraOff'
      BY <2>1 DEF TypeOK, FlagsFollow, HandOverFollows, CameraOff, Signalled
    <2>3. CapturesCounted' /\ CountersAgree'
      BY <2>1 DEF CapturesCounted, Captures, Pipelined, Signalled, CountersAgree,
                  outstanding_captures
    <2>4. EachBufferOnce' /\ BuffersApart'
      BY <2>1 DEF EachBufferOnce, BuffersApart, Busy, FrameInHand
    <2> QED
      BY <2>2, <2>3, <2>4
  <1>2. CASE CameraTask
    BY <1>2, TaskStays, TaskSchedulesOne DEF CameraTask, TaskOnly, TaskSchedules
  <1>3. CASE CaptureDone \/ FrameCaptured \/ ClientStatus
    BY <1>3, OthersStay, HandOverKeeps, DiscardKeeps DEF CaptureDone, OthersMove
  <1> QED
    BY <1>1, <1>2, <1>3 DEF Next
------------------------------------------------------------------------------
\* Flags, counts and buffers agree in every reachable state of both builds.
THEOREM PipelineInvariant == Spec => []PipelineInv
  BY PipelineInvInit, PipelineInvStep, PTL DEF Spec

\* Three buffers, queued, filled, reported or in hand, and counters that wrap.
THEOREM TypeCorrect == Spec => []TypeOK
PROOF
  <1>1. PipelineInv => TypeOK
    BY DEF PipelineInv
  <1> QED
    BY <1>1, PipelineInvariant, PTL

\* The frame camera_task encodes is no target of the camera, and no buffer is a target
\* twice, however many frames capture_done drops meanwhile (camera_pipeline.c).
THEOREM FramesWhole == Spec => []NoTornFrame
PROOF
  <1>1. PipelineInv => NoTornFrame
    BY DEF PipelineInv, BuffersApart, Busy, NoTornFrame, FrameExclusive, Range
  <1> QED
    BY <1>1, PipelineInvariant, PTL

\* wifi-streamer.md's two queued buffers, while a frame is encoded and transferred.
THEOREM PipelineStaysFull == Spec => []TwoRemainQueued
PROOF
  <1>1. PipelineInv => TwoRemainQueued
    BY DEF PipelineInv, CapturesCounted, Captures, Pipelined, TwoRemainQueued
  <1> QED
    BY <1>1, PipelineInvariant, PTL

\* The count that the discarding callback reads is exact, although both counters wrap,
\* and no done bit is left over from an earlier frame.
THEOREM AccountingExact == Spec => []CaptureAccounting
PROOF
  <1>1. PipelineInv => CaptureAccounting
    BY DEF PipelineInv, CountersAgree, HandOverFollows, Signalled,
           CaptureAccounting, OutstandingExact, NoStaleSignal
  <1> QED
    BY <1>1, PipelineInvariant, PTL

\* The camera is stopped only when nothing is queued in it or unreported: a client that
\* comes back finds an empty driver queue.
THEOREM StoppedWhenDrained == Spec => StopsWhenDrained
PROOF
  <1>1. ASSUME PipelineInv, [Next]_vars
        PROVE  [camera_on /\ ~camera_on' => UnderWay = << >>]_vars
    <2> SUFFICES ASSUME Next, camera_on, ~camera_on'
                 PROVE  UnderWay = << >>
      BY <1>1
    <2>1. StopFrame \/ StopCamera
      <3>1. CASE CameraTask
        BY <3>1 DEF CameraTask, PipelineInit, CheckClient, RequestFrame, ScheduleFirst,
                    ScheduleSecond, ScheduleThird, Requeue, ScheduleCapture, StartCamera,
                    WaitForReadyFrame, TakeFrame, ProcessFrame, ClearDone, StartDiscarding,
                    ResetFlags
      <3>2. CASE CaptureDone
        BY <3>2 DEF CaptureDone, EnterCallback, DiscardCapture, NotDiscarding, HandOver,
                    DropFrame, SignalDone, CallbackUnchanged, taskVars
      <3>3. CASE FrameCaptured \/ ClientStatus
        BY <3>3 DEF FrameCaptured, ClientStatus
      <3> QED
        BY <3>1, <3>2, <3>3 DEF Next
    <2>2. Len(UnderWay) = 0
      BY <1>1, <2>1 DEF StopFrame, StopCamera, Go, PipelineInv, FlagsFollow, CapturesCounted,
                        Captures, Pipelined
    <2>3. UnderWay \in Seq(Buffer)
      BY <1>1 DEF PipelineInv, TypeOK, UnderWay, InCallback
    <2> QED
      BY <2>2, <2>3
  <1> QED
    BY <1>1, PipelineInvariant, PTL DEF Spec, StopsWhenDrained
==============================================================================
