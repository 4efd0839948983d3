----------------------------- MODULE CpxSpiProofs -----------------------------
(***************************************************************************)
(* Theorems about CpxSpi, for any senders, packets and lengths.  All but   *)
(* two hold whether pi_task_is_done turns true when a task is pushed or    *)
(* when it is run (DoneAtPush).                                            *)
(*                                                                         *)
(* The proofs see the run-time through sets: the tasks that are queued and *)
(* the contexts that wait for an event.  That none is there twice, Once,   *)
(* is what lets them.                                                      *)
(***************************************************************************)
EXTENDS CpxSpi, SequenceTheorems, TLAPS

RunTime ==
  [tasks : Seq(Task), done : [Event -> BOOLEAN], waiting : [Event -> Seq(Context)],
   bits : SUBSET Bit, wait : [ctx : {"spi", "none"}, bits : SUBSET Bit, all : BOOLEAN]]

Once(k) == IsInjective(k.tasks) /\ \A e \in Event : IsInjective(k.waiting[e])
Known(k) == k \in RunTime /\ Once(k)

Queue(k) == Range(k.tasks)
Waiters(k, e) == Range(k.waiting[e])
Queued(t) == t \in Queue(rt)
Waits(c, e) == c \in Waiters(rt, e)
NinaTask == <<"nina_rtt">>

\* The callback of an event runs before the coroutine does that can set the event again.
Ahead(k, e, c) ==
  \A i, j \in DOMAIN k.tasks : k.tasks[i] = EventTask(e) /\ k.tasks[j] = Resume(c) => i < j
EventsAhead ==
  /\ Ahead(rt, "spi_done", "spi")
  /\ Ahead(rt, "receive_done", "receiver")
  /\ spi # "start" => Ahead(rt, "send_done", "spi")

\* cpx_spi_task is in one place: queued, waiting for spi_done, or for the event group.
Grouped == rt.wait # NotWaiting
GroupBits == CASE spi = "any" -> {"NINA_RTT", "SEND"} [] spi = "receive" -> {"RECEIVE"}
               [] spi = "rtt" -> {"NINA_RTT"} [] OTHER -> {}
SpiPlaced ==
  /\ Waiters(rt, "spi_done") \subseteq {"spi"}
  /\ Queued(Resume("spi")) <=> ~Waits("spi", "spi_done") /\ ~Grouped
  /\ Grouped => /\ spi \in {"any", "receive", "rtt"}
                /\ rt.wait = [ctx |-> "spi", bits |-> GroupBits, all |-> spi # "any"]
  /\ Waits("spi", "spi_done") => spi \in {"header", "head", "tail"}
  /\ wire # "idle" => /\ wire = spi /\ Waits("spi", "spi_done")
                      /\ ~Queued(EventTask("spi_done"))

\* cpx_receive_task waits for the one thing under way: its request, or the callback.
ReceiverPlaced ==
  /\ Waiters(rt, "receive_done") \subseteq {"receiver"}
  /\ Queued(Resume("receiver")) <=> ~Waits("receiver", "receive_done")
  /\ receive_req \/ callback # "idle" =>
       Waits("receiver", "receive_done") /\ ~Queued(EventTask("receive_done"))
  /\ receive_req => callback = "idle"
  /\ callback = "start" <=> Queued(Resume("callback"))

\* Each sender is in one place, and send_done is not done while a request is posted.  When
\* it is done no earlier than its callback runs, it belongs to the request under way.
SendersPlaced ==
  /\ Waiters(rt, "send_done") \subseteq Sender
  /\ \A s \in Sender :
       /\ Queued(Resume(s)) => ~Waits(s, "send_done")
       /\ sender[s] = "idle" => ~Queued(Resume(s)) /\ ~Waits(s, "send_done")
  /\ send_req # NoSender => ~rt.done["send_done"]
  /\ ~DoneAtPush =>
       /\ send_req # NoSender => /\ sender[send_req] = "sent" /\ Waits(send_req, "send_done")
                                 /\ ~Queued(EventTask("send_done"))
       /\ rt.done["send_done"] => /\ Waiters(rt, "send_done") = {}
                                    /\ ~Queued(EventTask("send_done"))

\* What cpx_spi_task took out of the requests is still posted while it transfers.
InTransfer == spi \in {"header", "head", "tail"}
RequestsHeld ==
  /\ BitsMatchRequests
  /\ InTransfer /\ sending # NoSender => send_req = sending
  /\ InTransfer /\ receiving => receive_req

\* NINA's half of the transfer has yet to be used.
Ends == EndsAtHead(SendLength, ReceiveLength(header), HeadLength)
Unfinished ==
  \/ spi = "head" /\ (wire = "head" \/ ~Ends)
  \/ spi = "tail" /\ wire = "tail"

\* Each edge of NINA's line is in one place, and stands for one transfer.
EdgesCounted ==
  /\ nina_ready => nina_rtt
  /\ Queued(NinaTask) \/ "NINA_RTT" \in rt.bits \/ Unfinished => nina_ready
  /\ ~(Queued(NinaTask) /\ "NINA_RTT" \in rt.bits)
  /\ Unfinished => ~Queued(NinaTask) /\ "NINA_RTT" \notin rt.bits
  /\ spi = "header" \/ (spi = "rtt" /\ Queued(Resume("spi"))) => "NINA_RTT" \in rt.bits

\* A packet is carried by the last phase of the one transfer that takes its request.
CarriedCounted ==
  ~DoneAtPush =>
    /\ carried \in [Sender -> 0 .. 1]
    /\ \A s \in Sender :
         /\ sender[s] \in {"start", "contend"} => carried[s] = 0
         /\ sender[s] = "sent" =>
              carried[s] = IF send_req # s
                                \/ (spi \in {"head", "tail"} /\ sending = s /\ ~Unfinished)
                             THEN 1 ELSE 0

\* The types, but for the count of transfers, which only the last condition bounds
Typed ==
  /\ spi \in {"start", "any", "receive", "rtt", "header", "head", "tail"}
  /\ receiver \in {"start", "packet", "dispatch"}
  /\ callback \in {"idle", "start", "running"}
  /\ sender \in [Sender -> {"idle", "start", "contend", "sent"}]
  /\ {send_req, sending} \subseteq Sender \cup {NoSender}
  /\ {receive_req, receiving, gap8_rtt, nina_rtt, nina_ready, failed} \subseteq BOOLEAN
  /\ {header, nina_out} \subseteq Packet \cup {"none"}
  /\ wire \in {"idle", "header", "head", "tail"}

CpxInv ==
  /\ Typed
  /\ Known(rt)
  /\ ~failed
  /\ EventsAhead
  /\ SpiPlaced
  /\ ReceiverPlaced
  /\ SendersPlaced
  /\ RequestsHeld
  /\ EdgesCounted
  /\ CarriedCounted
------------------------------------------------------------------------------
(* Sequences that hold nothing twice *)

LEMMA AppendOnce ==
  ASSUME NEW S, NEW s \in Seq(S), NEW e \in S
  PROVE  /\ Append(s, e) \in Seq(S)
         /\ Range(Append(s, e)) = Range(s) \cup {e}
         /\ IsInjective(s) /\ e \notin Range(s) => IsInjective(Append(s, e))
PROOF
  <1>1. /\ Append(s, e) \in Seq(S) /\ Len(Append(s, e)) = Len(s) + 1 /\ Len(s) \in Nat
        /\ \A i \in 1 .. Len(s) : Append(s, e)[i] = s[i]
        /\ Append(s, e)[Len(s) + 1] = e
        /\ DOMAIN s = 1 .. Len(s) /\ DOMAIN Append(s, e) = 1 .. Len(s) + 1
    OBVIOUS
  <1> HIDE <1>1
  <1>2. Range(Append(s, e)) = Range(s) \cup {e}
    <2>1. Range(Append(s, e)) \subseteq Range(s) \cup {e}
      BY <1>1 DEF Range
    <2>2. Range(s) \cup {e} \subseteq Range(Append(s, e))
      BY <1>1 DEF Range
    <2> QED
      BY <2>1, <2>2
  <1>3. IsInjective(s) /\ e \notin Range(s) => IsInjective(Append(s, e))
    BY <1>1 DEF IsInjective, Range
  <1> QED
    BY <1>1, <1>2, <1>3

LEMMA TailOnce ==
  ASSUME NEW S, NEW s \in Seq(S), s # << >>, IsInjective(s)
  PROVE  /\ Tail(s) \in Seq(S) /\ IsInjective(Tail(s))
         /\ Range(Tail(s)) = Range(s) \ {Head(s)}
         /\ Head(s) \in Range(s)
PROOF
  <1>1. /\ Tail(s) \in Seq(S) /\ Len(s) \in Nat \ {0} /\ Len(Tail(s)) = Len(s) - 1
        /\ \A i \in 1 .. Len(s) - 1 : Tail(s)[i] = s[i + 1]
        /\ Head(s) = s[1]
        /\ DOMAIN s = 1 .. Len(s) /\ DOMAIN Tail(s) = 1 .. Len(s) - 1
    OBVIOUS
  <1>2. Range(s) \ {Head(s)} \subseteq Range(Tail(s))
    <2> SUFFICES ASSUME NEW i \in 1 .. Len(s), i # 1
                 PROVE  s[i] \in Range(Tail(s))
      BY <1>1 DEF Range
    <2>1. i - 1 \in 1 .. Len(s) - 1 /\ Tail(s)[i - 1] = s[i]
      BY <1>1
    <2> QED
      BY <1>1, <2>1 DEF Range
  <1>3. Range(Tail(s)) \subseteq Range(s) \ {Head(s)}
    BY <1>1 DEF IsInjective, Range
  <1>4. IsInjective(Tail(s)) /\ Head(s) \in Range(s)
    BY <1>1 DEF IsInjective, Range
  <1> QED
    BY <1>1, <1>2, <1>3, <1>4

LEMMA ConcatOnce ==
  ASSUME NEW S, NEW s \in Seq(S), NEW t \in Seq(S)
  PROVE  /\ s \o t \in Seq(S)
         /\ Range(s \o t) = Range(s) \cup Range(t)
         /\ IsInjective(s) /\ IsInjective(t) /\ Range(s) \cap Range(t) = {} => IsInjective(s \o t)
PROOF
  <1>1. /\ Len(s) \in Nat /\ Len(t) \in Nat
        /\ DOMAIN s = 1 .. Len(s) /\ DOMAIN t = 1 .. Len(t)
        /\ DOMAIN (s \o t) = 1 .. Len(s) + Len(t)
        /\ \A i \in 1 .. Len(s) : (s \o t)[i] = s[i]
        /\ \A i \in 1 .. Len(t) : (s \o t)[Len(s) + i] = t[i]
    OBVIOUS
  <1>2. ASSUME IsInjective(s), IsInjective(t), Range(s) \cap Range(t) = {}
        PROVE  IsInjective(s \o t)
    <2>1. \A i \in 1 .. Len(s), j \in 1 .. Len(t) : s[i] # t[j]
      BY <1>1, <1>2 DEF Range
    <2>2. \A i \in 1 .. Len(s) + Len(t) :
             i \in 1 .. Len(s) \/ (i - Len(s) \in 1 .. Len(t) /\ (s \o t)[i] = t[i - Len(s)])
      BY <1>1
    <2> SUFFICES ASSUME NEW i \in 1 .. Len(s) + Len(t), NEW j \in 1 .. Len(s) + Len(t),
                        (s \o t)[i] = (s \o t)[j]
                 PROVE  i = j
      BY <1>1 DEF IsInjective
    <2>3. CASE i \in 1 .. Len(s) /\ j \in 1 .. Len(s)
      BY <1>1, <1>2, <2>3 DEF IsInjective
    <2>4. CASE i \notin 1 .. Len(s) /\ j \notin 1 .. Len(s)
      <3>1. i - Len(s) = j - Len(s)
        BY <1>1, <1>2, <2>2, <2>4 DEF IsInjective
      <3> QED
        BY <1>1, <3>1
    <2>5. CASE i \in 1 .. Len(s) /\ j \notin 1 .. Len(s)
      BY <1>1, <2>1, <2>2, <2>5
    <2>6. CASE i \notin 1 .. Len(s) /\ j \in 1 .. Len(s)
      BY <1>1, <2>1, <2>2, <2>6
    <2> QED
      BY <2>3, <2>4, <2>5, <2>6
  <1> QED
    BY <1>2, RangeConcatenation

\* The contexts that an event resumes, as tasks
LEMMA ResumeEach ==
  ASSUME NEW ctxs \in Seq(Context), IsInjective(ctxs)
  PROVE  LET resumes == [i \in DOMAIN ctxs |-> Resume(ctxs[i])]
         IN  /\ resumes \in Seq(Task) /\ IsInjective(resumes)
             /\ Range(resumes) = {Resume(c) : c \in Range(ctxs)}
PROOF
  <1> DEFINE resumes == [i \in DOMAIN ctxs |-> Resume(ctxs[i])]
  <1>1. /\ DOMAIN ctxs = 1 .. Len(ctxs) /\ Len(ctxs) \in Nat
        /\ \A i \in DOMAIN ctxs : ctxs[i] \in Context
    OBVIOUS
  <1>2. DOMAIN resumes = DOMAIN ctxs /\ \A i \in DOMAIN ctxs : resumes[i] = Resume(ctxs[i])
    OBVIOUS
  <1>3. resumes \in Seq(Task)
    <2>1. \A i \in 1 .. Len(ctxs) : Resume(ctxs[i]) \in Task
      BY <1>1 DEF Task
    <2>2. resumes = [i \in 1 .. Len(ctxs) |-> Resume(ctxs[i])]
      BY <1>1
    <2> QED
      BY <1>1, <2>1, <2>2
  <1>4. IsInjective(resumes)
    <2>1. \A c, d : Resume(c) = Resume(d) => c = d
      BY DEF Resume
    <2> QED
      BY <1>2, <2>1 DEF IsInjective
  <1>5. Range(resumes) = {Resume(c) : c \in Range(ctxs)}
    BY <1>2 DEF Range
  <1> QED
    BY <1>3, <1>4, <1>5
------------------------------------------------------------------------------
(* The run-time's operations: what each leaves in the queue, in the events' lists *)
(* and in the group                                                               *)

Alike(k, l) == k.done = l.done /\ k.bits = l.bits /\ k.wait = l.wait

LEMMA EmptyOnce ==
  /\ Range(<< >>) = {} /\ IsInjective(<< >>)
  /\ \A S : << >> \in Seq(S)
PROOF
  <1>1. DOMAIN << >> = {}
    OBVIOUS
  <1> QED
    BY <1>1 DEF Range, IsInjective

LEMMA KnownTypes ==
  ASSUME NEW k, Known(k)
  PROVE  /\ k \in RunTime /\ Queue(k) \subseteq Task
         /\ \A e \in Event : Waiters(k, e) \subseteq Context
PROOF
  <1>1. Queue(k) \subseteq Task
    <2>1. k.tasks \in Seq(Task)
      BY DEF RunTime, Known
    <2> QED
      BY <2>1 DEF Range, Queue
  <1>2. \A e \in Event : Waiters(k, e) \subseteq Context
    <2> TAKE e \in Event
    <2>1. k.waiting[e] \in Seq(Context)
      BY DEF RunTime, Known
    <2> QED
      BY <2>1 DEF Range, Waiters
  <1> QED
    BY <1>1, <1>2 DEF Known

\* What each operation does to the order of a callback and a coroutine
Keeps(k, l) == \A e \in Event, c \in Context : Ahead(k, e, c) => Ahead(l, e, c)

LEMMA SameAhead ==
  ASSUME NEW k, NEW l, l.tasks = k.tasks
  PROVE  Keeps(k, l)
PROOF
  BY DEF Keeps, Ahead

LEMMA KeepsOn ==
  ASSUME NEW k, NEW l, NEW m, Keeps(k, l), Keeps(l, m)
  PROVE  Keeps(k, m)
PROOF
  BY DEF Keeps

LEMMA AbsentAhead ==
  ASSUME NEW k, NEW e, NEW c, Resume(c) \notin Queue(k)
  PROVE  Ahead(k, e, c)
PROOF
  BY DEF Ahead, Queue, Range

LEMMA PoppedAhead ==
  ASSUME NEW k, k.tasks \in Seq(Task), k.tasks # << >>, NEW l, l.tasks = Tail(k.tasks)
  PROVE  /\ Keeps(k, l)
         /\ \A e \in Event, c \in Context :
              Ahead(k, e, c) /\ Head(k.tasks) = Resume(c) => EventTask(e) \notin Queue(k)
PROOF
  <1>1. /\ Len(k.tasks) \in Nat \ {0} /\ DOMAIN k.tasks = 1 .. Len(k.tasks)
        /\ DOMAIN l.tasks = 1 .. Len(k.tasks) - 1
        /\ \A i \in 1 .. Len(k.tasks) - 1 : l.tasks[i] = k.tasks[i + 1]
        /\ Head(k.tasks) = k.tasks[1]
    OBVIOUS
  <1> HIDE <1>1
  <1>2. ASSUME NEW e \in Event, NEW c \in Context, Ahead(k, e, c)
        PROVE  Ahead(l, e, c)
    <2> SUFFICES ASSUME NEW i \in DOMAIN l.tasks, NEW j \in DOMAIN l.tasks,
                        l.tasks[i] = EventTask(e), l.tasks[j] = Resume(c)
                 PROVE  i < j
      BY DEF Ahead
    <2>1. /\ i \in Nat /\ j \in Nat /\ i + 1 \in DOMAIN k.tasks /\ j + 1 \in DOMAIN k.tasks
          /\ k.tasks[i + 1] = EventTask(e) /\ k.tasks[j + 1] = Resume(c)
      BY <1>1
    <2>2. i + 1 < j + 1
      BY <1>2, <2>1 DEF Ahead
    <2> QED
      BY <2>1, <2>2
  <1>3. ASSUME NEW e \in Event, NEW c \in Context, Ahead(k, e, c), Head(k.tasks) = Resume(c),
               EventTask(e) \in Queue(k)
        PROVE  FALSE
    <2>1. PICK i \in DOMAIN k.tasks : k.tasks[i] = EventTask(e)
      BY <1>3 DEF Queue, Range
    <2>2. i < 1
      BY <1>1, <1>3, <2>1 DEF Ahead
    <2> QED
      BY <1>1, <2>2
  <1> QED
    BY <1>2, <1>3 DEF Keeps

LEMMA PushedAhead ==
  ASSUME NEW k, k.tasks \in Seq(Task), NEW l, NEW t \in Task, l.tasks = Append(k.tasks, t),
         NEW e \in Event, NEW c \in Context, Ahead(k, e, c),
         t # EventTask(e) \/ Resume(c) \notin Queue(k)
  PROVE  Ahead(l, e, c)
PROOF
  <1>1. /\ Len(k.tasks) \in Nat /\ DOMAIN k.tasks = 1 .. Len(k.tasks)
        /\ DOMAIN l.tasks = 1 .. Len(k.tasks) + 1
        /\ \A i \in 1 .. Len(k.tasks) : l.tasks[i] = k.tasks[i]
        /\ l.tasks[Len(k.tasks) + 1] = t
    OBVIOUS
  <1> SUFFICES ASSUME NEW i \in DOMAIN l.tasks, NEW j \in DOMAIN l.tasks,
                      l.tasks[i] = EventTask(e), l.tasks[j] = Resume(c)
               PROVE  i < j
    BY DEF Ahead
  <1>2. CASE i \in DOMAIN k.tasks /\ j \in DOMAIN k.tasks
    BY <1>1, <1>2 DEF Ahead
  <1>3. CASE i \notin DOMAIN k.tasks
    <2>1. i = Len(k.tasks) + 1 /\ t = EventTask(e)
      BY <1>1, <1>3
    <2>2. j \notin DOMAIN k.tasks
      BY <1>1, <2>1 DEF Queue, Range
    <2>3. j = i
      BY <1>1, <2>1, <2>2
    <2> QED
      BY <2>3 DEF EventTask, Resume
  <1>4. CASE i \in DOMAIN k.tasks /\ j \notin DOMAIN k.tasks
    BY <1>1, <1>4
  <1> QED
    BY <1>2, <1>3, <1>4

LEMMA ResumedAhead ==
  ASSUME NEW k, k.tasks \in Seq(Task), NEW l, NEW resumes \in Seq(Task),
         l.tasks = k.tasks \o resumes, \A e : EventTask(e) \notin Range(resumes)
  PROVE  Keeps(k, l)
PROOF
  <1>1. /\ Len(k.tasks) \in Nat /\ DOMAIN k.tasks = 1 .. Len(k.tasks)
        /\ Len(resumes) \in Nat /\ DOMAIN resumes = 1 .. Len(resumes)
        /\ DOMAIN l.tasks = 1 .. Len(k.tasks) + Len(resumes)
        /\ \A i \in 1 .. Len(k.tasks) : l.tasks[i] = k.tasks[i]
        /\ \A i \in 1 .. Len(k.tasks) + Len(resumes) : i > Len(k.tasks) =>
              i - Len(k.tasks) \in 1 .. Len(resumes) /\ l.tasks[i] = resumes[i - Len(k.tasks)]
    OBVIOUS
  <1> HIDE <1>1
  <1> SUFFICES ASSUME NEW e \in Event, NEW c \in Context, Ahead(k, e, c),
                      NEW i \in DOMAIN l.tasks, NEW j \in DOMAIN l.tasks,
                      l.tasks[i] = EventTask(e), l.tasks[j] = Resume(c)
               PROVE  i < j
    BY DEF Keeps, Ahead
  <1>2. i \in DOMAIN k.tasks
    BY <1>1 DEF Range
  <1>3. CASE j \in DOMAIN k.tasks
    BY <1>1, <1>2, <1>3 DEF Ahead
  <1>4. CASE j \notin DOMAIN k.tasks
    BY <1>1, <1>2, <1>4
  <1> QED
    BY <1>3, <1>4

LEMMA KnownPopped ==
  ASSUME NEW k, Known(k), k.tasks # << >>
  PROVE  /\ Known(Popped(k))
         /\ Head(k.tasks) \in Queue(k) /\ Queue(Popped(k)) = Queue(k) \ {Head(k.tasks)}
         /\ \A e \in Event : Waiters(Popped(k), e) = Waiters(k, e)
         /\ Alike(Popped(k), k) /\ Keeps(k, Popped(k))
         /\ \A e \in Event, c \in Context :
              Ahead(k, e, c) /\ Head(k.tasks) = Resume(c) => EventTask(e) \notin Queue(k)
PROOF
  <1>1. k \in RunTime /\ k.tasks \in Seq(Task) /\ IsInjective(k.tasks)
    BY DEF Known, RunTime, Once
  <1> DEFINE rest == Tail(k.tasks)
  <1>2. /\ rest \in Seq(Task) /\ IsInjective(rest)
        /\ Range(rest) = Range(k.tasks) \ {Head(k.tasks)}
        /\ Head(k.tasks) \in Range(k.tasks)
    BY <1>1, TailOnce
  <1>3. Popped(k) = [k EXCEPT !.tasks = rest]
    BY DEF Popped
  <1> HIDE DEF rest
  <1>4. /\ Popped(k) \in RunTime /\ Popped(k).tasks = rest
        /\ Popped(k).waiting = k.waiting /\ Alike(Popped(k), k)
    BY <1>1, <1>2, <1>3 DEF RunTime, Alike
  <1>5. /\ Keeps(k, Popped(k))
        /\ \A e \in Event, c \in Context :
             Ahead(k, e, c) /\ Head(k.tasks) = Resume(c) => EventTask(e) \notin Queue(k)
    BY <1>1, <1>4, PoppedAhead DEF rest
  <1> QED
    BY <1>2, <1>4, <1>5 DEF Known, Once, Queue, Waiters

LEMMA KnownPushed ==
  ASSUME NEW k, Known(k), NEW t \in Task, t \notin Queue(k)
  PROVE  /\ Known(PushTask(k, t))
         /\ Queue(PushTask(k, t)) = Queue(k) \cup {t}
         /\ \A e \in Event : Waiters(PushTask(k, t), e) = Waiters(k, e)
         /\ Alike(PushTask(k, t), k)
         /\ \A e \in Event, c \in Context :
              Ahead(k, e, c) /\ (t # EventTask(e) \/ Resume(c) \notin Queue(k))
                => Ahead(PushTask(k, t), e, c)
PROOF
  <1>1. k \in RunTime /\ k.tasks \in Seq(Task) /\ IsInjective(k.tasks) /\ t \notin Range(k.tasks)
    BY DEF Known, RunTime, Once, Queue
  <1> DEFINE longer == Append(k.tasks, t)
  <1>2. /\ longer \in Seq(Task) /\ IsInjective(longer)
        /\ Range(longer) = Range(k.tasks) \cup {t}
    BY <1>1, AppendOnce
  <1>3. PushTask(k, t) = [k EXCEPT !.tasks = longer]
    BY DEF PushTask
  <1> HIDE DEF longer
  <1>4. /\ PushTask(k, t) \in RunTime /\ PushTask(k, t).tasks = longer
        /\ PushTask(k, t).waiting = k.waiting /\ Alike(PushTask(k, t), k)
    BY <1>1, <1>2, <1>3 DEF RunTime, Alike
  <1>5. \A e \in Event, c \in Context :
          Ahead(k, e, c) /\ (t # EventTask(e) \/ Resume(c) \notin Queue(k))
            => Ahead(PushTask(k, t), e, c)
    BY <1>1, <1>4, PushedAhead DEF longer
  <1> QED
    BY <1>2, <1>4, <1>5 DEF Known, Once, Queue, Waiters

LEMMA ResumePushed ==
  ASSUME NEW k, Known(k), NEW c \in Context, Resume(c) \notin Queue(k)
  PROVE  Keeps(k, PushTask(k, Resume(c)))
PROOF
  BY KnownPushed DEF Keeps, Resume, EventTask, Task

LEMMA KnownInit ==
  ASSUME NEW k, Known(k), NEW e \in Event
  PROVE  LET after == InitEvent(k, e)
         IN  /\ Known(after)
             /\ Queue(after) = Queue(k)
             /\ \A f \in Event : Waiters(after, f) = IF f = e THEN {} ELSE Waiters(k, f)
             /\ after.done = [k.done EXCEPT ![e] = FALSE]
             /\ after.bits = k.bits /\ after.wait = k.wait
             /\ Keeps(k, after)
PROOF
  <1> DEFINE done == [k.done EXCEPT ![e] = FALSE]
             waiting == [k.waiting EXCEPT ![e] = << >>]
             after == InitEvent(k, e)
  <1>1. after = [k EXCEPT !.done = done, !.waiting = waiting] /\ k \in RunTime
    BY DEF InitEvent, Known, RunTime
  <1>2. done \in [Event -> BOOLEAN] /\ waiting \in [Event -> Seq(Context)]
    BY <1>1, EmptyOnce DEF RunTime
  <1>3. \A f \in Event : /\ IsInjective(waiting[f])
                         /\ Range(waiting[f]) = IF f = e THEN {} ELSE Range(k.waiting[f])
    BY <1>1, EmptyOnce DEF Known, Once, RunTime
  <1> HIDE DEF waiting, done, after
  <1>4. /\ after \in RunTime /\ after.tasks = k.tasks
        /\ after.done = done /\ after.waiting = waiting
        /\ after.bits = k.bits /\ after.wait = k.wait
    BY <1>1, <1>2 DEF RunTime
  <1>5. Known(after) /\ Queue(after) = Queue(k)
    BY <1>3, <1>4 DEF Known, Once, Queue
  <1>6. \A f \in Event : Waiters(after, f) = IF f = e THEN {} ELSE Waiters(k, f)
    BY <1>3, <1>4 DEF Waiters
  <1>7. Keeps(k, after)
    BY <1>4, SameAhead
  <1> QED
    BY <1>4, <1>5, <1>6, <1>7 DEF after, done

LEMMA KnownWait ==
  ASSUME NEW k, Known(k), NEW e \in Event, NEW c \in Context,
         ~k.done[e], c \notin Waiters(k, e)
  PROVE  LET after == WaitEvent(k, e, c)
         IN  /\ Known(after)
             /\ Queue(after) = Queue(k)
             /\ \A f \in Event :
                  Waiters(after, f) = IF f = e THEN Waiters(k, f) \cup {c} ELSE Waiters(k, f)
             /\ Alike(after, k) /\ Keeps(k, after)
PROOF
  <1> DEFINE longer == Append(k.waiting[e], c)
             waiting == [k.waiting EXCEPT ![e] = longer]
             after == WaitEvent(k, e, c)
  <1>1. k \in RunTime /\ k.waiting[e] \in Seq(Context) /\ IsInjective(k.waiting[e])
    BY DEF Known, Once, RunTime
  <1>2. after = [k EXCEPT !.waiting = waiting]
    BY <1>1 DEF WaitEvent, RunTime
  <1>3. /\ longer \in Seq(Context) /\ IsInjective(longer)
        /\ Range(longer) = Range(k.waiting[e]) \cup {c}
    BY <1>1, AppendOnce DEF Waiters
  <1> HIDE DEF longer, after
  <1>4. waiting \in [Event -> Seq(Context)]
    BY <1>1, <1>3 DEF RunTime
  <1>5. \A f \in Event : /\ IsInjective(waiting[f])
                         /\ Range(waiting[f]) =
                              IF f = e THEN Range(k.waiting[f]) \cup {c} ELSE Range(k.waiting[f])
    BY <1>1, <1>3 DEF Known, Once, RunTime
  <1> HIDE DEF waiting
  <1>6. /\ after \in RunTime /\ after.tasks = k.tasks
        /\ after.waiting = waiting /\ Alike(after, k)
    BY <1>1, <1>2, <1>4 DEF RunTime, Alike
  <1>7. Known(after) /\ Queue(after) = Queue(k)
    BY <1>1, <1>5, <1>6 DEF Known, Once, Queue
  <1>8. \A f \in Event :
          Waiters(after, f) = IF f = e THEN Waiters(k, f) \cup {c} ELSE Waiters(k, f)
    BY <1>5, <1>6 DEF Waiters
  <1>9. Keeps(k, after)
    BY <1>6, SameAhead
  <1> QED
    BY <1>6, <1>7, <1>8, <1>9 DEF after

\* On an event that is done, the waiting list is emptied and the context goes on.
LEMMA KnownWaitDone ==
  ASSUME NEW k, Known(k), NEW e \in Event, NEW c \in Context,
         k.done[e], Resume(c) \notin Queue(k)
  PROVE  LET after == WaitEvent(k, e, c)
         IN  /\ Known(after)
             /\ Queue(after) = Queue(k) \cup {Resume(c)}
             /\ \A f \in Event : Waiters(after, f) = IF f = e THEN {} ELSE Waiters(k, f)
             /\ Alike(after, k) /\ Keeps(k, after)
PROOF
  <1> DEFINE waiting == [k.waiting EXCEPT ![e] = << >>]
             emptied == [k EXCEPT !.waiting = waiting]
             after == WaitEvent(k, e, c)
  <1>1. k \in RunTime /\ after = PushTask(emptied, Resume(c))
    BY DEF Known, RunTime, WaitEvent, PushResume
  <1>2. /\ waiting \in [Event -> Seq(Context)]
        /\ \A f \in Event : /\ IsInjective(waiting[f])
                            /\ Range(waiting[f]) = IF f = e THEN {} ELSE Range(k.waiting[f])
    BY <1>1, EmptyOnce DEF Known, Once, RunTime
  <1> HIDE DEF waiting, after
  <1>3. /\ emptied \in RunTime /\ emptied.tasks = k.tasks
        /\ emptied.waiting = waiting /\ Alike(emptied, k)
    BY <1>1, <1>2 DEF RunTime, Alike
  <1> HIDE DEF emptied
  <1>4. Known(emptied) /\ Queue(emptied) = Queue(k) /\ Keeps(k, emptied)
    BY <1>2, <1>3, SameAhead DEF Known, Once, Queue
  <1>5. \A f \in Event : Waiters(emptied, f) = IF f = e THEN {} ELSE Waiters(k, f)
    BY <1>2, <1>3 DEF Waiters
  <1>6. /\ Known(after) /\ Queue(after) = Queue(emptied) \cup {Resume(c)}
        /\ \A f \in Event : Waiters(after, f) = Waiters(emptied, f)
        /\ Alike(after, emptied) /\ Keeps(emptied, after)
    <2>1. Resume(c) \in Task /\ Resume(c) \notin Queue(emptied)
      BY <1>4 DEF Task
    <2> QED
      BY <1>1, <1>4, <2>1, KnownPushed, ResumePushed
  <1> QED
    BY <1>3, <1>4, <1>5, <1>6, KeepsOn DEF Alike, after

LEMMA KnownPushEvent ==
  ASSUME NEW k, Known(k), NEW e \in Event, EventTask(e) \notin Queue(k)
  PROVE  LET after == PushEvent(k, e)
         IN  /\ Known(after)
             /\ Queue(after) = Queue(k) \cup {EventTask(e)}
             /\ \A f \in Event : Waiters(after, f) = Waiters(k, f)
             /\ after.done = [k.done EXCEPT ![e] = @ \/ DoneAtPush]
             /\ after.bits = k.bits /\ after.wait = k.wait
             /\ \A f \in Event, c \in Context :
                  Ahead(k, f, c) /\ (f # e \/ Resume(c) \notin Queue(k)) => Ahead(after, f, c)
PROOF
  <1> DEFINE done == [k.done EXCEPT ![e] = @ \/ DoneAtPush]
             counted == [k EXCEPT !.done = done]
             after == PushEvent(k, e)
  <1>1. k \in RunTime /\ after = PushTask(counted, EventTask(e)) /\ EventTask(e) \in Task
    BY DEF Known, RunTime, PushEvent, Task
  <1>2. done \in [Event -> BOOLEAN]
    BY <1>1, DoneAssumption DEF RunTime
  <1> HIDE DEF done, after
  <1>3. /\ counted \in RunTime /\ counted.tasks = k.tasks /\ counted.waiting = k.waiting
        /\ counted.done = done /\ counted.bits = k.bits /\ counted.wait = k.wait
    BY <1>1, <1>2 DEF RunTime
  <1> HIDE DEF counted
  <1>4. /\ Known(counted) /\ Queue(counted) = Queue(k) /\ Keeps(k, counted)
        /\ \A f \in Event : Waiters(counted, f) = Waiters(k, f)
    BY <1>3, SameAhead DEF Known, Once, Queue, Waiters
  <1>5. /\ Known(after) /\ Queue(after) = Queue(counted) \cup {EventTask(e)}
        /\ \A f \in Event : Waiters(after, f) = Waiters(counted, f)
        /\ Alike(after, counted)
        /\ \A f \in Event, c \in Context :
             Ahead(counted, f, c)
               /\ (EventTask(e) # EventTask(f) \/ Resume(c) \notin Queue(counted))
             => Ahead(after, f, c)
    BY <1>1, <1>4, KnownPushed
  <1>6. \A f \in Event, c \in Context :
          Ahead(k, f, c) /\ (f # e \/ Resume(c) \notin Queue(k)) => Ahead(after, f, c)
    BY <1>4, <1>5 DEF Keeps, EventTask
  <1> QED
    BY <1>3, <1>4, <1>5, <1>6 DEF Alike, after, done

LEMMA KnownRun ==
  ASSUME NEW k, Known(k), NEW e \in Event,
         \A c \in Waiters(k, e) : Resume(c) \notin Queue(k)
  PROVE  LET after == RunEvent(k, e)
         IN  /\ Known(after)
             /\ Queue(after) = Queue(k) \cup {Resume(c) : c \in Waiters(k, e)}
             /\ \A f \in Event : Waiters(after, f) = IF f = e THEN {} ELSE Waiters(k, f)
             /\ after.done = [k.done EXCEPT ![e] = @ \/ ~DoneAtPush]
             /\ after.bits = k.bits /\ after.wait = k.wait
             /\ Keeps(k, after)
PROOF
  <1> DEFINE done == [k.done EXCEPT ![e] = @ \/ ~DoneAtPush]
             waiting == [k.waiting EXCEPT ![e] = << >>]
             ctxs == k.waiting[e]
             resumes == [i \in DOMAIN ctxs |-> Resume(ctxs[i])]
             longer == k.tasks \o resumes
             after == RunEvent(k, e)
  <1>1. /\ k \in RunTime /\ k.tasks \in Seq(Task) /\ IsInjective(k.tasks)
        /\ ctxs \in Seq(Context) /\ IsInjective(ctxs)
    BY DEF Known, Once, RunTime
  <1>3. after = [k EXCEPT !.tasks = longer, !.done = done, !.waiting = waiting]
    BY <1>1 DEF RunEvent, RunTime
  <1>4. /\ resumes \in Seq(Task) /\ IsInjective(resumes)
        /\ Range(resumes) = {Resume(c) : c \in Range(ctxs)}
    BY <1>1, ResumeEach
  <1> HIDE DEF after, ctxs
  <1>5. Range(k.tasks) \cap Range(resumes) = {}
    BY <1>4 DEF Queue, Waiters, ctxs
  <1> HIDE DEF resumes
  <1>6. /\ longer \in Seq(Task) /\ IsInjective(longer)
        /\ Range(longer) = Range(k.tasks) \cup Range(resumes)
    BY <1>1, <1>4, <1>5, ConcatOnce
  <1> HIDE DEF longer
  <1>7. done \in [Event -> BOOLEAN] /\ waiting \in [Event -> Seq(Context)]
    BY <1>1, EmptyOnce, DoneAssumption DEF RunTime
  <1>8. \A f \in Event : /\ IsInjective(waiting[f])
                         /\ Range(waiting[f]) = IF f = e THEN {} ELSE Range(k.waiting[f])
    BY <1>1, EmptyOnce DEF Known, Once, RunTime
  <1> HIDE DEF waiting, done
  <1>9. /\ after \in RunTime /\ after.tasks = longer
        /\ after.done = done /\ after.waiting = waiting
        /\ after.bits = k.bits /\ after.wait = k.wait
    BY <1>1, <1>3, <1>6, <1>7 DEF RunTime
  <1>10. Known(after)
    BY <1>6, <1>8, <1>9 DEF Known, Once
  <1>11. Queue(after) = Queue(k) \cup {Resume(c) : c \in Waiters(k, e)}
    BY <1>4, <1>6, <1>9 DEF Queue, Waiters, ctxs
  <1>12. \A f \in Event : Waiters(after, f) = IF f = e THEN {} ELSE Waiters(k, f)
    BY <1>8, <1>9 DEF Waiters
  <1>13. Keeps(k, after)
    <2>1. \A f : EventTask(f) \notin Range(resumes)
      BY <1>4 DEF Resume, EventTask
    <2> QED
      BY <1>1, <1>4, <1>9, <2>1, ResumedAhead DEF longer
  <1> QED
    BY <1>9, <1>10, <1>11, <1>12, <1>13 DEF after, done

LEMMA KnownClear ==
  ASSUME NEW k, Known(k), NEW old \in SUBSET Bit
  PROVE  LET after == GroupClear(k, old)
         IN  /\ Known(after)
             /\ Queue(after) = Queue(k)
             /\ \A f \in Event : Waiters(after, f) = Waiters(k, f)
             /\ after.done = k.done /\ after.bits = k.bits \ old /\ after.wait = k.wait
             /\ Keeps(k, after)
PROOF
  <1> DEFINE bits == k.bits \ old
             after == GroupClear(k, old)
  <1>1. bits \in SUBSET Bit /\ k \in RunTime /\ after = [k EXCEPT !.bits = bits]
    BY DEF Known, RunTime, GroupClear
  <1> HIDE DEF bits, after
  <1>2. /\ after \in RunTime /\ after.tasks = k.tasks /\ after.waiting = k.waiting
        /\ after.done = k.done /\ after.bits = bits /\ after.wait = k.wait
    BY <1>1 DEF RunTime
  <1> QED
    BY <1>2, SameAhead DEF Known, Once, Queue, Waiters, after, bits

Tested(bits, wanted, all) == IF all THEN wanted \subseteq bits ELSE wanted \cap bits # {}

LEMMA KnownGroupWait ==
  ASSUME NEW k, Known(k), Resume("spi") \notin Queue(k),
         NEW wanted \in SUBSET Bit, NEW all \in BOOLEAN
  PROVE  LET after == GroupWait(k, "spi", wanted, all)
         IN  /\ Known(after)
             /\ Queue(after) = IF Tested(k.bits, wanted, all) THEN Queue(k) \cup {Resume("spi")}
                                                              ELSE Queue(k)
             /\ \A f \in Event : Waiters(after, f) = Waiters(k, f)
             /\ after.done = k.done /\ after.bits = k.bits
             /\ after.wait = IF Tested(k.bits, wanted, all)
                               THEN k.wait ELSE [ctx |-> "spi", bits |-> wanted, all |-> all]
             /\ Keeps(k, after)
PROOF
  <1> DEFINE wait == [ctx |-> "spi", bits |-> wanted, all |-> all]
             after == GroupWait(k, "spi", wanted, all)
  <1>1. Resume("spi") \in Task
    BY DEF Task, Context
  <1>2. CASE Tested(k.bits, wanted, all)
    <2>1. after = PushTask(k, Resume("spi"))
      BY <1>2 DEF GroupWait, GroupTest, PushResume, Tested
    <2> QED
      BY <1>1, <1>2, <2>1, KnownPushed, ResumePushed DEF Alike, Context
  <1>3. CASE ~Tested(k.bits, wanted, all)
    <2>1. after = [k EXCEPT !.wait = wait]
      BY <1>3 DEF GroupWait, GroupTest, Tested
    <2>2. wait \in [ctx : {"spi", "none"}, bits : SUBSET Bit, all : BOOLEAN] /\ k \in RunTime
      BY DEF Known
    <2> HIDE DEF wait, after
    <2>3. /\ after \in RunTime /\ after.tasks = k.tasks /\ after.waiting = k.waiting
          /\ after.done = k.done /\ after.bits = k.bits /\ after.wait = wait
      BY <2>1, <2>2 DEF RunTime
    <2>4. Known(after) /\ Queue(after) = Queue(k)
      BY <2>3 DEF Known, Once, Queue
    <2>5. \A f \in Event : Waiters(after, f) = Waiters(k, f)
      BY <2>3 DEF Waiters
    <2>6. Keeps(k, after)
      BY <2>3, SameAhead
    <2> QED
      BY <1>3, <2>3, <2>4, <2>5, <2>6 DEF after, wait
  <1> QED
    BY <1>2, <1>3

LEMMA KnownSet ==
  ASSUME NEW k, Known(k), NEW new \in SUBSET Bit,
         k.wait # NotWaiting => k.wait.ctx = "spi" /\ Resume("spi") \notin Queue(k)
  PROVE  LET after == GroupSet(k, new)
             wakes == k.wait # NotWaiting /\ Tested(k.bits \cup new, k.wait.bits, k.wait.all)
         IN  /\ Known(after)
             /\ Queue(after) = IF wakes THEN Queue(k) \cup {Resume("spi")} ELSE Queue(k)
             /\ \A f \in Event : Waiters(after, f) = Waiters(k, f)
             /\ after.done = k.done /\ after.bits = k.bits \cup new
             /\ after.wait = IF wakes THEN NotWaiting ELSE k.wait
             /\ Keeps(k, after)
PROOF
  <1> DEFINE bits == k.bits \cup new
             set == [k EXCEPT !.bits = bits]
             rest == [set EXCEPT !.wait = NotWaiting]
             after == GroupSet(k, new)
             wakes == k.wait # NotWaiting /\ Tested(bits, k.wait.bits, k.wait.all)
  <1>1. /\ Resume("spi") \in Task /\ k \in RunTime /\ bits \in SUBSET Bit
        /\ NotWaiting \in [ctx : {"spi", "none"}, bits : SUBSET Bit, all : BOOLEAN]
    BY DEF Task, Context, Known, RunTime, NotWaiting
  <1>2. after = IF wakes THEN PushTask(rest, Resume("spi")) ELSE set
    BY <1>1 DEF GroupSet, GroupUpdate, GroupTest, PushResume, Tested, RunTime
  <1> HIDE DEF bits, after
  <1>3. /\ set \in RunTime /\ set.tasks = k.tasks /\ set.waiting = k.waiting
        /\ set.done = k.done /\ set.bits = bits /\ set.wait = k.wait
    BY <1>1 DEF RunTime
  <1> HIDE DEF set
  <1>4. /\ rest \in RunTime /\ rest.tasks = k.tasks /\ rest.waiting = k.waiting
        /\ rest.done = k.done /\ rest.bits = bits /\ rest.wait = NotWaiting
    BY <1>1, <1>3 DEF RunTime
  <1> HIDE DEF rest
  <1>5. CASE wakes
    <2>1. /\ Known(rest) /\ Queue(rest) = Queue(k)
          /\ \A f \in Event : Waiters(rest, f) = Waiters(k, f)
          /\ Keeps(k, rest)
      BY <1>4, SameAhead DEF Known, Once, Queue, Waiters
    <2>2. after = PushTask(rest, Resume("spi"))
      BY <1>2, <1>5
    <2>3. Resume("spi") \notin Queue(rest)
      BY <1>5, <2>1
    <2>4. /\ Known(after) /\ Queue(after) = Queue(rest) \cup {Resume("spi")}
          /\ \A f \in Event : Waiters(after, f) = Waiters(rest, f)
          /\ Alike(after, rest) /\ Keeps(rest, after)
      BY <1>1, <2>1, <2>2, <2>3, KnownPushed, ResumePushed DEF Context
    <2>5. Keeps(k, after)
      BY <2>1, <2>4, KeepsOn
    <2> QED
      BY <1>4, <1>5, <2>1, <2>4, <2>5 DEF Alike, after, bits
  <1>6. CASE ~wakes
    <2>1. /\ Known(set) /\ Queue(set) = Queue(k) /\ Keeps(k, set)
          /\ \A f \in Event : Waiters(set, f) = Waiters(k, f)
      BY <1>3, SameAhead DEF Known, Once, Queue, Waiters
    <2> QED
      BY <1>2, <1>3, <1>6, <2>1 DEF after, bits
  <1> QED
    BY <1>5, <1>6

LEMMA TasksDistinct ==
  /\ \A c, d : Resume(c) = Resume(d) => c = d
  /\ \A e, f : EventTask(e) = EventTask(f) => e = f
  /\ \A c, e : Resume(c) # EventTask(e)
  /\ \A c : Resume(c) # NinaTask
  /\ \A e : EventTask(e) # NinaTask
PROOF
  BY DEF Resume, EventTask, NinaTask
------------------------------------------------------------------------------
(* Steps of cpx_spi_task, which end in a wait for the group or for spi_done *)

LEMMA TaskTypes ==
  /\ \A c \in Context : Resume(c) \in Task
  /\ \A e \in Event : EventTask(e) \in Task
  /\ NinaTask \in Task
  /\ {"spi", "receiver", "callback"} \cap Sender = {} /\ NoSender \notin Sender
  /\ {"spi", "receiver", "callback"} \cup Sender = Context
  /\ Event = {"spi_done", "send_done", "receive_done"}
PROOF
  BY SenderAssumption DEF Task, NinaTask, Context, Event

LEMMA RunsPopped ==
  ASSUME Known(rt), NEW t, Runs(t)
  PROVE  /\ Known(Popped(rt)) /\ Queued(t)
         /\ Queue(Popped(rt)) = Queue(rt) \ {t}
         /\ \A e \in Event : Waiters(Popped(rt), e) = Waiters(rt, e)
         /\ Popped(rt).done = rt.done /\ Popped(rt).bits = rt.bits /\ Popped(rt).wait = rt.wait
         /\ Keeps(rt, Popped(rt))
         /\ \A e \in Event, c \in Context :
              Ahead(rt, e, c) /\ t = Resume(c) => ~Queued(EventTask(e))
PROOF
  BY KnownPopped DEF Runs, Queued, Alike

\* cpx_spi_task waits for nothing while it runs.
SpiRuns(k) ==
  /\ Known(k) /\ k.wait = NotWaiting
  /\ Resume("spi") \notin Queue(k) /\ EventTask("spi_done") \notin Queue(k)
  /\ Waiters(k, "spi_done") = {}
  /\ Ahead(k, "receive_done", "receiver")
SpiSteps(k) ==
  /\ \A t : t \notin {Resume("spi"), EventTask("spi_done")} =>
              (t \in Queue(rt') <=> t \in Queue(k))
  /\ Waiters(rt', "send_done") = Waiters(k, "send_done")
  /\ Waiters(rt', "receive_done") = Waiters(k, "receive_done")
  /\ rt'.done["send_done"] <=> k.done["send_done"]

LEMMA SpiPopped ==
  ASSUME CpxInv, Runs(Resume("spi"))
  PROVE  LET k == Popped(rt)
         IN  /\ SpiRuns(k) /\ wire = "idle" /\ Queued(Resume("spi"))
             /\ \A t : t # Resume("spi") => (t \in Queue(k) <=> Queued(t))
             /\ \A e \in Event : Waiters(k, e) = Waiters(rt, e)
             /\ k.done = rt.done /\ k.bits = rt.bits
             /\ spi # "start" => ~Queued(EventTask("send_done"))
PROOF
  <1> DEFINE k == Popped(rt)
  <1>1. /\ Known(k) /\ Queued(Resume("spi")) /\ Queue(k) = Queue(rt) \ {Resume("spi")}
        /\ \A e \in Event : Waiters(k, e) = Waiters(rt, e)
        /\ k.done = rt.done /\ k.bits = rt.bits /\ k.wait = rt.wait
        /\ Keeps(rt, k)
        /\ \A e \in Event : Ahead(rt, e, "spi") => ~Queued(EventTask(e))
    BY RunsPopped, TaskTypes DEF CpxInv
  <1> HIDE DEF k
  <1>2. /\ Waiters(rt, "spi_done") \subseteq {"spi"}
        /\ ~Waits("spi", "spi_done") /\ rt.wait = NotWaiting
        /\ wire = "idle"
    BY <1>1 DEF CpxInv, SpiPlaced, Grouped
  <1>3. /\ ~Queued(EventTask("spi_done"))
        /\ spi # "start" => ~Queued(EventTask("send_done"))
        /\ Ahead(k, "receive_done", "receiver")
    BY <1>1, TaskTypes DEF CpxInv, EventsAhead, Keeps
  <1> QED
    BY <1>1, <1>2, <1>3, TaskTypes DEF SpiRuns, k, Queued, Waits

\* What cpx_spi_task pushes while it is not queued itself is ahead of its next turn.
LEMMA AheadOfSpi ==
  ASSUME NEW k, Ahead(k, "spi_done", "spi"), Ahead(k, "send_done", "spi"),
         Ahead(k, "receive_done", "receiver"), Keeps(k, rt')
  PROVE  EventsAhead'
PROOF
  BY TaskTypes DEF EventsAhead, Keeps

LEMMA SpiAhead ==
  ASSUME NEW k, SpiRuns(k), Keeps(k, rt')
  PROVE  EventsAhead'
PROOF
  <1>1. Ahead(k, "spi_done", "spi") /\ Ahead(k, "send_done", "spi")
    BY AbsentAhead DEF SpiRuns
  <1> QED
    BY <1>1, AheadOfSpi DEF SpiRuns

LEMMA SpiGroups ==
  ASSUME NEW k, SpiRuns(k), wire' = "idle", spi' \in {"any", "receive", "rtt"},
         NEW wanted \in SUBSET Bit, wanted = GroupBits',
         rt' = GroupWait(k, "spi", wanted, spi' # "any")
  PROVE  /\ Known(rt') /\ SpiPlaced' /\ SpiSteps(k) /\ rt'.bits = k.bits
         /\ EventsAhead'
         /\ Queued(Resume("spi"))' <=> Tested(k.bits, wanted, spi' # "any")
PROOF
  <1> DEFINE all == spi' # "any"
             after == GroupWait(k, "spi", wanted, all)
             wait == [ctx |-> "spi", bits |-> wanted, all |-> all]
  <1>1. all \in BOOLEAN /\ rt' = after
    OBVIOUS
  <1> HIDE DEF all
  <1>2. /\ Known(after)
        /\ Queue(after) = IF Tested(k.bits, wanted, all) THEN Queue(k) \cup {Resume("spi")}
                                                          ELSE Queue(k)
        /\ \A f \in Event : Waiters(after, f) = Waiters(k, f)
        /\ after.done = k.done /\ after.bits = k.bits
        /\ after.wait = IF Tested(k.bits, wanted, all) THEN k.wait ELSE wait
        /\ Keeps(k, after)
    BY <1>1, KnownGroupWait DEF SpiRuns
  <1> HIDE DEF after
  <1>3. SpiSteps(k) /\ rt'.bits = k.bits
    BY <1>1, <1>2, TaskTypes DEF SpiSteps
  <1>4. wait # NotWaiting
    BY DEF NotWaiting
  <1> HIDE DEF wait
  <1>5. Queued(Resume("spi"))' <=> Tested(k.bits, wanted, all)
    BY <1>1, <1>2 DEF SpiRuns, Queued
  <1>6. Grouped' <=> ~Tested(k.bits, wanted, all)
    BY <1>1, <1>2, <1>4 DEF SpiRuns, Grouped
  <1>7. ~Queued(EventTask("spi_done"))' /\ Waiters(rt', "spi_done") = {}
    BY <1>1, <1>2, TasksDistinct, TaskTypes DEF SpiRuns, Queued
  <1>8. Grouped' => rt'.wait = [ctx |-> "spi", bits |-> GroupBits', all |-> spi' # "any"]
    BY <1>1, <1>2, <1>6 DEF wait, all
  <1>9. SpiPlaced'
    BY <1>5, <1>6, <1>7, <1>8 DEF SpiPlaced, Waits
  <1>10. EventsAhead'
    BY <1>1, <1>2, SpiAhead
  <1> QED
    BY <1>1, <1>2, <1>3, <1>5, <1>9, <1>10 DEF all

LEMMA SpiClocks ==
  ASSUME NEW k, SpiRuns(k), wire = "idle",
         NEW phase \in {"header", "head", "tail"}, spi' = phase,
         Clock(k, phase) \/ ClockNothing(k)
  PROVE  /\ Known(rt') /\ SpiPlaced' /\ SpiSteps(k) /\ rt'.bits = k.bits
         /\ EventsAhead'
         /\ wire' = IF Clock(k, phase) THEN phase ELSE "idle"
PROOF
  <1> DEFINE inited == InitEvent(k, "spi_done")
             pushed == PushEvent(inited, "spi_done")
             waited(l) == WaitEvent(l, "spi_done", "spi")
  <1>1. /\ Known(inited) /\ Queue(inited) = Queue(k)
        /\ \A f \in Event : Waiters(inited, f) = Waiters(k, f)
        /\ inited.done = [k.done EXCEPT !["spi_done"] = FALSE]
        /\ inited.bits = k.bits /\ inited.wait = NotWaiting
        /\ Keeps(k, inited)
    BY KnownInit, TaskTypes DEF SpiRuns
  <1>2. ~inited.done["spi_done"] /\ (inited.done["send_done"] <=> k.done["send_done"])
    BY <1>1, TaskTypes DEF SpiRuns, Known, RunTime
  <1>3. /\ Ahead(inited, "spi_done", "spi") /\ Ahead(inited, "send_done", "spi")
        /\ Ahead(inited, "receive_done", "receiver")
    BY <1>1, AbsentAhead, TaskTypes DEF SpiRuns, Keeps
  <1> HIDE DEF inited
  <1>4. /\ Known(pushed) /\ Queue(pushed) = Queue(k) \cup {EventTask("spi_done")}
        /\ \A f \in Event : Waiters(pushed, f) = Waiters(k, f)
        /\ pushed.done["spi_done"] <=> DoneAtPush
        /\ pushed.done["send_done"] <=> k.done["send_done"]
        /\ pushed.bits = k.bits /\ pushed.wait = NotWaiting
        /\ Ahead(pushed, "spi_done", "spi") /\ Ahead(pushed, "send_done", "spi")
        /\ Ahead(pushed, "receive_done", "receiver")
    <2>1. EventTask("spi_done") \notin Queue(inited) /\ "spi_done" \in Event
      BY <1>1, TaskTypes DEF SpiRuns
    <2>2. /\ Known(pushed) /\ Queue(pushed) = Queue(inited) \cup {EventTask("spi_done")}
          /\ \A f \in Event : Waiters(pushed, f) = Waiters(inited, f)
          /\ pushed.done = [inited.done EXCEPT !["spi_done"] = @ \/ DoneAtPush]
          /\ pushed.bits = inited.bits /\ pushed.wait = inited.wait
          /\ \A f \in Event, c \in Context :
               Ahead(inited, f, c) /\ (f # "spi_done" \/ Resume(c) \notin Queue(inited))
                 => Ahead(pushed, f, c)
      BY <1>1, <2>1, KnownPushEvent
    <2>3. Resume("spi") \notin Queue(inited)
      BY <1>1 DEF SpiRuns
    <2>4. inited.done \in [Event -> BOOLEAN]
      BY <1>1 DEF Known, RunTime
    <2>5. /\ pushed.done["spi_done"] <=> DoneAtPush
          /\ pushed.done["send_done"] <=> k.done["send_done"]
      BY <1>2, <2>2, <2>4, TaskTypes
    <2>6. /\ Ahead(pushed, "spi_done", "spi") /\ Ahead(pushed, "send_done", "spi")
          /\ Ahead(pushed, "receive_done", "receiver")
      BY <1>3, <2>2, <2>3, TaskTypes
    <2> QED
      BY <1>1, <2>2, <2>5, <2>6
  <1> HIDE DEF pushed
  <1>5. ASSUME NEW l \in {inited, pushed}
        PROVE  /\ Known(waited(l))
               /\ Queue(waited(l)) = IF l.done["spi_done"] THEN Queue(l) \cup {Resume("spi")}
                                                          ELSE Queue(l)
               /\ \A f \in Event : Waiters(waited(l), f) =
                     IF f = "spi_done" /\ ~l.done["spi_done"] THEN {"spi"} ELSE Waiters(k, f)
               /\ waited(l).done["send_done"] <=> k.done["send_done"]
               /\ waited(l).bits = k.bits /\ waited(l).wait = NotWaiting
               /\ Keeps(l, waited(l))
    <2>1. /\ Known(l) /\ Waiters(l, "spi_done") = {} /\ Resume("spi") \notin Queue(l)
          /\ \A f \in Event : Waiters(l, f) = Waiters(k, f)
          /\ l.done["send_done"] <=> k.done["send_done"]
          /\ l.bits = k.bits /\ l.wait = NotWaiting
      <3>1. Resume("spi") \notin Queue(k) /\ Waiters(k, "spi_done") = {}
        BY DEF SpiRuns
      <3>2. CASE l = inited
        BY <1>1, <1>2, <3>1, <3>2, TaskTypes
      <3>3. CASE l = pushed
        BY <1>4, <3>1, <3>3, TaskTypes, TasksDistinct
      <3> QED
        BY <1>5, <3>2, <3>3
    <2>2. "spi" \in Context /\ "spi_done" \in Event
      BY TaskTypes
    <2>3. CASE l.done["spi_done"]
      <3>1. /\ Known(waited(l)) /\ Queue(waited(l)) = Queue(l) \cup {Resume("spi")}
            /\ \A f \in Event : Waiters(waited(l), f) =
                                 IF f = "spi_done" THEN {} ELSE Waiters(l, f)
            /\ Alike(waited(l), l) /\ Keeps(l, waited(l))
        BY <2>1, <2>2, <2>3, KnownWaitDone
      <3> QED
        BY <2>1, <2>3, <3>1 DEF Alike
    <2>4. CASE ~l.done["spi_done"]
      <3>1. /\ Known(waited(l)) /\ Queue(waited(l)) = Queue(l)
            /\ \A f \in Event : Waiters(waited(l), f) =
                    IF f = "spi_done" THEN Waiters(l, f) \cup {"spi"} ELSE Waiters(l, f)
            /\ Alike(waited(l), l) /\ Keeps(l, waited(l))
        BY <2>1, <2>2, <2>4, KnownWait
      <3> QED
        BY <2>1, <2>4, <3>1 DEF Alike
    <2> QED
      BY <2>3, <2>4
  <1> HIDE DEF waited
  <1>6. PICK l \in {inited, pushed} :
           /\ rt' = waited(l)
           /\ \/ l = inited /\ wire' = phase /\ Clock(k, phase)
              \/ l = pushed /\ wire' = "idle" /\ ~Clock(k, phase)
    BY DEF Clock, ClockNothing, inited, pushed, waited
  <1>7. /\ Known(rt')
        /\ Queue(rt') = IF l.done["spi_done"] THEN Queue(l) \cup {Resume("spi")} ELSE Queue(l)
        /\ \A f \in Event : Waiters(rt', f) =
              IF f = "spi_done" /\ ~l.done["spi_done"] THEN {"spi"} ELSE Waiters(k, f)
        /\ rt'.done["send_done"] <=> k.done["send_done"]
        /\ rt'.bits = k.bits /\ rt'.wait = NotWaiting /\ Keeps(l, rt')
    BY <1>5, <1>6
  <1>8. \A t : t # EventTask("spi_done") => (t \in Queue(l) <=> t \in Queue(k))
    BY <1>1, <1>4
  <1>9. SpiSteps(k)
    BY <1>7, <1>8, TaskTypes DEF SpiSteps
  <1>10. /\ Queued(Resume("spi"))' <=> l.done["spi_done"]
         /\ Waiters(rt', "spi_done") = IF l.done["spi_done"] THEN {} ELSE {"spi"}
         /\ ~Grouped'
    BY <1>7, <1>8, TaskTypes, TasksDistinct DEF SpiRuns, Queued, Grouped
  <1>11. wire' # "idle" => wire' = phase /\ ~l.done["spi_done"] /\ ~Queued(EventTask("spi_done"))'
    BY <1>1, <1>2, <1>6, <1>7 DEF Queued, SpiRuns
  <1>12. SpiPlaced'
    BY <1>10, <1>11 DEF SpiPlaced, Waits
  <1>13. EventsAhead'
    BY <1>3, <1>4, <1>7, AheadOfSpi
  <1> QED
    BY <1>6, <1>7, <1>9, <1>12, <1>13

\* The other coroutines stay where they are.
LEMMA OthersPlaced ==
  ASSUME CpxInv, SpiSteps(Popped(rt)), Runs(Resume("spi")),
         UNCHANGED <<receiver, callback, sender, send_req, receive_req>>
  PROVE  ReceiverPlaced' /\ SendersPlaced'
PROOF
  <1> DEFINE k == Popped(rt)
  <1>1. /\ \A t : t # Resume("spi") => (t \in Queue(k) <=> Queued(t))
        /\ \A e \in Event : Waiters(k, e) = Waiters(rt, e)
        /\ k.done = rt.done
    BY SpiPopped
  <1> HIDE DEF k
  <1>2. /\ \A t : t \notin {Resume("spi"), EventTask("spi_done")} => (Queued(t)' <=> Queued(t))
        /\ Waiters(rt', "send_done") = Waiters(rt, "send_done")
        /\ Waiters(rt', "receive_done") = Waiters(rt, "receive_done")
        /\ rt'.done["send_done"] <=> rt.done["send_done"]
    BY <1>1, TaskTypes DEF SpiSteps, k, Queued
  <1>3. ReceiverPlaced'
    BY <1>2, TasksDistinct DEF CpxInv, ReceiverPlaced, Waits
  <1>4. SendersPlaced'
    BY <1>2, TasksDistinct, TaskTypes DEF CpxInv, SendersPlaced, Waits
  <1> QED
    BY <1>3, <1>4
------------------------------------------------------------------------------
(* Each step keeps the invariant: cpx_spi_task *)

LEMMA StartSpiKeeps ==
  ASSUME CpxInv, StartSpi
  PROVE  CpxInv'
PROOF
  <1> DEFINE k == Popped(rt)
             wanted == {"NINA_RTT", "SEND"}
  <1>1. Runs(Resume("spi")) /\ spi = "start" /\ spi' = "any"
    BY DEF StartSpi
  <1>2. /\ SpiRuns(k) /\ wire = "idle" /\ Queued(Resume("spi"))
        /\ \A t : t # Resume("spi") => (t \in Queue(k) <=> Queued(t))
        /\ k.bits = rt.bits
    BY <1>1, SpiPopped
  <1>3. /\ Known(rt') /\ SpiPlaced' /\ SpiSteps(k) /\ rt'.bits = k.bits /\ EventsAhead'
        /\ Queued(Resume("spi"))' <=> Tested(rt.bits, wanted, FALSE)
    <2>1. /\ wanted \in SUBSET Bit /\ wanted = GroupBits' /\ wire' = "idle"
          /\ spi' \in {"any", "receive", "rtt"} /\ ((spi' # "any") = FALSE)
      BY <1>1, <1>2 DEF GroupBits, Bit, StartSpi
    <2>2. rt' = GroupWait(k, "spi", wanted, FALSE)
      BY DEF StartSpi, WaitForWork
    <2> HIDE DEF k, wanted
    <2> QED
      BY <1>2, <2>1, <2>2, SpiGroups
  <1>4. rt'.bits = rt.bits /\ (Queued(NinaTask)' <=> Queued(NinaTask))
    BY <1>2, <1>3, TasksDistinct DEF SpiSteps, Queued
  <1>5. ReceiverPlaced' /\ SendersPlaced'
    BY <1>1, <1>3, OthersPlaced DEF StartSpi, requests
  <1> HIDE DEF k
  <1>6. Typed'
    BY <1>3 DEF CpxInv, Typed, StartSpi, Known, RunTime, requests, nina
  <1>7. RequestsHeld'
    BY <1>1, <1>4 DEF CpxInv, RequestsHeld, BitsMatchRequests, InTransfer, StartSpi, requests
  <1>8. EdgesCounted'
    BY <1>1, <1>2, <1>3, <1>4 DEF CpxInv, EdgesCounted, Unfinished, StartSpi, nina, Tested
  <1>9. CarriedCounted'
    BY <1>1 DEF CpxInv, CarriedCounted, StartSpi, requests
  <1> QED
    BY <1>3, <1>5, <1>6, <1>7, <1>8, <1>9 DEF CpxInv, StartSpi

LEMMA AwaitReceiverKeeps ==
  ASSUME CpxInv, AwaitReceiver
  PROVE  CpxInv'
PROOF
  <1> DEFINE k == Popped(rt)
             wanted == {"RECEIVE"}
  <1>1. Runs(Resume("spi")) /\ spi = "any" /\ spi' = "receive"
    BY DEF AwaitReceiver
  <1>2. /\ SpiRuns(k) /\ wire = "idle" /\ Queued(Resume("spi"))
        /\ \A t : t # Resume("spi") => (t \in Queue(k) <=> Queued(t))
        /\ k.bits = rt.bits
    BY <1>1, SpiPopped
  <1>3. /\ Known(rt') /\ SpiPlaced' /\ SpiSteps(k) /\ rt'.bits = k.bits /\ EventsAhead'
        /\ Queued(Resume("spi"))' <=> Tested(rt.bits, wanted, TRUE)
    <2>1. /\ wanted \in SUBSET Bit /\ wanted = GroupBits' /\ wire' = "idle"
          /\ spi' \in {"any", "receive", "rtt"} /\ ((spi' # "any") = TRUE)
      BY <1>1, <1>2 DEF GroupBits, Bit, AwaitReceiver
    <2>2. rt' = GroupWait(k, "spi", wanted, TRUE)
      BY DEF AwaitReceiver, WaitForWork
    <2> HIDE DEF k, wanted
    <2> QED
      BY <1>2, <2>1, <2>2, SpiGroups
  <1>4. rt'.bits = rt.bits /\ (Queued(NinaTask)' <=> Queued(NinaTask))
    BY <1>2, <1>3, TasksDistinct DEF SpiSteps, Queued
  <1>5. ReceiverPlaced' /\ SendersPlaced'
    BY <1>1, <1>3, OthersPlaced DEF AwaitReceiver, requests
  <1> HIDE DEF k
  <1>6. Typed'
    BY <1>3 DEF CpxInv, Typed, AwaitReceiver, Known, RunTime, requests, nina
  <1>7. RequestsHeld'
    BY <1>1, <1>4
       DEF CpxInv, RequestsHeld, BitsMatchRequests, InTransfer, AwaitReceiver, requests
  <1>8. EdgesCounted'
    BY <1>1, <1>2, <1>3, <1>4 DEF CpxInv, EdgesCounted, Unfinished, AwaitReceiver, nina, Tested
  <1>9. CarriedCounted'
    BY <1>1 DEF CpxInv, CarriedCounted, AwaitReceiver, requests
  <1> QED
    BY <1>3, <1>5, <1>6, <1>7, <1>8, <1>9 DEF CpxInv, AwaitReceiver

LEMMA NotifyNinaKeeps ==
  ASSUME CpxInv, NotifyNina
  PROVE  CpxInv'
PROOF
  <1> DEFINE k == Popped(rt)
             wanted == {"NINA_RTT"}
  <1>1. Runs(Resume("spi")) /\ spi = "receive" /\ spi' = "rtt"
    BY DEF NotifyNina
  <1>2. /\ SpiRuns(k) /\ wire = "idle" /\ Queued(Resume("spi"))
        /\ \A t : t # Resume("spi") => (t \in Queue(k) <=> Queued(t))
        /\ k.bits = rt.bits
    BY <1>1, SpiPopped
  <1>3. /\ Known(rt') /\ SpiPlaced' /\ SpiSteps(k) /\ rt'.bits = k.bits /\ EventsAhead'
        /\ Queued(Resume("spi"))' <=> Tested(rt.bits, wanted, TRUE)
    <2>1. /\ wanted \in SUBSET Bit /\ wanted = GroupBits' /\ wire' = "idle"
          /\ spi' \in {"any", "receive", "rtt"} /\ ((spi' # "any") = TRUE)
      BY <1>1, <1>2 DEF GroupBits, Bit, NotifyNina
    <2>2. rt' = GroupWait(k, "spi", wanted, TRUE)
      BY DEF NotifyNina, WaitForWork
    <2> HIDE DEF k, wanted
    <2> QED
      BY <1>2, <2>1, <2>2, SpiGroups
  <1>4. rt'.bits = rt.bits /\ (Queued(NinaTask)' <=> Queued(NinaTask))
    BY <1>2, <1>3, TasksDistinct DEF SpiSteps, Queued
  <1>5. ReceiverPlaced' /\ SendersPlaced'
    BY <1>1, <1>3, OthersPlaced DEF NotifyNina, requests
  <1> HIDE DEF k
  <1>6. Typed'
    BY <1>3 DEF CpxInv, Typed, NotifyNina, Known, RunTime, requests, nina
  <1>7. RequestsHeld'
    BY <1>1, <1>4 DEF CpxInv, RequestsHeld, BitsMatchRequests, InTransfer, NotifyNina, requests
  <1>8. EdgesCounted'
    BY <1>1, <1>2, <1>3, <1>4 DEF CpxInv, EdgesCounted, Unfinished, NotifyNina, nina, Tested
  <1>9. CarriedCounted'
    BY <1>1 DEF CpxInv, CarriedCounted, NotifyNina, requests
  <1> QED
    BY <1>3, <1>5, <1>6, <1>7, <1>8, <1>9 DEF CpxInv, NotifyNina

LEMMA TransferHeaderKeeps ==
  ASSUME CpxInv, TransferHeader
  PROVE  CpxInv'
PROOF
  <1> DEFINE k == Popped(rt)
  <1>1. Runs(Resume("spi")) /\ spi = "rtt" /\ spi' = "header"
    BY DEF TransferHeader
  <1>2. /\ SpiRuns(k) /\ wire = "idle" /\ Queued(Resume("spi"))
        /\ \A t : t # Resume("spi") => (t \in Queue(k) <=> Queued(t))
        /\ \A e \in Event : Waiters(k, e) = Waiters(rt, e)
        /\ k.done = rt.done /\ k.bits = rt.bits
    BY <1>1, SpiPopped
  <1>3. Known(rt') /\ SpiPlaced' /\ SpiSteps(k) /\ rt'.bits = k.bits /\ EventsAhead'
    BY <1>1, <1>2, SpiClocks DEF TransferHeader
  <1>4. rt'.bits = rt.bits /\ (Queued(NinaTask)' <=> Queued(NinaTask))
    BY <1>2, <1>3, TasksDistinct DEF SpiSteps, Queued
  <1>5. ReceiverPlaced' /\ SendersPlaced'
    BY <1>1, <1>3, OthersPlaced DEF TransferHeader
  <1> HIDE DEF k
  <1>6. Typed'
    BY <1>3 DEF CpxInv, Typed, TransferHeader, Known, RunTime, nina, Clock
  <1>7. RequestsHeld'
    BY <1>1, <1>4 DEF CpxInv, RequestsHeld, BitsMatchRequests, InTransfer, TransferHeader
  <1>8. EdgesCounted'
    BY <1>1, <1>2, <1>3, <1>4 DEF CpxInv, EdgesCounted, Unfinished, TransferHeader, nina
  <1>9. CarriedCounted'
    BY <1>1 DEF CpxInv, CarriedCounted, TransferHeader
  <1> QED
    BY <1>3, <1>5, <1>6, <1>7, <1>8, <1>9 DEF CpxInv, TransferHeader

LEMMA TransferHeadKeeps ==
  ASSUME CpxInv, TransferHead
  PROVE  CpxInv'
PROOF
  <1> DEFINE k == Popped(rt)
  <1>1. Runs(Resume("spi")) /\ spi = "header" /\ spi' = "head"
    BY DEF TransferHead
  <1>2. /\ SpiRuns(k) /\ wire = "idle" /\ Queued(Resume("spi"))
        /\ \A t : t # Resume("spi") => (t \in Queue(k) <=> Queued(t))
        /\ \A e \in Event : Waiters(k, e) = Waiters(rt, e)
        /\ k.done = rt.done /\ k.bits = rt.bits
    BY <1>1, SpiPopped
  <1> DEFINE rearmed == GroupClear(k, {"NINA_RTT"})
  <1>3. /\ SpiRuns(rearmed) /\ Queue(rearmed) = Queue(k)
        /\ \A e \in Event : Waiters(rearmed, e) = Waiters(k, e)
        /\ rearmed.done = k.done /\ rearmed.bits = k.bits \ {"NINA_RTT"}
    <2>1. {"NINA_RTT"} \in SUBSET Bit
      BY DEF Bit
    <2>2. /\ Known(rearmed) /\ Queue(rearmed) = Queue(k)
          /\ \A f \in Event : Waiters(rearmed, f) = Waiters(k, f)
          /\ rearmed.done = k.done /\ rearmed.bits = k.bits \ {"NINA_RTT"}
          /\ rearmed.wait = k.wait /\ Keeps(k, rearmed)
      BY <1>2, <2>1, KnownClear DEF SpiRuns
    <2> QED
      BY <1>2, <2>2, TaskTypes DEF SpiRuns, Keeps
  <1>4. Clock(rearmed, "head") \/ ClockNothing(rearmed)
    BY DEF TransferHead
  <1>5. Unfinished'
    <2>1. CASE HeadLength = 0 /\ ~EndsAtHead(SendLength, ReceiveLength(header'), HeadLength)
      BY <1>1, <2>1 DEF TransferHead, Unfinished, Ends, SendLength, ReceiveLength, HeadLength
    <2>2. CASE ~(HeadLength = 0 /\ ~EndsAtHead(SendLength, ReceiveLength(header'), HeadLength))
      BY <1>1, <2>2 DEF TransferHead, Unfinished, Clock
    <2> QED
      BY <2>1, <2>2
  <1> HIDE DEF rearmed
  <1>6. /\ Known(rt') /\ SpiPlaced' /\ SpiSteps(rearmed) /\ rt'.bits = rearmed.bits /\ EventsAhead'
        /\ wire' = IF Clock(rearmed, "head") THEN "head" ELSE "idle"
    BY <1>1, <1>2, <1>3, <1>4, SpiClocks
  <1>7. rt'.bits = rt.bits \ {"NINA_RTT"} /\ (Queued(NinaTask)' <=> Queued(NinaTask))
    BY <1>2, <1>3, <1>6, TasksDistinct DEF SpiSteps, Queued
  <1>8. ReceiverPlaced' /\ SendersPlaced'
    <2>1. SpiSteps(k)
      BY <1>3, <1>6, TaskTypes DEF SpiSteps
    <2> QED
      BY <1>1, <2>1, OthersPlaced DEF TransferHead
  <1> HIDE DEF k
  <1>9. Typed'
    BY <1>6 DEF CpxInv, Typed, TransferHead, Known, RunTime, nina
  <1>10. RequestsHeld'
    BY <1>1, <1>7 DEF CpxInv, RequestsHeld, BitsMatchRequests, InTransfer, TransferHead
  <1>11. EdgesCounted'
    BY <1>1, <1>2, <1>5, <1>6, <1>7 DEF CpxInv, EdgesCounted, TransferHead, nina
  <1>12. CarriedCounted'
    BY <1>1, <1>5 DEF CpxInv, CarriedCounted, TransferHead
  <1> QED
    BY <1>6, <1>8, <1>9, <1>10, <1>11, <1>12 DEF CpxInv, TransferHead

\* The last phase has bytes to clock unless the transfer ended with the head.
LEMMA TailClocks ==
  ASSUME Typed
  PROVE  TailBytes(SendLength, ReceiveLength(header), HeadLength) = 0 <=> Ends
PROOF
  <1> DEFINE total == TotalLength(SendLength, ReceiveLength(header))
             n == total - HeadLength
  <1>1. SendLength \in Nat /\ HeadLength \in Nat /\ HeadLength <= SendLength
    <2>1. sending = NoSender \/ (HeadLen[sending] \in Nat /\ TailLen[sending] \in Nat)
      BY SenderAssumption DEF Typed
    <2> QED
      BY <2>1 DEF SendLength, HeadLength
  <1>2. ReceiveLength(header) \in Nat
    <2>1. header = "none" \/ PacketLen[header] \in Nat
      BY PacketAssumption DEF Typed
    <2> QED
      BY <2>1 DEF ReceiveLength
  <1>3. total \in Nat /\ total >= SendLength
    BY <1>1, <1>2, MtuAssumption DEF TotalLength, Longer, Shorter
  <1>4. n \in Nat /\ (n = 0 <=> total = HeadLength)
    BY <1>1, <1>3
  <1> HIDE DEF n
  <1>5. RoundedUp(n) = 0 <=> n = 0
    BY <1>4 DEF RoundedUp
  <1> QED
    BY <1>4, <1>5 DEF TailBytes, Ends, EndsAtHead, n

LEMMA TransferTailKeeps ==
  ASSUME CpxInv, TransferTail
  PROVE  CpxInv'
PROOF
  <1> DEFINE k == Popped(rt)
  <1>1. Runs(Resume("spi")) /\ spi = "head" /\ spi' = "tail"
    BY DEF TransferTail
  <1>2. /\ SpiRuns(k) /\ wire = "idle" /\ Queued(Resume("spi"))
        /\ \A t : t # Resume("spi") => (t \in Queue(k) <=> Queued(t))
        /\ \A e \in Event : Waiters(k, e) = Waiters(rt, e)
        /\ k.done = rt.done /\ k.bits = rt.bits
    BY <1>1, SpiPopped
  <1>3. Known(rt') /\ SpiPlaced' /\ SpiSteps(k) /\ rt'.bits = k.bits /\ EventsAhead'
    BY <1>1, <1>2, SpiClocks DEF TransferTail
  <1>4. rt'.bits = rt.bits /\ (Queued(NinaTask)' <=> Queued(NinaTask))
    BY <1>2, <1>3, TasksDistinct DEF SpiSteps, Queued
  <1>5. ReceiverPlaced' /\ SendersPlaced'
    BY <1>1, <1>3, OthersPlaced DEF TransferTail, requests
  <1>6. Typed'
    BY <1>3
       DEF CpxInv, Typed, TransferTail, Known, RunTime, requests, nina, Clock, ClockNothing
  <1>7. RequestsHeld'
    BY <1>1, <1>4
       DEF CpxInv, RequestsHeld, BitsMatchRequests, InTransfer, TransferTail, requests
  <1>8. Unfinished' <=> Unfinished
    <2>1. Unfinished <=> ~Ends
      BY <1>1, <1>2 DEF Unfinished
    <2>2. Unfinished' <=> wire' = "tail"
      BY <1>1 DEF Unfinished
    <2>3. wire' = "tail" <=> ~Ends
      BY <1>2, TailClocks DEF CpxInv, TransferTail, Clock, ClockNothing
    <2> QED
      BY <2>1, <2>2, <2>3
  <1>9. EdgesCounted'
    BY <1>1, <1>2, <1>3, <1>4, <1>8 DEF CpxInv, EdgesCounted, TransferTail, nina
  <1>10. CarriedCounted'
    BY <1>1, <1>8 DEF CpxInv, CarriedCounted, TransferTail, requests
  <1> QED
    BY <1>3, <1>5, <1>6, <1>7, <1>9, <1>10 DEF CpxInv, TransferTail

\* The end of a transfer pushes one event for each request it served.
LEMMA NotifiesSender ==
  ASSUME NEW k, SpiRuns(k), EventTask("send_done") \notin Queue(k)
  PROVE  LET after == NotifySender(k)
         IN  /\ SpiRuns(after)
             /\ Queue(after) = IF sending = NoSender
                                 THEN Queue(k) ELSE Queue(k) \cup {EventTask("send_done")}
             /\ \A e \in Event : Waiters(after, e) = Waiters(k, e)
             /\ after.done["send_done"] <=>
                  k.done["send_done"] \/ (DoneAtPush /\ sending # NoSender)
             /\ after.bits = IF sending = NoSender THEN k.bits ELSE k.bits \ {"SEND"}
PROOF
  <1> DEFINE pushed == PushEvent(k, "send_done")
             cleared == GroupClear(pushed, {"SEND"})
  <1>1. /\ Known(pushed) /\ Queue(pushed) = Queue(k) \cup {EventTask("send_done")}
        /\ \A e \in Event : Waiters(pushed, e) = Waiters(k, e)
        /\ pushed.done["send_done"] <=> k.done["send_done"] \/ DoneAtPush
        /\ pushed.bits = k.bits /\ pushed.wait = k.wait
        /\ Ahead(pushed, "receive_done", "receiver")
    <2>1. /\ Known(pushed) /\ Queue(pushed) = Queue(k) \cup {EventTask("send_done")}
          /\ \A e \in Event : Waiters(pushed, e) = Waiters(k, e)
          /\ pushed.done = [k.done EXCEPT !["send_done"] = @ \/ DoneAtPush]
          /\ pushed.bits = k.bits /\ pushed.wait = k.wait
          /\ Ahead(pushed, "receive_done", "receiver")
      BY KnownPushEvent, TaskTypes DEF SpiRuns
    <2>2. k.done \in [Event -> BOOLEAN] /\ "send_done" \in Event
      BY TaskTypes DEF SpiRuns, Known, RunTime
    <2> QED
      BY <2>1, <2>2
  <1> HIDE DEF pushed
  <1>2. {"SEND"} \in SUBSET Bit
    BY DEF Bit
  <1>3. /\ Known(cleared) /\ Queue(cleared) = Queue(pushed)
        /\ \A e \in Event : Waiters(cleared, e) = Waiters(pushed, e)
        /\ cleared.done = pushed.done /\ cleared.bits = pushed.bits \ {"SEND"}
        /\ cleared.wait = pushed.wait /\ Keeps(pushed, cleared)
    BY <1>1, <1>2, KnownClear
  <1>4. SpiRuns(cleared)
    BY <1>1, <1>3, TaskTypes, TasksDistinct DEF SpiRuns, Keeps
  <1>5. NotifySender(k) = IF sending = NoSender THEN k ELSE cleared
    BY DEF NotifySender, pushed
  <1> HIDE DEF cleared
  <1> QED
    BY <1>1, <1>3, <1>4, <1>5

LEMMA NotifiesReceiver ==
  ASSUME NEW k, SpiRuns(k),
         receiving => {EventTask("receive_done"), Resume("receiver")} \cap Queue(k) = {}
  PROVE  LET after == NotifyReceiver(k)
         IN  /\ SpiRuns(after)
             /\ Queue(after) = IF receiving
                                 THEN Queue(k) \cup {EventTask("receive_done")} ELSE Queue(k)
             /\ \A e \in Event : Waiters(after, e) = Waiters(k, e)
             /\ after.done["send_done"] <=> k.done["send_done"]
             /\ after.bits = IF receiving THEN k.bits \ {"RECEIVE"} ELSE k.bits
PROOF
  <1>1. CASE ~receiving
    BY <1>1 DEF NotifyReceiver
  <1>2. CASE receiving
    <2> DEFINE pushed == PushEvent(k, "receive_done")
               cleared == GroupClear(pushed, {"RECEIVE"})
    <2>1. /\ Known(pushed) /\ Queue(pushed) = Queue(k) \cup {EventTask("receive_done")}
          /\ \A e \in Event : Waiters(pushed, e) = Waiters(k, e)
          /\ pushed.done = [k.done EXCEPT !["receive_done"] = @ \/ DoneAtPush]
          /\ pushed.bits = k.bits /\ pushed.wait = k.wait
          /\ Ahead(pushed, "receive_done", "receiver")
      BY <1>2, KnownPushEvent, TaskTypes DEF SpiRuns
    <2> HIDE DEF pushed
    <2>2. {"RECEIVE"} \in SUBSET Bit
      BY DEF Bit
    <2>3. /\ Known(cleared) /\ Queue(cleared) = Queue(pushed)
          /\ \A e \in Event : Waiters(cleared, e) = Waiters(pushed, e)
          /\ cleared.done = pushed.done /\ cleared.bits = pushed.bits \ {"RECEIVE"}
          /\ cleared.wait = pushed.wait /\ Keeps(pushed, cleared)
      BY <2>1, <2>2, KnownClear
    <2>4. SpiRuns(cleared)
      BY <2>1, <2>3, TaskTypes, TasksDistinct DEF SpiRuns, Keeps
    <2>5. NotifyReceiver(k) = cleared
      BY <1>2 DEF NotifyReceiver, pushed
    <2> HIDE DEF cleared
    <2> QED
      BY <1>2, <2>1, <2>3, <2>4, <2>5, TaskTypes DEF SpiRuns, Known, RunTime
  <1> QED
    BY <1>1, <1>2

LEMMA CompleteTransferKeeps ==
  ASSUME CpxInv, CompleteTransfer
  PROVE  CpxInv'
PROOF
  <1> DEFINE k == Popped(rt)
             told == NotifySender(k)
             notified == NotifyReceiver(told)
             wanted == {"NINA_RTT", "SEND"}
  <1>1. Runs(Resume("spi")) /\ spi = "tail" /\ spi' = "any"
    BY DEF CompleteTransfer
  <1>2. /\ SpiRuns(k) /\ wire = "idle" /\ Queued(Resume("spi"))
        /\ \A t : t # Resume("spi") => (t \in Queue(k) <=> Queued(t))
        /\ \A e \in Event : Waiters(k, e) = Waiters(rt, e)
        /\ k.done = rt.done /\ k.bits = rt.bits /\ ~Queued(EventTask("send_done"))
    BY <1>1, SpiPopped
  <1>3. /\ sending # NoSender => send_req = sending
        /\ receiving => /\ receive_req /\ ~Queued(EventTask("receive_done"))
                        /\ ~Queued(Resume("receiver"))
    BY <1>1 DEF CpxInv, RequestsHeld, InTransfer, ReceiverPlaced
  <1> HIDE DEF k
  <1>4. /\ SpiRuns(told)
        /\ Queue(told) = IF sending = NoSender
                           THEN Queue(k) ELSE Queue(k) \cup {EventTask("send_done")}
        /\ \A e \in Event : Waiters(told, e) = Waiters(k, e)
        /\ told.done["send_done"] <=> k.done["send_done"] \/ (DoneAtPush /\ sending # NoSender)
        /\ told.bits = IF sending = NoSender THEN k.bits ELSE k.bits \ {"SEND"}
    <2>1. CASE sending = NoSender
      BY <1>2, <2>1 DEF NotifySender
    <2>2. CASE sending # NoSender
      BY <1>2, <1>3, <2>2, NotifiesSender, TasksDistinct
    <2> QED
      BY <2>1, <2>2
  <1> HIDE DEF told
  <1>5. /\ SpiRuns(notified)
        /\ Queue(notified) = IF receiving
                               THEN Queue(told) \cup {EventTask("receive_done")} ELSE Queue(told)
        /\ \A e \in Event : Waiters(notified, e) = Waiters(told, e)
        /\ notified.done["send_done"] <=> told.done["send_done"]
        /\ notified.bits = IF receiving THEN told.bits \ {"RECEIVE"} ELSE told.bits
    <2>1. receiving => {EventTask("receive_done"), Resume("receiver")} \cap Queue(told) = {}
      BY <1>2, <1>3, <1>4, TasksDistinct, TaskTypes
    <2> QED
      BY <1>4, <2>1, NotifiesReceiver
  <1>6. rt' = GroupWait(notified, "spi", wanted, FALSE)
    BY DEF CompleteTransfer, WaitForWork, k, told
  <1> HIDE DEF notified
  <1>7. Known(rt') /\ SpiPlaced' /\ SpiSteps(notified) /\ rt'.bits = notified.bits /\ EventsAhead'
    <2>1. /\ wanted \in SUBSET Bit /\ wanted = GroupBits' /\ wire' = "idle"
          /\ spi' \in {"any", "receive", "rtt"} /\ ((spi' # "any") = FALSE)
      BY <1>1, <1>2 DEF GroupBits, Bit, CompleteTransfer
    <2> HIDE DEF wanted
    <2> QED
      BY <1>5, <1>6, <2>1, SpiGroups
  <1>8. /\ \A t : t \notin {Resume("spi"), EventTask("spi_done"), EventTask("send_done"),
                            EventTask("receive_done")} => (Queued(t)' <=> Queued(t))
        /\ Queued(EventTask("send_done"))' <=> sending # NoSender
        /\ Queued(EventTask("receive_done"))' <=> Queued(EventTask("receive_done")) \/ receiving
    BY <1>2, <1>4, <1>5, <1>7, TasksDistinct DEF SpiSteps, Queued
  <1>9. /\ Waiters(rt', "send_done") = Waiters(rt, "send_done")
        /\ Waiters(rt', "receive_done") = Waiters(rt, "receive_done")
        /\ rt'.done["send_done"] <=> rt.done["send_done"] \/ (DoneAtPush /\ sending # NoSender)
    BY <1>2, <1>4, <1>5, <1>7, TaskTypes DEF SpiSteps
  <1>10. /\ rt'.bits \ {"SEND", "RECEIVE"} = rt.bits \ {"SEND", "RECEIVE"}
         /\ "SEND" \in rt'.bits <=> "SEND" \in rt.bits /\ sending = NoSender
         /\ "RECEIVE" \in rt'.bits <=> "RECEIVE" \in rt.bits /\ ~receiving
    BY <1>2, <1>4, <1>5, <1>7
  <1>11. Typed'
    BY <1>7 DEF CpxInv, Typed, CompleteTransfer, Known, RunTime, nina
  <1>12. ReceiverPlaced'
    BY <1>3, <1>8, <1>9, TasksDistinct
       DEF CpxInv, ReceiverPlaced, CompleteTransfer, Waits, Typed
  <1>13. SendersPlaced'
    BY <1>3, <1>8, <1>9, TasksDistinct, TaskTypes
       DEF CpxInv, SendersPlaced, CompleteTransfer, Waits, Typed
  <1>14. RequestsHeld'
    BY <1>1, <1>3, <1>10
       DEF CpxInv, RequestsHeld, BitsMatchRequests, InTransfer, CompleteTransfer, Typed
  <1>15. EdgesCounted'
    BY <1>1, <1>2, <1>8, <1>10, TasksDistinct
       DEF CpxInv, EdgesCounted, Unfinished, CompleteTransfer, nina
  <1>16. CarriedCounted'
    BY <1>1, <1>2, <1>3, TaskTypes DEF CpxInv, CarriedCounted, Unfinished, CompleteTransfer
  <1> QED
    BY <1>7, <1>11, <1>12, <1>13, <1>14, <1>15, <1>16 DEF CpxInv, CompleteTransfer
------------------------------------------------------------------------------
(* ... and the senders *)

\* cpx_spi_task stays where it is, or a bit it waits for wakes it.
SpiWoken(k, l) ==
  \/ l.wait = k.wait /\ (Resume("spi") \in Queue(l) <=> Resume("spi") \in Queue(k))
  \/ /\ k.wait # NotWaiting /\ l.wait = NotWaiting
     /\ Resume("spi") \in Queue(l) /\ Tested(l.bits, k.wait.bits, k.wait.all)

LEMMA GroupSets ==
  ASSUME CpxInv, NEW k, Known(k), k.wait = rt.wait,
         Resume("spi") \in Queue(k) <=> Queued(Resume("spi")), NEW new \in SUBSET Bit
  PROVE  LET after == GroupSet(k, new)
         IN  /\ Known(after)
             /\ \A t : t # Resume("spi") => (t \in Queue(after) <=> t \in Queue(k))
             /\ \A e \in Event : Waiters(after, e) = Waiters(k, e)
             /\ after.done = k.done /\ after.bits = k.bits \cup new
             /\ SpiWoken(rt, after) /\ Keeps(k, after)
PROOF
  <1> DEFINE after == GroupSet(k, new)
             wakes == k.wait # NotWaiting /\ Tested(k.bits \cup new, k.wait.bits, k.wait.all)
  <1>1. k.wait # NotWaiting => k.wait.ctx = "spi" /\ Resume("spi") \notin Queue(k)
    BY DEF CpxInv, SpiPlaced, Grouped
  <1>2. /\ Known(after)
        /\ Queue(after) = IF wakes THEN Queue(k) \cup {Resume("spi")} ELSE Queue(k)
        /\ \A e \in Event : Waiters(after, e) = Waiters(k, e)
        /\ after.done = k.done /\ after.bits = k.bits \cup new
        /\ after.wait = IF wakes THEN NotWaiting ELSE k.wait
        /\ Keeps(k, after)
    BY <1>1, KnownSet
  <1> HIDE DEF after
  <1>3. SpiWoken(rt, after)
    BY <1>2 DEF SpiWoken, Queued
  <1> QED
    BY <1>2, <1>3 DEF after

LEMMA SpiStays ==
  ASSUME CpxInv, SpiWoken(rt, rt'), UNCHANGED <<spi, wire>>, rt.bits \subseteq rt'.bits,
         Waiters(rt', "spi_done") = Waiters(rt, "spi_done"),
         Queued(EventTask("spi_done"))' => Queued(EventTask("spi_done"))
  PROVE  /\ SpiPlaced'
         /\ spi = "header" \/ (spi = "rtt" /\ Queued(Resume("spi"))') => "NINA_RTT" \in rt'.bits
PROOF
  <1>1. CASE rt'.wait = rt.wait /\ (Queued(Resume("spi"))' <=> Queued(Resume("spi")))
    <2>1. SpiPlaced'
      BY <1>1 DEF CpxInv, SpiPlaced, Grouped, GroupBits, Waits
    <2> QED
      BY <1>1, <2>1 DEF CpxInv, EdgesCounted
  <1>2. CASE /\ Grouped /\ ~Grouped' /\ Queued(Resume("spi"))'
             /\ Tested(rt'.bits, rt.wait.bits, rt.wait.all)
    <2>1. /\ spi \in {"any", "receive", "rtt"} /\ ~Waits("spi", "spi_done") /\ wire = "idle"
          /\ rt.wait = [ctx |-> "spi", bits |-> GroupBits, all |-> spi # "any"]
      BY <1>2 DEF CpxInv, SpiPlaced
    <2>2. SpiPlaced'
      BY <1>2, <2>1 DEF CpxInv, SpiPlaced, Waits
    <2>3. spi = "rtt" => "NINA_RTT" \in rt'.bits
      BY <1>2, <2>1 DEF GroupBits, Tested
    <2> QED
      BY <2>1, <2>2, <2>3
  <1> QED
    BY <1>1, <1>2 DEF SpiWoken, Grouped, Queued

\* A task taken from the scheduler other than cpx_spi_task's
LEMMA OtherPopped ==
  ASSUME CpxInv, NEW t, Runs(t)
  PROVE  LET k == Popped(rt)
         IN  /\ Known(k) /\ Queued(t)
             /\ \A u : u \in Queue(k) <=> u # t /\ Queued(u)
             /\ \A e \in Event : Waiters(k, e) = Waiters(rt, e)
             /\ k.done = rt.done /\ k.bits = rt.bits /\ k.wait = rt.wait
             /\ Keeps(rt, k)
             /\ \A e \in Event, c \in Context :
                  Ahead(rt, e, c) /\ t = Resume(c) => ~Queued(EventTask(e))
PROOF
  <1>1. Known(rt)
    BY DEF CpxInv
  <1> QED
    BY <1>1, RunsPopped DEF Queued

LEMMA OrderStays ==
  ASSUME EventsAhead, Keeps(rt, rt'), UNCHANGED spi
  PROVE  EventsAhead'
PROOF
  BY TaskTypes DEF EventsAhead, Keeps

LEMMA SendOrWaitKeeps ==
  ASSUME CpxInv, NEW s \in Sender, SendOrWait(s)
  PROVE  CpxInv'
PROOF
  <1> DEFINE k == Popped(rt)
  <1>1. /\ Known(k) /\ Queued(Resume(s))
        /\ \A u : u \in Queue(k) <=> u # Resume(s) /\ Queued(u)
        /\ \A e \in Event : Waiters(k, e) = Waiters(rt, e)
        /\ k.done = rt.done /\ k.bits = rt.bits /\ k.wait = rt.wait /\ Keeps(rt, k)
    BY OtherPopped DEF SendOrWait
  <1>2. s # "spi" /\ s # NoSender /\ s \in Context /\ ~Waits(s, "send_done")
        /\ Waiters(rt, "send_done") \subseteq Sender /\ sender[s] \in {"start", "contend"}
    BY <1>1, TaskTypes DEF CpxInv, SendersPlaced, SendOrWait
  <1>3. CASE rt.done["send_done"]
    <2> DEFINE inited == InitEvent(k, "send_done")
               set == GroupSet(inited, {"SEND"})
               after == WaitEvent(set, "send_done", s)
    <2>1. /\ Known(inited) /\ Queue(inited) = Queue(k)
          /\ \A e \in Event : Waiters(inited, e) = IF e = "send_done" THEN {} ELSE Waiters(k, e)
          /\ inited.done = [k.done EXCEPT !["send_done"] = FALSE]
          /\ inited.bits = k.bits /\ inited.wait = k.wait /\ Keeps(k, inited)
      BY <1>1, KnownInit, TaskTypes
    <2> HIDE DEF k, inited
    <2>2. /\ Known(set)
          /\ \A t : t # Resume("spi") => (t \in Queue(set) <=> t \in Queue(inited))
          /\ \A e \in Event : Waiters(set, e) = Waiters(inited, e)
          /\ set.done = inited.done /\ set.bits = inited.bits \cup {"SEND"}
          /\ SpiWoken(rt, set) /\ Keeps(inited, set)
      <3>1. {"SEND"} \in SUBSET Bit
        BY DEF Bit
      <3>2. Resume("spi") \in Queue(inited) <=> Queued(Resume("spi"))
        BY <1>1, <1>2, <2>1, TasksDistinct
      <3> QED
        BY <1>1, <2>1, <3>1, <3>2, GroupSets
    <2> HIDE DEF set
    <2>3. ~set.done["send_done"] /\ Waiters(set, "send_done") = {}
      BY <1>1, <2>1, <2>2, TaskTypes DEF Known, RunTime
    <2>4. /\ Known(after) /\ Queue(after) = Queue(set)
          /\ \A e \in Event : Waiters(after, e) =
                IF e = "send_done" THEN Waiters(set, e) \cup {s} ELSE Waiters(set, e)
          /\ Alike(after, set) /\ Keeps(set, after)
      BY <1>2, <2>2, <2>3, KnownWait, TaskTypes
    <2>5. rt' = after
      BY <1>3 DEF SendOrWait, k, inited, set
    <2> HIDE DEF after
    <2>6. /\ Known(rt') /\ SpiWoken(rt, rt') /\ Keeps(rt, rt')
          /\ \A t : t \notin {Resume("spi"), Resume(s)} => (Queued(t)' <=> Queued(t))
          /\ ~Queued(Resume(s))'
          /\ Waiters(rt', "spi_done") = Waiters(rt, "spi_done")
          /\ Waiters(rt', "receive_done") = Waiters(rt, "receive_done")
          /\ Waiters(rt', "send_done") = {s} /\ ~rt'.done["send_done"]
          /\ rt'.bits = rt.bits \cup {"SEND"}
      <3>1. Known(rt') /\ SpiWoken(rt, rt') /\ Keeps(rt, rt')
        <4>1. Known(rt') /\ SpiWoken(rt, rt')
          BY <2>2, <2>4, <2>5 DEF SpiWoken, Alike
        <4>2. Keeps(rt, rt')
          BY <1>1, <2>1, <2>2, <2>4, <2>5, KeepsOn
        <4> QED
          BY <4>1, <4>2
      <3>2. \A t : t # Resume("spi") => (Queued(t)' <=> t # Resume(s) /\ Queued(t))
        BY <1>1, <2>1, <2>2, <2>4, <2>5 DEF Queued
      <3>3. /\ Waiters(rt', "spi_done") = Waiters(rt, "spi_done")
            /\ Waiters(rt', "receive_done") = Waiters(rt, "receive_done")
            /\ Waiters(rt', "send_done") = {s} /\ ~rt'.done["send_done"]
        BY <1>1, <2>1, <2>2, <2>3, <2>4, <2>5, TaskTypes DEF Alike
      <3>4. rt'.bits = rt.bits \cup {"SEND"}
        BY <1>1, <2>1, <2>2, <2>4, <2>5 DEF Alike
      <3> QED
        BY <1>2, <3>1, <3>2, <3>3, <3>4, TasksDistinct
    <2>7. /\ ~DoneAtPush => Waiters(rt, "send_done") = {} /\ ~Queued(EventTask("send_done"))
          /\ send_req = NoSender /\ send_req' = s /\ failed' = FALSE
          /\ sender' = [sender EXCEPT ![s] = "sent"] /\ sender[s] \in {"start", "contend"}
      BY <1>3 DEF CpxInv, SendersPlaced, SendOrWait
    <2>8. Typed'
      BY <2>6, <2>7 DEF CpxInv, Typed, SendOrWait, Known, RunTime, nina
    <2>9. /\ SpiPlaced'
          /\ spi = "header" \/ (spi = "rtt" /\ Queued(Resume("spi"))') => "NINA_RTT" \in rt'.bits
      BY <1>2, <2>6, SpiStays, TasksDistinct DEF SendOrWait
    <2>10. ReceiverPlaced'
      BY <1>2, <2>6, TaskTypes, TasksDistinct DEF CpxInv, ReceiverPlaced, SendOrWait, Waits
    <2>11. SendersPlaced'
      BY <1>2, <2>6, <2>7, TaskTypes, TasksDistinct DEF CpxInv, SendersPlaced, Waits, Typed
    <2>12. RequestsHeld'
      BY <1>2, <2>6, <2>7 DEF CpxInv, RequestsHeld, BitsMatchRequests, InTransfer, SendOrWait
    <2>13. Unfinished' <=> Unfinished
      BY DEF Unfinished, Ends, SendLength, ReceiveLength, HeadLength, SendOrWait
    <2>14. EdgesCounted'
      BY <2>6, <2>9, <2>13, TasksDistinct DEF CpxInv, EdgesCounted, SendOrWait, nina
    <2>15. CarriedCounted'
      <3>1. spi \in {"head", "tail"} => sending = NoSender
        BY <2>7 DEF CpxInv, RequestsHeld, InTransfer
      <3>2. UNCHANGED <<spi, sending, carried>>
        BY DEF SendOrWait
      <3> SUFFICES ASSUME ~DoneAtPush, NEW x \in Sender
                   PROVE  /\ sender'[x] \in {"start", "contend"} => carried[x] = 0
                          /\ sender'[x] = "sent" =>
                               carried[x] = IF s # x \/ (spi \in {"head", "tail"} /\ sending = x
                                                          /\ ~Unfinished')
                                              THEN 1 ELSE 0
        BY <2>7, <3>2 DEF CpxInv, CarriedCounted
      <3>3. sender'[x] = IF x = s THEN "sent" ELSE sender[x]
        BY <2>7 DEF CpxInv, Typed
      <3>4. /\ sender[x] \in {"start", "contend"} => carried[x] = 0
            /\ sender[x] = "sent" => carried[x] = 1
        BY <2>7, TaskTypes DEF CpxInv, CarriedCounted
      <3> QED
        BY <1>2, <2>7, <3>1, <3>3, <3>4
    <2>16. EventsAhead'
      BY <2>6, OrderStays DEF CpxInv, SendOrWait
    <2> QED
      BY <2>6, <2>7, <2>8, <2>9, <2>10, <2>11, <2>12, <2>14, <2>15, <2>16 DEF CpxInv
  <1>4. CASE ~rt.done["send_done"]
    <2> DEFINE after == WaitEvent(k, "send_done", s)
    <2>1. /\ Known(after) /\ Queue(after) = Queue(k)
          /\ \A e \in Event : Waiters(after, e) =
                IF e = "send_done" THEN Waiters(k, e) \cup {s} ELSE Waiters(k, e)
          /\ Alike(after, k) /\ Keeps(k, after)
      BY <1>1, <1>2, <1>4, KnownWait, TaskTypes DEF Waits
    <2>2. rt' = after
      BY <1>4 DEF SendOrWait
    <2> HIDE DEF k, after
    <2>3. /\ Known(rt') /\ SpiWoken(rt, rt')
          /\ \A t : Queued(t)' <=> t # Resume(s) /\ Queued(t)
          /\ Waiters(rt', "spi_done") = Waiters(rt, "spi_done")
          /\ Waiters(rt', "receive_done") = Waiters(rt, "receive_done")
          /\ Waiters(rt', "send_done") = Waiters(rt, "send_done") \cup {s}
          /\ ~rt'.done["send_done"] /\ rt'.bits = rt.bits
      BY <1>1, <1>2, <1>4, <2>1, <2>2, TaskTypes, TasksDistinct DEF SpiWoken, Alike, Queued
    <2>4. /\ sender' = [sender EXCEPT ![s] = "contend"] /\ sender[s] \in {"start", "contend"}
          /\ UNCHANGED <<send_req, failed>>
      BY <1>4 DEF SendOrWait
    <2>5. Typed'
      BY <2>3, <2>4 DEF CpxInv, Typed, SendOrWait, Known, RunTime, nina
    <2>6. /\ SpiPlaced'
          /\ spi = "header" \/ (spi = "rtt" /\ Queued(Resume("spi"))') => "NINA_RTT" \in rt'.bits
      BY <1>2, <2>3, SpiStays, TasksDistinct DEF SendOrWait
    <2>7. ReceiverPlaced'
      BY <1>2, <2>3, TaskTypes, TasksDistinct DEF CpxInv, ReceiverPlaced, SendOrWait, Waits
    <2>8. SendersPlaced'
      BY <1>2, <1>4, <2>3, <2>4, TaskTypes, TasksDistinct
         DEF CpxInv, SendersPlaced, Waits, Typed
    <2>9. RequestsHeld'
      BY <2>3, <2>4 DEF CpxInv, RequestsHeld, BitsMatchRequests, InTransfer, SendOrWait
    <2>10. Unfinished' <=> Unfinished
      BY DEF Unfinished, Ends, SendLength, ReceiveLength, HeadLength, SendOrWait
    <2>11. EdgesCounted'
      BY <2>3, <2>6, <2>10, TasksDistinct DEF CpxInv, EdgesCounted, SendOrWait, nina
    <2>12. CarriedCounted'
      BY <2>4, <2>10 DEF CpxInv, CarriedCounted, SendOrWait, Typed
    <2>13. EventsAhead'
      <3>1. Keeps(rt, rt')
        BY <1>1, <2>1, <2>2, KeepsOn
      <3> QED
        BY <3>1, OrderStays DEF CpxInv, SendOrWait
    <2> QED
      BY <2>3, <2>4, <2>5, <2>6, <2>7, <2>8, <2>9, <2>11, <2>12, <2>13 DEF CpxInv
  <1> QED
    BY <1>3, <1>4

LEMMA FinishSendKeeps ==
  ASSUME CpxInv, NEW s \in Sender, FinishSend(s)
  PROVE  CpxInv' /\ (~DoneAtPush => carried[s] = 1)
PROOF
  <1>1. /\ Known(rt') /\ Queued(Resume(s))
        /\ \A u : Queued(u)' <=> u # Resume(s) /\ Queued(u)
        /\ \A e \in Event : Waiters(rt', e) = Waiters(rt, e)
        /\ rt'.done = rt.done /\ rt'.bits = rt.bits /\ rt'.wait = rt.wait /\ Keeps(rt, rt')
    BY OtherPopped DEF FinishSend, Queued
  <1>2. /\ s # "spi" /\ s \notin {"receiver", "callback"} /\ ~Waits(s, "send_done")
        /\ sender[s] = "sent" /\ sender' = [sender EXCEPT ![s] = "idle"]
    BY <1>1, TaskTypes DEF CpxInv, SendersPlaced, FinishSend
  <1>3. ~DoneAtPush => send_req # s /\ carried[s] = 1
    BY <1>2, TaskTypes DEF CpxInv, SendersPlaced, CarriedCounted
  <1>4. Typed'
    BY <1>1, <1>2 DEF CpxInv, Typed, FinishSend, Known, RunTime, requests, nina
  <1>5. SpiWoken(rt, rt') /\ (Queued(EventTask("spi_done"))' <=> Queued(EventTask("spi_done")))
        /\ (Queued(NinaTask)' <=> Queued(NinaTask))
    BY <1>1, <1>2, TasksDistinct DEF SpiWoken, Queued
  <1>6. /\ SpiPlaced'
        /\ spi = "header" \/ (spi = "rtt" /\ Queued(Resume("spi"))') => "NINA_RTT" \in rt'.bits
    BY <1>1, <1>5, SpiStays, TaskTypes DEF FinishSend
  <1>7. ReceiverPlaced'
    BY <1>1, <1>2, TaskTypes, TasksDistinct
       DEF CpxInv, ReceiverPlaced, FinishSend, requests, Waits
  <1>8. SendersPlaced'
    BY <1>1, <1>2, <1>3, TaskTypes, TasksDistinct
       DEF CpxInv, SendersPlaced, FinishSend, requests, Waits, Typed
  <1>9. RequestsHeld'
    BY <1>1 DEF CpxInv, RequestsHeld, BitsMatchRequests, InTransfer, FinishSend, requests
  <1>10. Unfinished' <=> Unfinished
    BY DEF Unfinished, Ends, SendLength, ReceiveLength, HeadLength, FinishSend, requests
  <1>11. EdgesCounted'
    BY <1>1, <1>5, <1>6, <1>10 DEF CpxInv, EdgesCounted, FinishSend, nina
  <1>12. CarriedCounted'
    BY <1>2, <1>10 DEF CpxInv, CarriedCounted, FinishSend, requests, Typed
  <1>13. EventsAhead'
    BY <1>1, OrderStays DEF CpxInv, FinishSend
  <1> QED
    BY <1>1, <1>3, <1>4, <1>6, <1>7, <1>8, <1>9, <1>11, <1>12, <1>13 DEF CpxInv, FinishSend

LEMMA StartSendKeeps ==
  ASSUME CpxInv, NEW s \in Sender, StartSend(s)
  PROVE  CpxInv'
PROOF
  <1>1. /\ s \notin {"spi", "receiver", "callback"} /\ Resume(s) \in Task
        /\ ~Waits(s, "send_done") /\ ~Queued(Resume(s))
        /\ sender[s] = "idle" /\ sender' = [sender EXCEPT ![s] = "start"]
        /\ carried' = [carried EXCEPT ![s] = 0]
    BY TaskTypes DEF CpxInv, SendersPlaced, StartSend
  <1>2. /\ Known(rt')
        /\ \A u : Queued(u)' <=> u = Resume(s) \/ Queued(u)
        /\ \A e \in Event : Waiters(rt', e) = Waiters(rt, e)
        /\ rt'.done = rt.done /\ rt'.bits = rt.bits /\ rt'.wait = rt.wait /\ Keeps(rt, rt')
    <2>1. Known(rt) /\ rt' = PushTask(rt, Resume(s))
      BY DEF CpxInv, StartSend, PushResume
    <2>2. /\ Known(rt') /\ Queue(rt') = Queue(rt) \cup {Resume(s)}
          /\ \A e \in Event : Waiters(rt', e) = Waiters(rt, e)
          /\ Alike(rt', rt) /\ Keeps(rt, rt')
      BY <1>1, <2>1, KnownPushed, ResumePushed, TaskTypes DEF Queued
    <2> QED
      BY <2>2 DEF Queued, Alike
  <1>3. Typed'
    BY <1>1, <1>2 DEF CpxInv, Typed, StartSend, Known, RunTime, requests, nina
  <1>4. SpiWoken(rt, rt') /\ (Queued(EventTask("spi_done"))' <=> Queued(EventTask("spi_done")))
        /\ (Queued(NinaTask)' <=> Queued(NinaTask))
    BY <1>1, <1>2, TasksDistinct DEF SpiWoken, Queued
  <1>5. /\ SpiPlaced'
        /\ spi = "header" \/ (spi = "rtt" /\ Queued(Resume("spi"))') => "NINA_RTT" \in rt'.bits
    BY <1>2, <1>4, SpiStays, TaskTypes DEF StartSend
  <1>6. ReceiverPlaced'
    BY <1>1, <1>2, TaskTypes, TasksDistinct
       DEF CpxInv, ReceiverPlaced, StartSend, requests, Waits
  <1>7. SendersPlaced'
    BY <1>1, <1>2, TaskTypes, TasksDistinct
       DEF CpxInv, SendersPlaced, StartSend, requests, Waits, Typed
  <1>8. RequestsHeld'
    BY <1>2 DEF CpxInv, RequestsHeld, BitsMatchRequests, InTransfer, StartSend, requests
  <1>9. Unfinished' <=> Unfinished
    BY DEF Unfinished, Ends, SendLength, ReceiveLength, HeadLength, StartSend, requests
  <1>10. EdgesCounted'
    BY <1>2, <1>4, <1>5, <1>9 DEF CpxInv, EdgesCounted, StartSend, nina
  <1>11. CarriedCounted'
    BY <1>1, <1>9 DEF CpxInv, CarriedCounted, StartSend, requests, Typed
  <1>12. EventsAhead'
    BY <1>2, OrderStays DEF CpxInv, StartSend
  <1> QED
    BY <1>2, <1>3, <1>5, <1>6, <1>7, <1>8, <1>10, <1>11, <1>12 DEF CpxInv, StartSend
------------------------------------------------------------------------------
(* ... the receiver and its callback *)

LEMMA ReceiveKeeps ==
  ASSUME CpxInv, ReceiverTask, ~(receiver = "packet" /\ ReceiveLength(header) > 0)
  PROVE  CpxInv'
PROOF
  <1> DEFINE k == Popped(rt)
             inited == InitEvent(k, "receive_done")
             set == GroupSet(inited, {"RECEIVE"})
             after == WaitEvent(set, "receive_done", "receiver")
  <1>1. /\ Known(k) /\ Queued(Resume("receiver"))
        /\ \A u : u \in Queue(k) <=> u # Resume("receiver") /\ Queued(u)
        /\ \A e \in Event : Waiters(k, e) = Waiters(rt, e)
        /\ k.done = rt.done /\ k.bits = rt.bits /\ k.wait = rt.wait /\ Keeps(rt, k)
        /\ ~Queued(EventTask("receive_done"))
    BY OtherPopped, TaskTypes DEF ReceiverTask, CpxInv, EventsAhead
  <1>2. /\ Receive(k)
        /\ UNCHANGED <<spi, sender, send_req, sending, receiving, header, wire, gap8_rtt, nina,
                       carried>>
    BY DEF ReceiverTask
  <1>3. /\ ~Waits("receiver", "receive_done") /\ ~receive_req /\ callback = "idle"
        /\ ~Queued(EventTask("receive_done"))
    BY <1>1 DEF CpxInv, ReceiverPlaced
  <1>4. /\ rt' = after /\ receiver' = "packet" /\ receive_req' = TRUE /\ callback' = callback
        /\ failed' = FALSE
    BY <1>2, <1>3 DEF Receive, CpxInv, Typed
  <1> HIDE DEF k
  <1>5. /\ Known(inited) /\ Queue(inited) = Queue(k)
        /\ \A e \in Event : Waiters(inited, e) = IF e = "receive_done" THEN {} ELSE Waiters(k, e)
        /\ inited.done = [k.done EXCEPT !["receive_done"] = FALSE]
        /\ inited.bits = k.bits /\ inited.wait = k.wait /\ Keeps(k, inited)
    BY <1>1, KnownInit, TaskTypes
  <1> HIDE DEF inited
  <1>6. /\ Known(set)
        /\ \A t : t # Resume("spi") => (t \in Queue(set) <=> t \in Queue(inited))
        /\ \A e \in Event : Waiters(set, e) = Waiters(inited, e)
        /\ set.done = inited.done /\ set.bits = inited.bits \cup {"RECEIVE"}
        /\ SpiWoken(rt, set) /\ Keeps(inited, set)
    <2>1. {"RECEIVE"} \in SUBSET Bit
      BY DEF Bit
    <2>2. Resume("spi") \in Queue(inited) <=> Queued(Resume("spi"))
      BY <1>1, <1>5, TasksDistinct
    <2> QED
      BY <1>1, <1>5, <2>1, <2>2, GroupSets
  <1> HIDE DEF set
  <1>7. ~set.done["receive_done"] /\ Waiters(set, "receive_done") = {}
        /\ (set.done["send_done"] <=> rt.done["send_done"])
    BY <1>1, <1>5, <1>6, TaskTypes DEF Known, RunTime
  <1>8. /\ Known(after) /\ Queue(after) = Queue(set)
        /\ \A e \in Event : Waiters(after, e) =
              IF e = "receive_done" THEN Waiters(set, e) \cup {"receiver"} ELSE Waiters(set, e)
        /\ Alike(after, set) /\ Keeps(set, after)
    BY <1>6, <1>7, KnownWait, TaskTypes
  <1> HIDE DEF after
  <1>9. /\ Known(rt') /\ SpiWoken(rt, rt')
        /\ rt.bits \subseteq rt'.bits
        /\ \A t : t \notin {Resume("spi"), Resume("receiver")} => (Queued(t)' <=> Queued(t))
        /\ ~Queued(Resume("receiver"))'
        /\ Queued(EventTask("spi_done"))' <=> Queued(EventTask("spi_done"))
        /\ Waiters(rt', "spi_done") = Waiters(rt, "spi_done")
        /\ Waiters(rt', "send_done") = Waiters(rt, "send_done")
        /\ Waiters(rt', "receive_done") = {"receiver"}
        /\ rt'.done["send_done"] <=> rt.done["send_done"]
        /\ rt'.bits = rt.bits \cup {"RECEIVE"}
    <2>1. Known(rt') /\ SpiWoken(rt, rt')
      BY <1>4, <1>6, <1>8 DEF SpiWoken, Alike
    <2>2. \A t : t # Resume("spi") => (Queued(t)' <=> t # Resume("receiver") /\ Queued(t))
      BY <1>1, <1>4, <1>5, <1>6, <1>8 DEF Queued
    <2>3. /\ Waiters(rt', "spi_done") = Waiters(rt, "spi_done")
          /\ Waiters(rt', "send_done") = Waiters(rt, "send_done")
          /\ Waiters(rt', "receive_done") = {"receiver"}
      BY <1>1, <1>4, <1>5, <1>6, <1>7, <1>8, TaskTypes
    <2>4. /\ rt'.done["send_done"] <=> rt.done["send_done"]
          /\ rt'.bits = rt.bits \cup {"RECEIVE"}
      BY <1>1, <1>4, <1>5, <1>6, <1>7, <1>8 DEF Alike
    <2> QED
      BY <2>1, <2>2, <2>3, <2>4, TasksDistinct
  <1>10. Typed'
    BY <1>2, <1>3, <1>4, <1>9 DEF CpxInv, Typed, Known, RunTime, nina
  <1>11. /\ SpiPlaced'
         /\ spi = "header" \/ (spi = "rtt" /\ Queued(Resume("spi"))') => "NINA_RTT" \in rt'.bits
    BY <1>2, <1>9, SpiStays, TaskTypes
  <1>12. ReceiverPlaced'
    BY <1>2, <1>3, <1>4, <1>9, TaskTypes, TasksDistinct DEF CpxInv, ReceiverPlaced, Waits
  <1>13. SendersPlaced'
    BY <1>2, <1>3, <1>4, <1>9, TaskTypes, TasksDistinct DEF CpxInv, SendersPlaced, Waits
  <1>14. RequestsHeld'
    BY <1>2, <1>3, <1>4, <1>9 DEF CpxInv, RequestsHeld, BitsMatchRequests, InTransfer
  <1>15. Unfinished' <=> Unfinished
    BY <1>2 DEF Unfinished, Ends, SendLength, ReceiveLength, HeadLength
  <1>16. EdgesCounted'
    BY <1>2, <1>9, <1>11, <1>15, TasksDistinct DEF CpxInv, EdgesCounted, nina
  <1>17. CarriedCounted'
    BY <1>2, <1>15 DEF CpxInv, CarriedCounted
  <1>18. EventsAhead'
    <2>1. Keeps(rt, rt')
      BY <1>1, <1>4, <1>5, <1>6, <1>8, KeepsOn
    <2> QED
      BY <1>2, <2>1, OrderStays DEF CpxInv
  <1> QED
    BY <1>2, <1>3, <1>4, <1>9, <1>10, <1>11, <1>12, <1>13, <1>14, <1>16, <1>17, <1>18 DEF CpxInv

LEMMA DispatchKeeps ==
  ASSUME CpxInv, ReceiverTask, receiver = "packet" /\ ReceiveLength(header) > 0
  PROVE  CpxInv'
PROOF
  <1> DEFINE k == Popped(rt)
             inited == InitEvent(k, "receive_done")
             wanted == IF header \in Registered THEN Resume("callback")
                                                ELSE EventTask("receive_done")
             pushed == IF header \in Registered THEN PushResume(inited, "callback")
                                                ELSE PushEvent(inited, "receive_done")
             after == WaitEvent(pushed, "receive_done", "receiver")
  <1>1. /\ Known(k) /\ Queued(Resume("receiver"))
        /\ \A u : u \in Queue(k) <=> u # Resume("receiver") /\ Queued(u)
        /\ \A e \in Event : Waiters(k, e) = Waiters(rt, e)
        /\ k.done = rt.done /\ k.bits = rt.bits /\ k.wait = rt.wait /\ Keeps(rt, k)
        /\ ~Queued(EventTask("receive_done"))
    BY OtherPopped, TaskTypes DEF ReceiverTask, CpxInv, EventsAhead
  <1>2. /\ Dispatch(k)
        /\ UNCHANGED <<spi, sender, send_req, sending, receiving, header, wire, gap8_rtt, nina,
                       carried>>
    BY DEF ReceiverTask
  <1>3. /\ ~Waits("receiver", "receive_done") /\ ~receive_req /\ callback = "idle"
        /\ ~Queued(EventTask("receive_done")) /\ ~Queued(Resume("callback"))
    BY <1>1 DEF CpxInv, ReceiverPlaced
  <1>4. /\ receiver' = "dispatch" /\ receive_req' = receive_req /\ failed' = FALSE
        /\ callback' = IF header \in Registered THEN "start" ELSE callback
    BY <1>2, <1>3 DEF Dispatch, CpxInv, Typed
  <1>5. rt' = after
    BY <1>2 DEF Dispatch
  <1> HIDE DEF k
  <1>6. /\ Known(inited) /\ Queue(inited) = Queue(k)
        /\ \A e \in Event : Waiters(inited, e) = IF e = "receive_done" THEN {} ELSE Waiters(k, e)
        /\ inited.done = [k.done EXCEPT !["receive_done"] = FALSE]
        /\ inited.bits = k.bits /\ inited.wait = k.wait /\ Keeps(k, inited)
    BY <1>1, KnownInit, TaskTypes
  <1> HIDE DEF inited
  <1>7. /\ Known(pushed) /\ Queue(pushed) = Queue(inited) \cup {wanted}
        /\ \A e \in Event : Waiters(pushed, e) = Waiters(inited, e)
        /\ pushed.done["send_done"] <=> rt.done["send_done"]
        /\ pushed.done["receive_done"] => header \notin Registered
        /\ pushed.bits = inited.bits /\ pushed.wait = inited.wait
        /\ Ahead(pushed, "spi_done", "spi") /\ Ahead(pushed, "receive_done", "receiver")
        /\ spi # "start" => Ahead(pushed, "send_done", "spi")
    <2>1. /\ inited.done \in [Event -> BOOLEAN] /\ ~inited.done["receive_done"]
          /\ inited.done["send_done"] <=> rt.done["send_done"]
      BY <1>1, <1>6, TaskTypes DEF Known, RunTime
    <2>2. {Resume("callback"), EventTask("receive_done"), Resume("receiver")} \cap Queue(inited) = {}
      BY <1>1, <1>3, <1>6
    <2>3. /\ Ahead(inited, "spi_done", "spi") /\ Ahead(inited, "receive_done", "receiver")
          /\ spi # "start" => Ahead(inited, "send_done", "spi")
      BY <1>1, <1>6, TaskTypes DEF CpxInv, EventsAhead, Keeps
    <2>4. CASE header \in Registered
      <3>1. /\ Known(pushed) /\ Queue(pushed) = Queue(inited) \cup {wanted}
            /\ \A e \in Event : Waiters(pushed, e) = Waiters(inited, e)
            /\ Alike(pushed, inited) /\ Keeps(inited, pushed)
        BY <1>6, <2>2, <2>4, KnownPushed, ResumePushed, TaskTypes DEF PushResume
      <3> QED
        BY <2>1, <2>3, <2>4, <3>1, TaskTypes DEF Alike, Keeps
    <2>5. CASE header \notin Registered
      <3>1. /\ Known(pushed) /\ Queue(pushed) = Queue(inited) \cup {wanted}
            /\ \A e \in Event : Waiters(pushed, e) = Waiters(inited, e)
            /\ pushed.done = [inited.done EXCEPT !["receive_done"] = @ \/ DoneAtPush]
            /\ pushed.bits = inited.bits /\ pushed.wait = inited.wait
            /\ \A f \in Event, c \in Context :
                 Ahead(inited, f, c) /\ (f # "receive_done" \/ Resume(c) \notin Queue(inited))
                   => Ahead(pushed, f, c)
        BY <1>6, <2>2, <2>5, KnownPushEvent, TaskTypes
      <3> QED
        BY <2>1, <2>2, <2>3, <2>5, <3>1, TaskTypes
    <2> QED
      BY <2>4, <2>5
  <1> HIDE DEF pushed, wanted
  <1> DEFINE done == pushed.done["receive_done"]
  <1>8. /\ Known(after)
        /\ Queue(after) = IF done THEN Queue(pushed) \cup {Resume("receiver")} ELSE Queue(pushed)
        /\ \A e \in Event : Waiters(after, e) =
              IF e = "receive_done" THEN IF done THEN {} ELSE {"receiver"} ELSE Waiters(pushed, e)
        /\ Alike(after, pushed) /\ Keeps(pushed, after)
    <2>1. Waiters(pushed, "receive_done") = {}
      BY <1>6, <1>7, TaskTypes
    <2>2. Resume("receiver") \notin Queue(pushed)
      BY <1>1, <1>6, <1>7, TasksDistinct DEF wanted
    <2>3. CASE done
      BY <1>7, <2>2, <2>3, KnownWaitDone, TaskTypes
    <2>4. CASE ~done
      <3>1. /\ Known(after) /\ Queue(after) = Queue(pushed)
            /\ \A e \in Event : Waiters(after, e) =
                  IF e = "receive_done" THEN Waiters(pushed, e) \cup {"receiver"}
                                        ELSE Waiters(pushed, e)
            /\ Alike(after, pushed) /\ Keeps(pushed, after)
        BY <1>7, <2>1, <2>4, KnownWait, TaskTypes
      <3> QED
        BY <2>1, <2>4, <3>1
    <2> QED
      BY <2>3, <2>4
  <1> HIDE DEF after
  <1>9. EventsAhead'
    BY <1>2, <1>5, <1>7, <1>8, TaskTypes DEF EventsAhead, Keeps
  <1>10. /\ Known(rt') /\ SpiWoken(rt, rt')
         /\ \A t : Queued(t)' <=> \/ t = wanted
                                  \/ t # Resume("receiver") /\ Queued(t)
                                  \/ t = Resume("receiver") /\ done
         /\ Queued(EventTask("spi_done"))' <=> Queued(EventTask("spi_done"))
         /\ Waiters(rt', "spi_done") = Waiters(rt, "spi_done")
         /\ Waiters(rt', "send_done") = Waiters(rt, "send_done")
         /\ Waiters(rt', "receive_done") = IF done THEN {} ELSE {"receiver"}
         /\ rt'.done["send_done"] <=> rt.done["send_done"]
         /\ rt'.bits = rt.bits
    <2>1. \A t : Queued(t)' <=> \/ t = wanted
                                \/ t # Resume("receiver") /\ Queued(t)
                                \/ t = Resume("receiver") /\ done
      BY <1>1, <1>5, <1>6, <1>7, <1>8 DEF Queued
    <2>2. Known(rt') /\ rt'.wait = rt.wait /\ rt'.bits = rt.bits
      BY <1>1, <1>5, <1>6, <1>7, <1>8 DEF Alike
    <2>3. wanted # Resume("spi") /\ wanted # EventTask("spi_done")
      BY TasksDistinct DEF wanted
    <2>4. /\ Waiters(rt', "spi_done") = Waiters(rt, "spi_done")
          /\ Waiters(rt', "send_done") = Waiters(rt, "send_done")
          /\ Waiters(rt', "receive_done") = IF done THEN {} ELSE {"receiver"}
      BY <1>1, <1>5, <1>6, <1>7, <1>8, TaskTypes
    <2>5. rt'.done["send_done"] <=> rt.done["send_done"]
      BY <1>5, <1>7, <1>8 DEF Alike
    <2>6. SpiWoken(rt, rt') /\ (Queued(EventTask("spi_done"))' <=> Queued(EventTask("spi_done")))
      BY <2>1, <2>2, <2>3, TasksDistinct DEF SpiWoken, Queued
    <2> QED
      BY <2>1, <2>2, <2>4, <2>5, <2>6
  <1> HIDE DEF done
  <1>11. Typed'
    BY <1>2, <1>3, <1>4, <1>10 DEF CpxInv, Typed, Known, RunTime, nina
  <1>12. /\ SpiPlaced'
         /\ spi = "header" \/ (spi = "rtt" /\ Queued(Resume("spi"))') => "NINA_RTT" \in rt'.bits
    BY <1>2, <1>10, SpiStays, TaskTypes
  <1>13. ReceiverPlaced'
    <2>1. done => header \notin Registered
      BY <1>7 DEF done
    <2> QED
      BY <1>2, <1>3, <1>4, <1>10, <2>1, TaskTypes, TasksDistinct
         DEF CpxInv, ReceiverPlaced, Waits, wanted
  <1>14. SendersPlaced'
    BY <1>2, <1>3, <1>4, <1>10, TaskTypes, TasksDistinct
       DEF CpxInv, SendersPlaced, Waits, wanted
  <1>15. RequestsHeld'
    BY <1>2, <1>3, <1>4, <1>10 DEF CpxInv, RequestsHeld, BitsMatchRequests, InTransfer
  <1>16. Unfinished' <=> Unfinished
    BY <1>2 DEF Unfinished, Ends, SendLength, ReceiveLength, HeadLength
  <1>17. EdgesCounted'
    BY <1>2, <1>10, <1>12, <1>16, TasksDistinct DEF CpxInv, EdgesCounted, nina, wanted
  <1>18. CarriedCounted'
    BY <1>2, <1>16 DEF CpxInv, CarriedCounted
  <1> QED
    BY <1>2, <1>3, <1>4, <1>9, <1>10, <1>11, <1>12, <1>13, <1>14, <1>15, <1>17, <1>18 DEF CpxInv

LEMMA ReceiverTaskKeeps ==
  ASSUME CpxInv, ReceiverTask
  PROVE  CpxInv'
PROOF
  BY ReceiveKeeps, DispatchKeeps

LEMMA StartCallbackKeeps ==
  ASSUME CpxInv, StartCallback
  PROVE  CpxInv'
PROOF
  <1>1. /\ Known(rt') /\ Queued(Resume("callback"))
        /\ \A u : Queued(u)' <=> u # Resume("callback") /\ Queued(u)
        /\ \A e \in Event : Waiters(rt', e) = Waiters(rt, e)
        /\ rt'.done = rt.done /\ rt'.bits = rt.bits /\ rt'.wait = rt.wait /\ Keeps(rt, rt')
    BY OtherPopped DEF StartCallback, Queued
  <1>2. callback = "start" /\ callback' = "running"
    BY <1>1 DEF CpxInv, ReceiverPlaced, StartCallback
  <1>3. SpiWoken(rt, rt') /\ (Queued(EventTask("spi_done"))' <=> Queued(EventTask("spi_done")))
    BY <1>1, TasksDistinct DEF SpiWoken, Queued
  <1>4. Typed'
    BY <1>1, <1>2, <1>3 DEF CpxInv, Typed, StartCallback, Known, RunTime, requests, nina
  <1>5. /\ SpiPlaced'
        /\ spi = "header" \/ (spi = "rtt" /\ Queued(Resume("spi"))') => "NINA_RTT" \in rt'.bits
    BY <1>1, <1>3, SpiStays, TaskTypes DEF StartCallback
  <1>6. ReceiverPlaced'
    BY <1>1, <1>2, <1>3, TaskTypes, TasksDistinct
       DEF CpxInv, ReceiverPlaced, StartCallback, requests, Waits
  <1>7. SendersPlaced'
    BY <1>1, <1>2, <1>3, TaskTypes, TasksDistinct
       DEF CpxInv, SendersPlaced, StartCallback, requests, Waits
  <1>8. RequestsHeld'
    BY <1>1, <1>2, <1>3
       DEF CpxInv, RequestsHeld, BitsMatchRequests, InTransfer, StartCallback, requests
  <1>9. Unfinished' <=> Unfinished
    BY DEF Unfinished, Ends, SendLength, ReceiveLength, HeadLength, StartCallback, requests
  <1>10. EdgesCounted'
    BY <1>1, <1>5, <1>9, TasksDistinct DEF CpxInv, EdgesCounted, StartCallback, nina
  <1>11. CarriedCounted'
    BY <1>9 DEF CpxInv, CarriedCounted, StartCallback, requests
  <1>12. EventsAhead'
    BY <1>1, OrderStays DEF CpxInv, StartCallback
  <1> QED
    BY <1>1, <1>2, <1>3, <1>4, <1>5, <1>6, <1>7, <1>8, <1>10, <1>11, <1>12
       DEF CpxInv, StartCallback

LEMMA FinishCallbackKeeps ==
  ASSUME CpxInv, FinishCallback
  PROVE  CpxInv'
PROOF
  <1>1. /\ callback = "running" /\ callback' = "idle" /\ ~receive_req
        /\ ~Queued(EventTask("receive_done")) /\ Waits("receiver", "receive_done")
        /\ ~Queued(Resume("receiver"))
    BY DEF CpxInv, ReceiverPlaced, FinishCallback
  <1>2. /\ Known(rt')
        /\ \A u : Queued(u)' <=> u = EventTask("receive_done") \/ Queued(u)
        /\ \A e \in Event : Waiters(rt', e) = Waiters(rt, e)
        /\ rt'.done["send_done"] <=> rt.done["send_done"]
        /\ rt'.bits = rt.bits /\ rt'.wait = rt.wait
        /\ EventsAhead'
    <2>1. Known(rt) /\ rt' = PushEvent(rt, "receive_done")
      BY DEF CpxInv, FinishCallback
    <2>2. /\ Known(rt') /\ Queue(rt') = Queue(rt) \cup {EventTask("receive_done")}
          /\ \A e \in Event : Waiters(rt', e) = Waiters(rt, e)
          /\ rt'.done = [rt.done EXCEPT !["receive_done"] = @ \/ DoneAtPush]
          /\ rt'.bits = rt.bits /\ rt'.wait = rt.wait
          /\ \A f \in Event, c \in Context :
               Ahead(rt, f, c) /\ (f # "receive_done" \/ ~Queued(Resume(c))) => Ahead(rt', f, c)
      BY <1>1, <2>1, KnownPushEvent, TaskTypes DEF Queued
    <2>3. rt'.done["send_done"] <=> rt.done["send_done"]
      BY <2>1, <2>2, TaskTypes DEF Known, RunTime
    <2>4. EventsAhead'
      BY <1>1, <2>2, TaskTypes DEF CpxInv, EventsAhead, FinishCallback
    <2> QED
      BY <2>2, <2>3, <2>4 DEF Queued
  <1>3. SpiWoken(rt, rt') /\ (Queued(EventTask("spi_done"))' <=> Queued(EventTask("spi_done")))
    BY <1>2, TasksDistinct DEF SpiWoken, Queued
  <1>4. Typed'
    BY <1>1, <1>2, <1>3 DEF CpxInv, Typed, FinishCallback, Known, RunTime, requests, nina
  <1>5. /\ SpiPlaced'
        /\ spi = "header" \/ (spi = "rtt" /\ Queued(Resume("spi"))') => "NINA_RTT" \in rt'.bits
    BY <1>2, <1>3, SpiStays, TaskTypes DEF FinishCallback
  <1>6. ReceiverPlaced'
    BY <1>1, <1>2, <1>3, TaskTypes, TasksDistinct
       DEF CpxInv, ReceiverPlaced, FinishCallback, requests, Waits
  <1>7. SendersPlaced'
    BY <1>1, <1>2, <1>3, TaskTypes, TasksDistinct
       DEF CpxInv, SendersPlaced, FinishCallback, requests, Waits
  <1>8. RequestsHeld'
    BY <1>1, <1>2, <1>3
       DEF CpxInv, RequestsHeld, BitsMatchRequests, InTransfer, FinishCallback, requests
  <1>9. Unfinished' <=> Unfinished
    BY DEF Unfinished, Ends, SendLength, ReceiveLength, HeadLength, FinishCallback, requests
  <1>10. EdgesCounted'
    BY <1>2, <1>5, <1>9, TasksDistinct DEF CpxInv, EdgesCounted, FinishCallback, nina
  <1>11. CarriedCounted'
    BY <1>9 DEF CpxInv, CarriedCounted, FinishCallback, requests
  <1> QED
    BY <1>1, <1>2, <1>3, <1>4, <1>5, <1>6, <1>7, <1>8, <1>10, <1>11 DEF CpxInv, FinishCallback
------------------------------------------------------------------------------
(* ... the callbacks of the events and of NINA's line *)

LEMMA RunEventCallbackKeeps ==
  ASSUME CpxInv, NEW e \in Event, RunEventCallback(e)
  PROVE  CpxInv'
PROOF
  <1> DEFINE k == Popped(rt)
  <1>1. /\ Known(k) /\ Queued(EventTask(e))
        /\ \A u : u \in Queue(k) <=> u # EventTask(e) /\ Queued(u)
        /\ \A f \in Event : Waiters(k, f) = Waiters(rt, f)
        /\ k.done = rt.done /\ k.bits = rt.bits /\ k.wait = rt.wait /\ Keeps(rt, k)
    BY OtherPopped DEF RunEventCallback
  <1>2. \A c \in Waiters(rt, e) : ~Queued(Resume(c))
    BY TaskTypes DEF CpxInv, SpiPlaced, ReceiverPlaced, SendersPlaced, Waits
  <1>3. rt' = RunEvent(k, e)
    BY DEF RunEventCallback
  <1> HIDE DEF k
  <1>4. /\ Known(rt')
        /\ \A u : Queued(u)' <=> \/ u # EventTask(e) /\ Queued(u)
                                 \/ \E c \in Waiters(rt, e) : u = Resume(c)
        /\ \A f \in Event : Waiters(rt', f) = IF f = e THEN {} ELSE Waiters(rt, f)
        /\ rt'.done = [rt.done EXCEPT ![e] = @ \/ ~DoneAtPush]
        /\ rt'.bits = rt.bits /\ rt'.wait = rt.wait /\ EventsAhead'
    <2>1. \A c \in Waiters(k, e) : Resume(c) \notin Queue(k)
      BY <1>1, <1>2
    <2>2. /\ Known(rt')
          /\ Queue(rt') = Queue(k) \cup {Resume(c) : c \in Waiters(k, e)}
          /\ \A f \in Event : Waiters(rt', f) = IF f = e THEN {} ELSE Waiters(k, f)
          /\ rt'.done = [k.done EXCEPT ![e] = @ \/ ~DoneAtPush]
          /\ rt'.bits = k.bits /\ rt'.wait = k.wait /\ Keeps(k, rt')
      BY <1>1, <1>3, <2>1, KnownRun
    <2>3. \A u : Queued(u)' <=> \/ u # EventTask(e) /\ Queued(u)
                                \/ \E c \in Waiters(rt, e) : u = Resume(c)
      BY <1>1, <2>2 DEF Queued
    <2>4. EventsAhead'
      <3>1. Keeps(rt, rt')
        BY <1>1, <2>2, KeepsOn
      <3> QED
        BY <3>1, OrderStays DEF CpxInv, RunEventCallback, tasks
    <2> QED
      BY <1>1, <2>2, <2>3, <2>4
  <1>5. \A f \in Event : rt'.done[f] <=> (f = e /\ ~DoneAtPush) \/ rt.done[f]
    BY <1>4 DEF CpxInv, Known, RunTime
  <1>6. /\ \A f \in Event : Queued(EventTask(f))' <=> f # e /\ Queued(EventTask(f))
        /\ \A c : Queued(Resume(c))' <=> Queued(Resume(c)) \/ Waits(c, e)
        /\ Queued(NinaTask)' <=> Queued(NinaTask)
    BY <1>4, TasksDistinct DEF Waits
  <1>7. Typed'
    BY <1>4 DEF CpxInv, Typed, RunEventCallback, Known, RunTime, tasks, requests, nina
  <1>8. /\ SpiPlaced'
        /\ spi = "header" \/ (spi = "rtt" /\ Queued(Resume("spi"))') => "NINA_RTT" \in rt'.bits
    <2>1. CASE e = "spi_done" /\ Waits("spi", "spi_done")
      <3>1. /\ Waits("spi", "spi_done") /\ wire = "idle" /\ ~Grouped
            /\ spi \in {"header", "head", "tail"}
        BY <1>1, <2>1 DEF CpxInv, SpiPlaced
      <3>2. /\ Queued(Resume("spi"))' /\ ~Grouped' /\ Waiters(rt', "spi_done") = {}
            /\ ~Queued(EventTask("spi_done"))'
        BY <1>4, <1>6, <2>1, <3>1, TaskTypes DEF Grouped
      <3>3. UNCHANGED <<spi, wire>>
        BY DEF RunEventCallback, tasks
      <3>4. SpiPlaced'
        BY <3>1, <3>2, <3>3 DEF SpiPlaced, Waits
      <3> QED
        BY <1>4, <3>1, <3>4 DEF CpxInv, EdgesCounted
    <2>2. CASE ~(e = "spi_done" /\ Waits("spi", "spi_done"))
      <3>1. ~Waits("spi", e)
        BY <2>2, TaskTypes DEF CpxInv, ReceiverPlaced, SendersPlaced, Waits
      <3>2. SpiWoken(rt, rt')
        BY <1>4, <1>6, <3>1 DEF SpiWoken, Queued
      <3>3. /\ Queued(EventTask("spi_done"))' => Queued(EventTask("spi_done"))
            /\ Waiters(rt', "spi_done") = Waiters(rt, "spi_done")
        <4>1. e = "spi_done" => Waiters(rt, "spi_done") = {}
          BY <2>2 DEF CpxInv, SpiPlaced, Waits
        <4> QED
          BY <1>4, <1>6, <4>1, TaskTypes
      <3> QED
        BY <1>4, <2>2, <3>2, <3>3, SpiStays, TaskTypes DEF RunEventCallback, tasks
    <2> QED
      BY <2>1, <2>2
  <1>9. ReceiverPlaced'
    <2>1. ~Waits("callback", e)
      BY TaskTypes DEF CpxInv, SpiPlaced, ReceiverPlaced, SendersPlaced, Waits
    <2>2. e # "receive_done" => ~Waits("receiver", e)
      BY TaskTypes DEF CpxInv, SpiPlaced, SendersPlaced, Waits
    <2>3. Waiters(rt', "receive_done") =
            IF e = "receive_done" THEN {} ELSE Waiters(rt, "receive_done")
      BY <1>4, TaskTypes
    <2>4. Queued(EventTask("receive_done"))' <=>
            e # "receive_done" /\ Queued(EventTask("receive_done"))
      BY <1>6, TaskTypes
    <2> QED
      BY <1>1, <1>6, <2>1, <2>2, <2>3, <2>4
         DEF CpxInv, ReceiverPlaced, RunEventCallback, tasks, requests, Waits
  <1>10. SendersPlaced'
    <2>1. \A s \in Sender : e # "send_done" => ~Waits(s, e)
      BY TaskTypes DEF CpxInv, SpiPlaced, ReceiverPlaced, Waits
    <2>2. /\ Waiters(rt', "send_done") =
               IF e = "send_done" THEN {} ELSE Waiters(rt, "send_done")
          /\ Queued(EventTask("send_done"))' <=>
               e # "send_done" /\ Queued(EventTask("send_done"))
          /\ rt'.done["send_done"] <=> (e = "send_done" /\ ~DoneAtPush) \/ rt.done["send_done"]
      BY <1>4, <1>5, <1>6, TaskTypes
    <2> QED
      BY <1>1, <1>6, <2>1, <2>2, TaskTypes
         DEF CpxInv, SendersPlaced, RunEventCallback, tasks, requests, Waits
  <1>11. RequestsHeld'
    BY <1>4 DEF CpxInv, RequestsHeld, BitsMatchRequests, InTransfer, RunEventCallback, tasks,
                requests
  <1>12. Unfinished' <=> Unfinished
    BY
       DEF Unfinished, Ends, SendLength, ReceiveLength, HeadLength, RunEventCallback, tasks,
           requests
  <1>13. EdgesCounted'
    BY <1>4, <1>6, <1>8, <1>12 DEF CpxInv, EdgesCounted, RunEventCallback, tasks, nina
  <1>14. CarriedCounted'
    BY <1>12 DEF CpxInv, CarriedCounted, RunEventCallback, tasks, requests
  <1> QED
    BY <1>4, <1>7, <1>8, <1>9, <1>10, <1>11, <1>13, <1>14 DEF CpxInv, RunEventCallback

LEMMA NinaRttCallbackKeeps ==
  ASSUME CpxInv, NinaRttCallback
  PROVE  CpxInv'
PROOF
  <1> DEFINE k == Popped(rt)
  <1>1. /\ Known(k) /\ Queued(NinaTask)
        /\ \A u : u \in Queue(k) <=> u # NinaTask /\ Queued(u)
        /\ \A e \in Event : Waiters(k, e) = Waiters(rt, e)
        /\ k.done = rt.done /\ k.bits = rt.bits /\ k.wait = rt.wait /\ Keeps(rt, k)
    BY OtherPopped DEF NinaRttCallback, NinaTask
  <1>2. rt' = GroupSet(k, {"NINA_RTT"})
    BY DEF NinaRttCallback
  <1> HIDE DEF k
  <1>3. /\ Known(rt') /\ SpiWoken(rt, rt')
        /\ \A t : t # Resume("spi") => (Queued(t)' <=> t # NinaTask /\ Queued(t))
        /\ \A e \in Event : Waiters(rt', e) = Waiters(rt, e)
        /\ rt'.done = rt.done /\ rt'.bits = rt.bits \cup {"NINA_RTT"}
        /\ Keeps(rt, rt')
    <2>1. {"NINA_RTT"} \in SUBSET Bit
      BY DEF Bit
    <2>2. Resume("spi") \in Queue(k) <=> Queued(Resume("spi"))
      BY <1>1, TasksDistinct
    <2>3. /\ Known(rt') /\ SpiWoken(rt, rt')
          /\ \A t : t # Resume("spi") => (t \in Queue(rt') <=> t \in Queue(k))
          /\ \A e \in Event : Waiters(rt', e) = Waiters(k, e)
          /\ rt'.done = k.done /\ rt'.bits = k.bits \cup {"NINA_RTT"}
          /\ Keeps(k, rt')
      BY <1>1, <1>2, <2>1, <2>2, GroupSets
    <2> QED
      BY <1>1, <2>3, KeepsOn DEF Queued
  <1>4. nina_ready /\ ~Unfinished
    BY <1>1 DEF CpxInv, EdgesCounted
  <1>5. Queued(EventTask("spi_done"))' <=> Queued(EventTask("spi_done"))
    BY <1>3, TasksDistinct
  <1>6. Typed'
    BY <1>3 DEF CpxInv, Typed, NinaRttCallback, tasks, Known, RunTime, requests, nina
  <1>7. /\ SpiPlaced'
        /\ spi = "header" \/ (spi = "rtt" /\ Queued(Resume("spi"))') => "NINA_RTT" \in rt'.bits
    BY <1>3, <1>5, SpiStays, TaskTypes DEF NinaRttCallback, tasks
  <1>8. ReceiverPlaced'
    BY <1>3, TaskTypes, TasksDistinct
       DEF CpxInv, ReceiverPlaced, NinaRttCallback, tasks, requests, Waits
  <1>9. SendersPlaced'
    BY <1>3, TaskTypes, TasksDistinct
       DEF CpxInv, SendersPlaced, NinaRttCallback, tasks, requests, Waits
  <1>10. RequestsHeld'
    BY <1>3
       DEF CpxInv, RequestsHeld, BitsMatchRequests, InTransfer, NinaRttCallback, tasks, requests
  <1>11. Unfinished' <=> Unfinished
    BY
       DEF Unfinished, Ends, SendLength, ReceiveLength, HeadLength, NinaRttCallback, tasks,
           requests
  <1>12. EdgesCounted'
    BY <1>3, <1>4, <1>7, <1>11, TasksDistinct
       DEF CpxInv, EdgesCounted, NinaRttCallback, tasks, nina
  <1>13. CarriedCounted'
    BY <1>11 DEF CpxInv, CarriedCounted, NinaRttCallback, tasks, requests
  <1>14. EventsAhead'
    BY <1>3, OrderStays DEF CpxInv, NinaRttCallback, tasks
  <1> QED
    BY <1>3, <1>6, <1>7, <1>8, <1>9, <1>10, <1>12, <1>13, <1>14 DEF CpxInv, NinaRttCallback
------------------------------------------------------------------------------
(* ... and the environment *)

LEMMA PhaseDoneKeeps ==
  ASSUME CpxInv, PhaseDone
  PROVE  CpxInv'
PROOF
  <1>1. /\ wire # "idle" /\ wire = spi /\ Waits("spi", "spi_done") /\ wire' = "idle"
        /\ ~Queued(EventTask("spi_done")) /\ ~Queued(Resume("spi")) /\ ~Grouped
        /\ spi \in {"header", "head", "tail"} /\ spi' = spi
    BY DEF CpxInv, SpiPlaced, PhaseDone, tasks
  <1>2. /\ Known(rt')
        /\ \A u : Queued(u)' <=> u = EventTask("spi_done") \/ Queued(u)
        /\ \A e \in Event : Waiters(rt', e) = Waiters(rt, e)
        /\ rt'.done["send_done"] <=> rt.done["send_done"]
        /\ rt'.bits = rt.bits /\ rt'.wait = rt.wait
        /\ EventsAhead'
    <2>1. Known(rt) /\ rt' = PushEvent(rt, "spi_done")
      BY DEF CpxInv, PhaseDone
    <2>2. /\ Known(rt') /\ Queue(rt') = Queue(rt) \cup {EventTask("spi_done")}
          /\ \A e \in Event : Waiters(rt', e) = Waiters(rt, e)
          /\ rt'.done = [rt.done EXCEPT !["spi_done"] = @ \/ DoneAtPush]
          /\ rt'.bits = rt.bits /\ rt'.wait = rt.wait
          /\ \A f \in Event, c \in Context :
               Ahead(rt, f, c) /\ (f # "spi_done" \/ ~Queued(Resume(c))) => Ahead(rt', f, c)
      BY <1>1, <2>1, KnownPushEvent, TaskTypes DEF Queued
    <2>3. rt'.done["send_done"] <=> rt.done["send_done"]
      BY <2>1, <2>2, TaskTypes DEF Known, RunTime
    <2>4. EventsAhead'
      BY <1>1, <2>2, TaskTypes DEF CpxInv, EventsAhead
    <2> QED
      BY <2>2, <2>3, <2>4 DEF Queued
  <1>3. SpiPlaced'
    <2>1. Waiters(rt', "spi_done") = Waiters(rt, "spi_done") /\ ~Grouped'
      BY <1>1, <1>2, TaskTypes DEF Grouped
    <2>2. ~Queued(Resume("spi"))' /\ Waits("spi", "spi_done")'
      BY <1>1, <1>2, <2>1, TasksDistinct DEF Waits
    <2> QED
      BY <1>1, <2>1, <2>2 DEF CpxInv, SpiPlaced, Waits
  <1>4. ReceiverPlaced'
    BY <1>2, TaskTypes, TasksDistinct DEF CpxInv, ReceiverPlaced, PhaseDone, tasks, Waits
  <1>5. SendersPlaced'
    BY <1>2, TaskTypes, TasksDistinct DEF CpxInv, SendersPlaced, PhaseDone, tasks, Waits
  <1>6. RequestsHeld'
    BY <1>1, <1>2 DEF CpxInv, RequestsHeld, BitsMatchRequests, InTransfer, PhaseDone
  <1>7. /\ LastPhase => Unfinished /\ ~Unfinished'
        /\ ~LastPhase => (Unfinished' <=> Unfinished)
    <2>1. wire # "header" => (Ends' <=> Ends)
      BY DEF Ends, SendLength, ReceiveLength, HeadLength, PhaseDone
    <2> QED
      BY <1>1, <2>1 DEF Unfinished, LastPhase, Ends
  <1>8. ~DoneAtPush /\ LastPhase /\ sending # NoSender =>
          /\ send_req = sending /\ sending \in Sender /\ sender[sending] = "sent"
          /\ carried[sending] = 0
    <2>1. ~DoneAtPush /\ LastPhase /\ sending # NoSender =>
            send_req = sending /\ sending \in Sender /\ sender[sending] = "sent"
      BY <1>1 DEF CpxInv, RequestsHeld, InTransfer, SendersPlaced, Typed
    <2> QED
      BY <1>7, <2>1 DEF CpxInv, CarriedCounted
  <1>9. ~DoneAtPush => carried' \in [Sender -> 0 .. 1]
    BY <1>8 DEF CpxInv, CarriedCounted, PhaseDone
  <1>10. Typed'
    <2>1. {header', nina_out'} \subseteq Packet \cup {"none"}
      BY DEF CpxInv, Typed, PhaseDone
    <2>2. nina_ready' \in BOOLEAN
      BY DEF CpxInv, Typed, PhaseDone
    <2> QED
      BY <1>1, <1>2, <2>1, <2>2 DEF CpxInv, Typed, PhaseDone, Known, RunTime, tasks
  <1>11. EdgesCounted'
    <2>1. /\ Queued(NinaTask)' <=> Queued(NinaTask)
          /\ ~Queued(Resume("spi"))'
      BY <1>1, <1>2, TasksDistinct
    <2>2. CASE LastPhase
      BY <1>1, <1>2, <1>7, <2>1, <2>2 DEF CpxInv, EdgesCounted, PhaseDone, LastPhase
    <2>3. CASE ~LastPhase
      BY <1>1, <1>2, <1>7, <2>1, <2>3 DEF CpxInv, EdgesCounted, PhaseDone
    <2> QED
      BY <2>2, <2>3
  <1>12. CarriedCounted'
    <2> SUFFICES ASSUME ~DoneAtPush
                 PROVE  CarriedCounted'
      BY DEF CarriedCounted
    <2>1. UNCHANGED <<spi, sender, send_req, sending>>
      BY DEF PhaseDone, tasks
    <2>2. CASE ~LastPhase
      BY <1>7, <1>9, <2>1, <2>2 DEF CpxInv, CarriedCounted, PhaseDone
    <2>3. CASE LastPhase /\ sending = NoSender
      BY <1>7, <1>9, <2>1, <2>3, TaskTypes DEF CpxInv, CarriedCounted, PhaseDone
    <2>4. CASE LastPhase /\ sending # NoSender
      <3>1. carried' = [carried EXCEPT ![sending] = 1] /\ spi \in {"head", "tail"}
        BY <1>1, <1>8, <2>4 DEF PhaseDone, LastPhase
      <3> SUFFICES ASSUME NEW s \in Sender
                   PROVE  /\ sender[s] \in {"start", "contend"} => carried'[s] = 0
                          /\ sender[s] = "sent" =>
                               carried'[s] = IF send_req # s \/ (spi \in {"head", "tail"}
                                                                 /\ sending = s /\ ~Unfinished')
                                               THEN 1 ELSE 0
        BY <1>9, <2>1 DEF CarriedCounted
      <3>2. carried'[s] = IF s = sending THEN 1 ELSE carried[s]
        BY <3>1 DEF CpxInv, CarriedCounted
      <3>3. /\ sender[s] \in {"start", "contend"} => carried[s] = 0
            /\ sender[s] = "sent" /\ send_req # s => carried[s] = 1
        BY DEF CpxInv, CarriedCounted
      <3> QED
        BY <1>7, <1>8, <2>4, <3>1, <3>2, <3>3
    <2> QED
      BY <2>2, <2>3, <2>4
  <1> QED
    BY <1>2, <1>3, <1>4, <1>5, <1>6, <1>10, <1>11, <1>12 DEF CpxInv, PhaseDone

LEMMA RaiseNinaRTTKeeps ==
  ASSUME CpxInv, RaiseNinaRTT
  PROVE  CpxInv'
PROOF
  <1>1. /\ ~nina_rtt /\ nina_rtt' = TRUE /\ nina_ready' = TRUE
        /\ ~Queued(NinaTask) /\ "NINA_RTT" \notin rt.bits /\ ~Unfinished
    BY DEF CpxInv, EdgesCounted, RaiseNinaRTT
  <1>2. /\ Known(rt')
        /\ \A u : Queued(u)' <=> u = NinaTask \/ Queued(u)
        /\ \A e \in Event : Waiters(rt', e) = Waiters(rt, e)
        /\ rt'.done = rt.done /\ rt'.bits = rt.bits /\ rt'.wait = rt.wait /\ Keeps(rt, rt')
    <2>1. Known(rt) /\ rt' = PushTask(rt, NinaTask)
      BY DEF CpxInv, RaiseNinaRTT, NinaTask
    <2>2. /\ Known(rt') /\ Queue(rt') = Queue(rt) \cup {NinaTask}
          /\ \A e \in Event : Waiters(rt', e) = Waiters(rt, e)
          /\ Alike(rt', rt)
          /\ \A e \in Event, c \in Context : Ahead(rt, e, c) => Ahead(rt', e, c)
      BY <1>1, <2>1, KnownPushed, TaskTypes, TasksDistinct DEF Queued
    <2> QED
      BY <2>2 DEF Queued, Alike, Keeps
  <1>3. SpiWoken(rt, rt') /\ (Queued(EventTask("spi_done"))' <=> Queued(EventTask("spi_done")))
    BY <1>2, TasksDistinct DEF SpiWoken, Queued
  <1>4. Typed'
    BY <1>2 DEF CpxInv, Typed, RaiseNinaRTT, tasks, Known, RunTime, requests, nina
  <1>5. /\ SpiPlaced'
        /\ spi = "header" \/ (spi = "rtt" /\ Queued(Resume("spi"))') => "NINA_RTT" \in rt'.bits
    BY <1>2, <1>3, SpiStays, TaskTypes DEF RaiseNinaRTT, tasks
  <1>6. ReceiverPlaced'
    BY <1>2, TaskTypes, TasksDistinct
       DEF CpxInv, ReceiverPlaced, RaiseNinaRTT, tasks, requests, Waits
  <1>7. SendersPlaced'
    BY <1>2, TaskTypes, TasksDistinct
       DEF CpxInv, SendersPlaced, RaiseNinaRTT, tasks, requests, Waits
  <1>8. RequestsHeld'
    BY <1>2
       DEF CpxInv, RequestsHeld, BitsMatchRequests, InTransfer, RaiseNinaRTT, tasks, requests
  <1>9. Unfinished' <=> Unfinished
    BY
       DEF Unfinished, Ends, SendLength, ReceiveLength, HeadLength, RaiseNinaRTT, tasks,
           requests
  <1>10. EdgesCounted'
    BY <1>1, <1>2, <1>5, <1>9, TasksDistinct
       DEF CpxInv, EdgesCounted, RaiseNinaRTT, tasks, tasks
  <1>11. CarriedCounted'
    BY <1>9 DEF CpxInv, CarriedCounted, RaiseNinaRTT, tasks, requests
  <1>12. EventsAhead'
    BY <1>2, OrderStays DEF CpxInv, RaiseNinaRTT, tasks
  <1> QED
    BY <1>2, <1>4, <1>5, <1>6, <1>7, <1>8, <1>10, <1>11, <1>12 DEF CpxInv, RaiseNinaRTT

LEMMA LowerNinaRTTKeeps ==
  ASSUME CpxInv, LowerNinaRTT
  PROVE  CpxInv'
PROOF
  <1>1. /\ ~nina_ready /\ nina_rtt' = FALSE
        /\ UNCHANGED <<rt, tasks, requests, wire, nina_ready, nina_out, carried, failed>>
    BY DEF LowerNinaRTT
  <1>2. Typed'
    BY <1>1 DEF CpxInv, Typed, LowerNinaRTT, tasks, requests
  <1>3. Known(rt') /\ EventsAhead' /\ SpiPlaced'
    BY <1>1 DEF CpxInv, EventsAhead, SpiPlaced, Queued, Waits, Grouped, GroupBits, tasks
  <1>4. ReceiverPlaced' /\ SendersPlaced'
    BY <1>1 DEF CpxInv, ReceiverPlaced, SendersPlaced, Queued, Waits, tasks, requests
  <1>5. RequestsHeld'
    BY <1>1 DEF CpxInv, RequestsHeld, BitsMatchRequests, InTransfer, tasks, requests
  <1>6. Unfinished' <=> Unfinished
    BY <1>1 DEF Unfinished, Ends, SendLength, ReceiveLength, HeadLength, tasks, requests
  <1>7. EdgesCounted'
    BY <1>1, <1>6 DEF CpxInv, EdgesCounted, Queued, tasks
  <1>8. CarriedCounted'
    BY <1>1, <1>6 DEF CpxInv, CarriedCounted, tasks, requests
  <1> QED
    BY <1>1, <1>2, <1>3, <1>4, <1>5, <1>7, <1>8 DEF CpxInv
------------------------------------------------------------------------------
(* The theorems *)

LEMMA StartedKnown ==
  ASSUME NEW bits \in SUBSET Bit
  PROVE  LET k == Started(Event, bits)
         IN  /\ Known(k) /\ Queue(k) = {} /\ \A e \in Event : Waiters(k, e) = {}
             /\ \A e \in Event : ~k.done[e]
             /\ k.bits = bits /\ k.wait = NotWaiting
PROOF
  <1> DEFINE k == Started(Event, bits)
  <1>1. NotWaiting \in [ctx : {"spi", "none"}, bits : SUBSET Bit, all : BOOLEAN]
    BY DEF NotWaiting
  <1>2. /\ k.tasks = << >> /\ k.done = [e \in Event |-> FALSE]
        /\ k.waiting = [e \in Event |-> << >>] /\ k.bits = bits /\ k.wait = NotWaiting
    BY DEF Started
  <1>3. k \in RunTime
    BY <1>1, EmptyOnce DEF Started, RunTime
  <1> HIDE DEF k
  <1>4. /\ Known(k) /\ Queue(k) = {} /\ \A e \in Event : Waiters(k, e) = {}
        /\ \A e \in Event : ~k.done[e]
    BY <1>2, <1>3, EmptyOnce DEF Known, Once, Queue, Waiters
  <1> QED
    BY <1>2, <1>4 DEF k

LEMMA CpxInvInit ==
  ASSUME Init
  PROVE  CpxInv
PROOF
  <1> DEFINE bits == IF nina_rtt THEN {"NINA_RTT"} ELSE {}
             started == Started(Event, bits)
             one == PushResume(started, "spi")
             two == PushEvent(one, "send_done")
             three == PushResume(two, "receiver")
  <1>1. bits \in SUBSET Bit
    BY DEF Bit
  <1>2. rt = three
    BY DEF Init
  <1> HIDE DEF bits
  <1>3. /\ Known(started) /\ Queue(started) = {} /\ \A e \in Event : Waiters(started, e) = {}
        /\ \A e \in Event : ~started.done[e]
        /\ started.bits = bits /\ started.wait = NotWaiting
    BY <1>1, StartedKnown
  <1> HIDE DEF started
  <1>4. /\ Known(one) /\ Queue(one) = {Resume("spi")}
        /\ \A e \in Event : Waiters(one, e) = {}
        /\ Alike(one, started)
    BY <1>3, KnownPushed, TaskTypes DEF PushResume
  <1> HIDE DEF one
  <1>5. /\ Known(two) /\ Queue(two) = {Resume("spi"), EventTask("send_done")}
        /\ \A e \in Event : Waiters(two, e) = {}
        /\ ~DoneAtPush => ~two.done["send_done"]
        /\ two.bits = one.bits /\ two.wait = one.wait
        /\ Ahead(two, "spi_done", "spi") /\ Ahead(two, "receive_done", "receiver")
    <2>1. EventTask("send_done") \notin Queue(one)
      BY <1>4, TasksDistinct
    <2>2. /\ Known(two) /\ Queue(two) = Queue(one) \cup {EventTask("send_done")}
          /\ \A e \in Event : Waiters(two, e) = Waiters(one, e)
          /\ two.done = [one.done EXCEPT !["send_done"] = @ \/ DoneAtPush]
          /\ two.bits = one.bits /\ two.wait = one.wait
          /\ \A f \in Event, c \in Context :
               Ahead(one, f, c) /\ (f # "send_done" \/ Resume(c) \notin Queue(one))
                 => Ahead(two, f, c)
      BY <1>4, <2>1, KnownPushEvent, TaskTypes
    <2>3. Ahead(one, "spi_done", "spi") /\ Ahead(one, "receive_done", "receiver")
      <3>1. \A e : EventTask(e) \notin Queue(one)
        BY <1>4, TasksDistinct
      <3> QED
        BY <3>1 DEF Ahead, Queue, Range
    <2>4. ~DoneAtPush => ~two.done["send_done"]
      BY <1>3, <1>4, <2>2, TaskTypes DEF Known, RunTime, Alike
    <2> QED
      BY <1>4, <2>2, <2>3, <2>4, TaskTypes
  <1> HIDE DEF two
  <1>6. /\ Known(three)
        /\ Queue(three) = {Resume("spi"), EventTask("send_done"), Resume("receiver")}
        /\ \A e \in Event : Waiters(three, e) = {}
        /\ Alike(three, two) /\ Keeps(two, three)
    <2>1. Resume("receiver") \notin Queue(two)
      BY <1>5, TasksDistinct
    <2>2. /\ Known(three) /\ Queue(three) = Queue(two) \cup {Resume("receiver")}
          /\ \A e \in Event : Waiters(three, e) = Waiters(two, e)
          /\ Alike(three, two) /\ Keeps(two, three)
      BY <1>5, <2>1, KnownPushed, ResumePushed, TaskTypes DEF PushResume
    <2> QED
      BY <1>5, <2>2
  <1>7. /\ Known(rt) /\ Queue(rt) = {Resume("spi"), EventTask("send_done"), Resume("receiver")}
        /\ \A e \in Event : Waiters(rt, e) = {}
        /\ ~DoneAtPush => ~rt.done["send_done"]
        /\ rt.bits = bits /\ ~Grouped
        /\ Ahead(rt, "spi_done", "spi") /\ Ahead(rt, "receive_done", "receiver")
    <2> HIDE DEF three
    <2> QED
      BY <1>2, <1>3, <1>4, <1>5, <1>6, TaskTypes DEF Alike, Grouped, Keeps
  <1>8. /\ Queued(Resume("spi")) /\ Queued(EventTask("send_done")) /\ Queued(Resume("receiver"))
        /\ \A t : Queued(t) => t \in {Resume("spi"), EventTask("send_done"), Resume("receiver")}
    BY <1>7 DEF Queued
  <1>9. Typed
    <2>1. nina_out \in Packet \cup {"none"}
      BY DEF Init
    <2>2. {receive_req, receiving, gap8_rtt, nina_rtt, nina_ready, failed} \subseteq BOOLEAN
      BY DEF Init
    <2>3. sender \in [Sender -> {"idle", "start", "contend", "sent"}]
      BY DEF Init
    <2> QED
      BY <2>1, <2>2, <2>3 DEF Init, Typed
  <1>10. SpiPlaced
    BY <1>7, <1>8, TasksDistinct, TaskTypes DEF Init, SpiPlaced, Waits
  <1>11. ReceiverPlaced
    BY <1>7, <1>8, TasksDistinct, TaskTypes DEF Init, ReceiverPlaced, Waits
  <1>12. SendersPlaced
    BY <1>7, <1>8, TasksDistinct, TaskTypes DEF Init, SendersPlaced, Waits
  <1>13. RequestsHeld
    BY <1>7 DEF Init, RequestsHeld, BitsMatchRequests, InTransfer, bits
  <1>14. EdgesCounted
    BY <1>7, <1>8, TasksDistinct DEF Init, EdgesCounted, Unfinished, bits
  <1>15. CarriedCounted
    BY DEF Init, CarriedCounted
  <1>16. EventsAhead
    BY <1>7 DEF EventsAhead, Init
  <1> QED
    BY <1>7, <1>9, <1>10, <1>11, <1>12, <1>13, <1>14, <1>15, <1>16 DEF CpxInv, Init

LEMMA CpxInvStep ==
  ASSUME CpxInv, [Next]_vars
  PROVE  CpxInv'
PROOF
  <1>1. CASE UNCHANGED vars
    <2>1. /\ UNCHANGED <<rt, tasks, requests, wire, gap8_rtt, nina, carried, failed>>
      BY <1>1 DEF vars
    <2>2. Unfinished' <=> Unfinished
      BY <2>1 DEF Unfinished, Ends, SendLength, ReceiveLength, HeadLength, tasks, requests
    <2>3. Typed'
      BY <2>1 DEF CpxInv, Typed, tasks, requests, nina
    <2>4. Known(rt') /\ EventsAhead' /\ SpiPlaced' /\ ReceiverPlaced' /\ SendersPlaced'
      BY <2>1 DEF CpxInv, EventsAhead, SpiPlaced, ReceiverPlaced, SendersPlaced, Queued, Waits,
                  Grouped, GroupBits, tasks, requests
    <2>5. RequestsHeld'
      BY <2>1 DEF CpxInv, RequestsHeld, BitsMatchRequests, InTransfer, tasks, requests
    <2>6. EdgesCounted'
      BY <2>1, <2>2 DEF CpxInv, EdgesCounted, Queued, tasks, nina
    <2>7. CarriedCounted'
      BY <2>1, <2>2 DEF CpxInv, CarriedCounted, tasks, requests
    <2> QED
      BY <2>1, <2>3, <2>4, <2>5, <2>6, <2>7 DEF CpxInv
  <1>2. CASE SpiTask
    BY <1>2, StartSpiKeeps, AwaitReceiverKeeps, NotifyNinaKeeps, TransferHeaderKeeps,
       TransferHeadKeeps, TransferTailKeeps, CompleteTransferKeeps DEF SpiTask
  <1>3. CASE \E s \in Sender : SendOrWait(s) \/ FinishSend(s)
    BY <1>3, SendOrWaitKeeps, FinishSendKeeps
  <1>4. CASE ReceiverTask \/ StartCallback
    BY <1>4, ReceiverTaskKeeps, StartCallbackKeeps
  <1>5. CASE (\E e \in Event : RunEventCallback(e)) \/ NinaRttCallback
    BY <1>5, RunEventCallbackKeeps, NinaRttCallbackKeeps
  <1>6. CASE \E s \in Sender : StartSend(s)
    BY <1>6, StartSendKeeps
  <1>7. CASE FinishCallback \/ PhaseDone \/ RaiseNinaRTT \/ LowerNinaRTT
    BY <1>7, FinishCallbackKeeps, PhaseDoneKeeps, RaiseNinaRTTKeeps, LowerNinaRTTKeeps
  <1> QED
    BY <1>1, <1>2, <1>3, <1>4, <1>5, <1>6, <1>7 DEF Next, Scheduler

\* Every coroutine, every request, every edge of NINA's line and every carried packet is
\* where cpx_spi.c's protocol has it, whichever moment pi_task_is_done turns true.
THEOREM CpxInvariant == Spec => []CpxInv
PROOF
  <1>1. Init => CpxInv
    BY CpxInvInit
  <1>2. CpxInv /\ [Next]_vars => CpxInv'
    BY CpxInvStep
  <1> QED
    BY <1>1, <1>2, PTL DEF Spec

\* The state keeps its types: the run-time's queue holds tasks of the program, the events'
\* lists its contexts, and no packet is carried twice before its send is finished.  The last
\* needs that a task is done no earlier than its callback runs.
THEOREM TypeCorrect ==
  ASSUME ~DoneAtPush
  PROVE  Spec => []TypeOK
PROOF
  <1>1. CpxInv => TypeOK
    BY DEF CpxInv, Typed, TypeOK, Known, RunTime, CarriedCounted
  <1> QED
    BY <1>1, CpxInvariant, PTL

\* No assertion of cpx_spi.c or cpx.c fails, no pi_task_t is linked into the scheduler's
\* list twice, and the event bits say which requests are posted.
THEOREM RequestsStayTracked == Spec => []RequestsTracked
PROOF
  <1>1. CpxInv => RequestsTracked
    BY DEF CpxInv, RequestsTracked, NoAssertionFailure, NoTaskQueuedTwice, RequestsHeld, Known,
           Once
  <1> QED
    BY <1>1, CpxInvariant, PTL

\* GAP8 clocks no phase of a transfer that NINA has not prepared: each edge of her line
\* pays for one transfer.
THEOREM ClocksOnlyPrepared == Spec => []TransfersOnlyWhenReady
PROOF
  <1>1. CpxInv => TransfersOnlyWhenReady
    <2> SUFFICES ASSUME CpxInv, wire # "idle"
                 PROVE  nina_ready
      BY DEF TransfersOnlyWhenReady
    <2>1. wire = spi /\ spi \in {"header", "head", "tail"}
      BY DEF CpxInv, SpiPlaced
    <2>2. spi = "header" \/ Unfinished
      BY <2>1 DEF Unfinished
    <2> QED
      BY <2>2 DEF CpxInv, EdgesCounted
  <1> QED
    BY <1>1, CpxInvariant, PTL

\* The receive buffer is not written while a receive callback reads its packet.
THEOREM BufferStable == Spec => []ReceiveBufferStable
PROOF
  <1>1. CpxInv => ReceiveBufferStable
    <2> SUFFICES ASSUME CpxInv, callback # "idle", wire # "idle", receiving
                 PROVE  FALSE
      BY DEF ReceiveBufferStable
    <2>1. InTransfer
      BY DEF CpxInv, SpiPlaced, InTransfer
    <2> QED
      BY <2>1 DEF CpxInv, RequestsHeld, ReceiverPlaced
  <1> QED
    BY <1>1, CpxInvariant, PTL

\* A send of cpx_send_task returns after one transfer, and only one, carried its packet,
\* if a task is done no earlier than its callback runs.
THEOREM SentOnce ==
  ASSUME ~DoneAtPush
  PROVE  Spec => SendsExactlyOnce
PROOF
  <1>1. ASSUME CpxInv, [Next]_vars, NEW s \in Sender, sender[s] = "sent", sender'[s] = "idle"
        PROVE  carried[s] = 1
    <2>1. CASE FinishSend(s)
      BY <1>1, <2>1, FinishSendKeeps
    <2>2. CASE ~FinishSend(s)
      <3>1. sender'[s] = "sent"
        <4>1. CASE UNCHANGED vars
          BY <1>1, <4>1 DEF vars, tasks
        <4>2. CASE SpiTask
          BY <1>1, <4>2 DEF SpiTask, StartSpi, AwaitReceiver, NotifyNina, TransferHeader,
                            TransferHead, TransferTail, CompleteTransfer
        <4>3. CASE \E r \in Sender : SendOrWait(r) \/ FinishSend(r)
          <5>1. PICK r \in Sender : SendOrWait(r) \/ FinishSend(r)
            BY <4>3
          <5>2. r # s
            BY <1>1, <2>2, <5>1 DEF SendOrWait
          <5> QED
            BY <1>1, <5>1, <5>2 DEF SendOrWait, FinishSend, CpxInv, Typed
        <4>4. CASE ReceiverTask \/ StartCallback
          BY <1>1, <4>4 DEF ReceiverTask, StartCallback
        <4>5. CASE (\E e \in Event : RunEventCallback(e)) \/ NinaRttCallback
          BY <1>1, <4>5 DEF RunEventCallback, NinaRttCallback, tasks
        <4>6. CASE \E r \in Sender : StartSend(r)
          BY <1>1, <4>6 DEF StartSend, CpxInv, Typed
        <4>7. CASE FinishCallback \/ PhaseDone \/ RaiseNinaRTT \/ LowerNinaRTT
          BY <1>1, <4>7 DEF FinishCallback, PhaseDone, RaiseNinaRTT, LowerNinaRTT, tasks
        <4> QED
          BY <1>1, <4>1, <4>2, <4>3, <4>4, <4>5, <4>6, <4>7 DEF Next, Scheduler
      <3> QED
        BY <1>1, <3>1
    <2> QED
      BY <2>1, <2>2
  <1>2. CpxInv /\ [Next]_vars =>
          [\A s \in Sender : sender[s] = "sent" /\ sender'[s] = "idle" => carried[s] = 1]_vars
    BY <1>1
  <1> QED
    BY <1>2, CpxInvariant, PTL DEF Spec, SendsExactlyOnce
===============================================================================
