-------------------------- MODULE FrameStreamProofs --------------------------
(***************************************************************************)
(* Theorems about FrameStream, for any number of rows and packets and with *)
(* or without inference, where pi_task_is_done turns true when the task is *)
(* run (DoneAtPush = FALSE).                                               *)
(*                                                                         *)
(* The proofs see the run-time through three things: the set of the tasks  *)
(* that are queued, which of two is ahead, and the set of the contexts     *)
(* that wait for an event.  No task or context is ever there twice: Known. *)
(***************************************************************************)
EXTENDS FrameStream, SequenceTheorems, TLAPS

Task == {Resume(c) : c \in Context} \cup {EventTask(e) : e \in Event}
RunTime ==
  [tasks : Seq(Task), done : [Event -> BOOLEAN], waiting : [Event -> Seq(Context)],
   bits : {{}}, wait : {NotWaiting}]

Once(k) == IsInjective(k.tasks) /\ \A e \in Event : IsInjective(k.waiting[e])
Known(k) == k \in RunTime /\ Once(k)

Queue(k) == Range(k.tasks)
Waiters(k, e) == Range(k.waiting[e])
Ahead(s, a, b) == \E i, j \in DOMAIN s : i < j /\ s[i] = a /\ s[j] = b
Before(k, a, b) == Ahead(k.tasks, a, b)

\* What k queues is queued by l in the same order, and ahead of all that is new.
Later(k, l) ==
  /\ Queue(k) \subseteq Queue(l)
  /\ \A a \in Queue(k) : \A b : Before(k, a, b) \/ (b \in Queue(l) /\ b \notin Queue(k)) => Before(l, a, b)
------------------------------------------------------------------------------
(* Sequences that hold nothing twice *)

LEMMA AppendOnce ==
  ASSUME NEW S, NEW s \in Seq(S), NEW e \in S
  PROVE  /\ Append(s, e) \in Seq(S)
         /\ Range(Append(s, e)) = Range(s) \cup {e}
         /\ IsInjective(s) /\ e \notin Range(s) => IsInjective(Append(s, e))
PROOF
  <1>1. /\ Append(s, e) \in Seq(S) /\ Len(Append(s, e)) = Len(s) + 1 /\ Len(s) \in Nat
        /\ \A i \in 1 .. Len(s) : Append(s, e)[i] = s[i]
        /\ Append(s, e)[Len(s) + 1] = e
        /\ DOMAIN s = 1 .. Len(s) /\ DOMAIN Append(s, e) = 1 .. Len(s) + 1
    OBVIOUS
  <1> HIDE <1>1
  <1>2. Range(Append(s, e)) = Range(s) \cup {e}
    <2>1. Range(Append(s, e)) \subseteq Range(s) \cup {e}
      BY <1>1 DEF Range
    <2>2. Range(s) \cup {e} \subseteq Range(Append(s, e))
      BY <1>1 DEF Range
    <2> QED
      BY <2>1, <2>2
  <1>3. IsInjective(s) /\ e \notin Range(s) => IsInjective(Append(s, e))
    BY <1>1 DEF IsInjective, Range
  <1> QED
    BY <1>1, <1>2, <1>3

LEMMA TailOnce ==
  ASSUME NEW S, NEW s \in Seq(S), s # << >>, IsInjective(s)
  PROVE  /\ Tail(s) \in Seq(S) /\ IsInjective(Tail(s))
         /\ Range(Tail(s)) = Range(s) \ {Head(s)}
         /\ Head(s) \in Range(s)
PROOF
  <1>1. /\ Tail(s) \in Seq(S) /\ Len(s) \in Nat \ {0} /\ Len(Tail(s)) = Len(s) - 1
        /\ \A i \in 1 .. Len(s) - 1 : Tail(s)[i] = s[i + 1]
        /\ Head(s) = s[1]
        /\ DOMAIN s = 1 .. Len(s) /\ DOMAIN Tail(s) = 1 .. Len(s) - 1
    OBVIOUS
  <1>2. Range(s) \ {Head(s)} \subseteq Range(Tail(s))
    <2> SUFFICES ASSUME NEW i \in 1 .. Len(s), i # 1
                 PROVE  s[i] \in Range(Tail(s))
      BY <1>1 DEF Range
    <2>1. i - 1 \in 1 .. Len(s) - 1 /\ Tail(s)[i - 1] = s[i]
      BY <1>1
    <2> QED
      BY <1>1, <2>1 DEF Range
  <1>3. Range(Tail(s)) \subseteq Range(s) \ {Head(s)}
    BY <1>1 DEF IsInjective, Range
  <1>4. IsInjective(Tail(s)) /\ Head(s) \in Range(s)
    BY <1>1 DEF IsInjective, Range
  <1> QED
    BY <1>1, <1>2, <1>3, <1>4

LEMMA ConcatOnce ==
  ASSUME NEW S, NEW s \in Seq(S), NEW t \in Seq(S)
  PROVE  /\ s \o t \in Seq(S)
         /\ Range(s \o t) = Range(s) \cup Range(t)
         /\ IsInjective(s) /\ IsInjective(t) /\ Range(s) \cap Range(t) = {} => IsInjective(s \o t)
PROOF
  <1>1. /\ Len(s) \in Nat /\ Len(t) \in Nat
        /\ DOMAIN s = 1 .. Len(s) /\ DOMAIN t = 1 .. Len(t)
        /\ DOMAIN (s \o t) = 1 .. Len(s) + Len(t)
        /\ \A i \in 1 .. Len(s) : (s \o t)[i] = s[i]
        /\ \A i \in 1 .. Len(t) : (s \o t)[Len(s) + i] = t[i]
    OBVIOUS
  <1>2. ASSUME IsInjective(s), IsInjective(t), Range(s) \cap Range(t) = {}
        PROVE  IsInjective(s \o t)
    <2>1. \A i \in 1 .. Len(s), j \in 1 .. Len(t) : s[i] # t[j]
      BY <1>1, <1>2 DEF Range
    <2>2. \A i \in 1 .. Len(s) + Len(t) :
             i \in 1 .. Len(s) \/ (i - Len(s) \in 1 .. Len(t) /\ (s \o t)[i] = t[i - Len(s)])
      BY <1>1
    <2> SUFFICES ASSUME NEW i \in 1 .. Len(s) + Len(t), NEW j \in 1 .. Len(s) + Len(t),
                        (s \o t)[i] = (s \o t)[j]
                 PROVE  i = j
      BY <1>1 DEF IsInjective
    <2>3. CASE i \in 1 .. Len(s) /\ j \in 1 .. Len(s)
      BY <1>1, <1>2, <2>3 DEF IsInjective
    <2>4. CASE i \notin 1 .. Len(s) /\ j \notin 1 .. Len(s)
      <3>1. i - Len(s) = j - Len(s)
        BY <1>1, <1>2, <2>2, <2>4 DEF IsInjective
      <3> QED
        BY <1>1, <3>1
    <2>5. CASE i \in 1 .. Len(s) /\ j \notin 1 .. Len(s)
      BY <1>1, <2>1, <2>2, <2>5
    <2>6. CASE i \notin 1 .. Len(s) /\ j \in 1 .. Len(s)
      BY <1>1, <2>1, <2>2, <2>6
    <2> QED
      BY <2>3, <2>4, <2>5, <2>6
  <1> QED
    BY <1>2, RangeConcatenation

LEMMA AppendOrder ==
  ASSUME NEW S, NEW s \in Seq(S), NEW e \in S
  PROVE  /\ \A a, b : Ahead(s, a, b) => Ahead(Append(s, e), a, b)
         /\ \A a \in Range(s) : Ahead(Append(s, e), a, e)
PROOF
  <1> DEFINE t == Append(s, e)
  <1>1. /\ Len(s) \in Nat /\ DOMAIN s = 1 .. Len(s) /\ DOMAIN t = 1 .. Len(s) + 1
        /\ \A i \in 1 .. Len(s) : t[i] = s[i]
        /\ t[Len(s) + 1] = e
    OBVIOUS
  <1> HIDE DEF t
  <1>2. ASSUME NEW a, NEW b, Ahead(s, a, b)
        PROVE  Ahead(t, a, b)
    <2>1. PICK i, j \in DOMAIN s : i < j /\ s[i] = a /\ s[j] = b
      BY <1>2 DEF Ahead
    <2>2. i \in DOMAIN t /\ j \in DOMAIN t /\ t[i] = a /\ t[j] = b
      BY <1>1, <2>1
    <2> QED
      BY <2>1, <2>2 DEF Ahead
  <1>3. ASSUME NEW a \in Range(s)
        PROVE  Ahead(t, a, e)
    <2>1. PICK i \in DOMAIN s : s[i] = a
      BY DEF Range
    <2>2. i \in DOMAIN t /\ Len(s) + 1 \in DOMAIN t /\ i < Len(s) + 1 /\ t[i] = a
      BY <1>1, <2>1
    <2> QED
      BY <1>1, <2>2 DEF Ahead
  <1> QED
    BY <1>2, <1>3 DEF t

LEMMA ConcatOrder ==
  ASSUME NEW S, NEW s \in Seq(S), NEW u \in Seq(S)
  PROVE  /\ \A a, b : Ahead(s, a, b) => Ahead(s \o u, a, b)
         /\ \A a \in Range(s), b \in Range(u) : Ahead(s \o u, a, b)
PROOF
  <1> DEFINE t == s \o u
  <1>1. /\ Len(s) \in Nat /\ Len(u) \in Nat
        /\ DOMAIN s = 1 .. Len(s) /\ DOMAIN u = 1 .. Len(u)
        /\ DOMAIN t = 1 .. Len(s) + Len(u)
        /\ \A i \in 1 .. Len(s) : t[i] = s[i]
        /\ \A i \in 1 .. Len(u) : t[Len(s) + i] = u[i]
    OBVIOUS
  <1> HIDE DEF t
  <1>2. ASSUME NEW a, NEW b, Ahead(s, a, b)
        PROVE  Ahead(t, a, b)
    <2>1. PICK i, j \in DOMAIN s : i < j /\ s[i] = a /\ s[j] = b
      BY <1>2 DEF Ahead
    <2>2. i \in DOMAIN t /\ j \in DOMAIN t /\ t[i] = a /\ t[j] = b
      BY <1>1, <2>1
    <2> QED
      BY <2>1, <2>2 DEF Ahead
  <1>3. ASSUME NEW a \in Range(s), NEW b \in Range(u)
        PROVE  Ahead(t, a, b)
    <2>1. PICK i \in DOMAIN s, j \in DOMAIN u : s[i] = a /\ u[j] = b
      BY DEF Range
    <2>2. i \in DOMAIN t /\ Len(s) + j \in DOMAIN t /\ i < Len(s) + j
      BY <1>1, <2>1
    <2>3. t[i] = a /\ t[Len(s) + j] = b
      BY <1>1, <2>1
    <2> QED
      BY <2>2, <2>3 DEF Ahead
  <1> QED
    BY <1>2, <1>3 DEF t

LEMMA TailOrder ==
  ASSUME NEW S, NEW s \in Seq(S), s # << >>, IsInjective(s)
  PROVE  /\ \A a, b : Ahead(s, a, b) /\ a # Head(s) => Ahead(Tail(s), a, b)
         /\ \A a : ~Ahead(s, a, Head(s))
PROOF
  <1> DEFINE t == Tail(s)
  <1>1. /\ Len(s) \in Nat \ {0} /\ DOMAIN s = 1 .. Len(s) /\ DOMAIN t = 1 .. Len(s) - 1
        /\ \A i \in 1 .. Len(s) - 1 : t[i] = s[i + 1]
        /\ Head(s) = s[1]
    OBVIOUS
  <1> HIDE DEF t
  <1>2. ASSUME NEW a, NEW b, Ahead(s, a, b), a # Head(s)
        PROVE  Ahead(t, a, b)
    <2>1. PICK i, j \in DOMAIN s : i < j /\ s[i] = a /\ s[j] = b
      BY <1>2 DEF Ahead
    <2>2. i # 1
      BY <1>1, <1>2, <2>1
    <2>3. /\ i - 1 \in 1 .. Len(s) - 1 /\ j - 1 \in 1 .. Len(s) - 1
          /\ i - 1 < j - 1 /\ (i - 1) + 1 = i /\ (j - 1) + 1 = j
      BY <1>1, <2>1, <2>2
    <2>4. t[i - 1] = a /\ t[j - 1] = b
      BY <1>1, <2>1, <2>3
    <2> QED
      BY <1>1, <2>3, <2>4 DEF Ahead
  <1>3. ASSUME NEW a, Ahead(s, a, Head(s))
        PROVE  FALSE
    <2>1. PICK i, j \in DOMAIN s : i < j /\ s[j] = s[1]
      BY <1>1, <1>3 DEF Ahead
    <2>2. j = 1
      BY <1>1, <2>1 DEF IsInjective
    <2> QED
      BY <1>1, <2>1, <2>2
  <1> QED
    BY <1>2, <1>3 DEF t

\* The contexts that an event resumes, as tasks
LEMMA ResumeEach ==
  ASSUME NEW ctxs \in Seq(Context), IsInjective(ctxs)
  PROVE  LET resumes == [i \in DOMAIN ctxs |-> Resume(ctxs[i])]
         IN  /\ resumes \in Seq(Task) /\ IsInjective(resumes)
             /\ Range(resumes) = {Resume(c) : c \in Range(ctxs)}
PROOF
  <1> DEFINE resumes == [i \in DOMAIN ctxs |-> Resume(ctxs[i])]
  <1>1. /\ DOMAIN ctxs = 1 .. Len(ctxs) /\ Len(ctxs) \in Nat
        /\ \A i \in DOMAIN ctxs : ctxs[i] \in Context
    OBVIOUS
  <1>2. DOMAIN resumes = DOMAIN ctxs /\ \A i \in DOMAIN ctxs : resumes[i] = Resume(ctxs[i])
    OBVIOUS
  <1>3. resumes \in Seq(Task)
    <2>1. \A i \in 1 .. Len(ctxs) : Resume(ctxs[i]) \in Task
      BY <1>1 DEF Task
    <2>2. resumes = [i \in 1 .. Len(ctxs) |-> Resume(ctxs[i])]
      BY <1>1
    <2> QED
      BY <1>1, <2>1, <2>2
  <1>4. IsInjective(resumes)
    <2>1. \A c, d : Resume(c) = Resume(d) => c = d
      BY DEF Resume
    <2> QED
      BY <1>2, <2>1 DEF IsInjective
  <1>5. Range(resumes) = {Resume(c) : c \in Range(ctxs)}
    BY <1>2 DEF Range
  <1> QED
    BY <1>3, <1>4, <1>5

------------------------------------------------------------------------------
(* The run-time's operations: what each leaves in the queue and in the events' lists *)

LEMMA EmptyOnce ==
  /\ Range(<< >>) = {} /\ IsInjective(<< >>)
  /\ \A S : << >> \in Seq(S)
PROOF
  <1>1. DOMAIN << >> = {}
    OBVIOUS
  <1> QED
    BY <1>1 DEF Range, IsInjective

LEMMA KnownTypes ==
  ASSUME NEW k, Known(k)
  PROVE  /\ k \in RunTime /\ Queue(k) \subseteq Task
         /\ \A e \in Event : Waiters(k, e) \subseteq Context
PROOF
  <1>1. Queue(k) \subseteq Task
    <2>1. k.tasks \in Seq(Task)
      BY DEF RunTime, Known
    <2> QED
      BY <2>1 DEF Range, Queue
  <1>2. \A e \in Event : Waiters(k, e) \subseteq Context
    <2> TAKE e \in Event
    <2>1. k.waiting[e] \in Seq(Context)
      BY DEF RunTime, Known
    <2> QED
      BY <2>1 DEF Range, Waiters
  <1> QED
    BY <1>1, <1>2 DEF Known

\* The same tasks, or one more
LEMMA SameQueue ==
  ASSUME NEW k, NEW l, k.tasks = l.tasks
  PROVE  Queue(l) = Queue(k) /\ Later(k, l)
PROOF
  BY DEF Queue, Later, Before

LEMMA LaterTransitive ==
  ASSUME NEW k, NEW l, NEW m, Later(k, l), Later(l, m)
  PROVE  Later(k, m)
PROOF
  BY DEF Later

LEMMA KnownPopped ==
  ASSUME NEW k, Known(k), k.tasks # << >>
  PROVE  LET after == Popped(k)
             task == Head(k.tasks)
         IN  /\ Known(after)
             /\ task \in Queue(k) /\ Queue(after) = Queue(k) \ {task}
             /\ \A a, b : Before(k, a, b) /\ a # task => Before(after, a, b)
             /\ \A a : ~Before(k, a, task)
             /\ \A e \in Event : Waiters(after, e) = Waiters(k, e)
             /\ after.done = k.done
PROOF
  <1>1. k \in RunTime /\ k.tasks \in Seq(Task) /\ IsInjective(k.tasks)
    BY DEF Known, RunTime, Once
  <1> DEFINE rest == Tail(k.tasks)
  <1>2. /\ rest \in Seq(Task) /\ IsInjective(rest)
        /\ Range(rest) = Range(k.tasks) \ {Head(k.tasks)}
        /\ Head(k.tasks) \in Range(k.tasks)
    BY <1>1, TailOnce
  <1>3. /\ \A a, b : Ahead(k.tasks, a, b) /\ a # Head(k.tasks) => Ahead(rest, a, b)
        /\ \A a : ~Ahead(k.tasks, a, Head(k.tasks))
    BY <1>1, TailOrder
  <1>4. Popped(k) = [k EXCEPT !.tasks = rest]
    BY DEF Popped
  <1> HIDE DEF rest
  <1>5. /\ Popped(k) \in RunTime /\ Popped(k).tasks = rest
        /\ Popped(k).waiting = k.waiting /\ Popped(k).done = k.done
    BY <1>1, <1>2, <1>4 DEF RunTime
  <1> QED
    BY <1>2, <1>3, <1>5 DEF Known, Once, Queue, Waiters, Before

LEMMA KnownPushed ==
  ASSUME NEW k, Known(k), NEW t \in Task, t \notin Queue(k)
  PROVE  LET after == PushTask(k, t)
         IN  /\ Known(after)
             /\ Queue(after) = Queue(k) \cup {t} /\ Later(k, after)
             /\ \A e \in Event : Waiters(after, e) = Waiters(k, e)
             /\ after.done = k.done
PROOF
  <1>1. k \in RunTime /\ k.tasks \in Seq(Task) /\ IsInjective(k.tasks) /\ t \notin Range(k.tasks)
    BY DEF Known, RunTime, Once, Queue
  <1> DEFINE longer == Append(k.tasks, t)
  <1>2. /\ longer \in Seq(Task) /\ IsInjective(longer)
        /\ Range(longer) = Range(k.tasks) \cup {t}
    BY <1>1, AppendOnce
  <1>3. /\ \A a, b : Ahead(k.tasks, a, b) => Ahead(longer, a, b)
        /\ \A a \in Range(k.tasks) : Ahead(longer, a, t)
    BY <1>1, AppendOrder
  <1>4. PushTask(k, t) = [k EXCEPT !.tasks = longer]
    BY DEF PushTask
  <1> HIDE DEF longer
  <1>5. /\ PushTask(k, t) \in RunTime /\ PushTask(k, t).tasks = longer
        /\ PushTask(k, t).waiting = k.waiting /\ PushTask(k, t).done = k.done
    BY <1>1, <1>2, <1>4 DEF RunTime
  <1>6. Later(k, PushTask(k, t))
    BY <1>2, <1>3, <1>5 DEF Later, Queue, Before
  <1> QED
    BY <1>2, <1>5, <1>6 DEF Known, Once, Queue, Waiters

LEMMA KnownInit ==
  ASSUME NEW k, Known(k), NEW e \in Event
  PROVE  LET after == InitEvent(k, e)
         IN  /\ Known(after)
             /\ Queue(after) = Queue(k) /\ Later(k, after)
             /\ \A f \in Event : Waiters(after, f) = IF f = e THEN {} ELSE Waiters(k, f)
             /\ after.done = [k.done EXCEPT ![e] = FALSE]
PROOF
  <1> DEFINE done == [k.done EXCEPT ![e] = FALSE]
             waiting == [k.waiting EXCEPT ![e] = << >>]
             after == InitEvent(k, e)
  <1>1. after = [k EXCEPT !.done = done, !.waiting = waiting] /\ k \in RunTime
    BY DEF InitEvent, Known, RunTime
  <1>2. done \in [Event -> BOOLEAN] /\ waiting \in [Event -> Seq(Context)]
    BY <1>1, EmptyOnce DEF RunTime
  <1>3. \A f \in Event : /\ IsInjective(waiting[f])
                         /\ Range(waiting[f]) = IF f = e THEN {} ELSE Range(k.waiting[f])
    BY <1>1, EmptyOnce DEF Known, Once, RunTime
  <1> HIDE DEF waiting, done, after
  <1>4. /\ after \in RunTime /\ after.tasks = k.tasks
        /\ after.done = done /\ after.waiting = waiting
    BY <1>1, <1>2 DEF RunTime
  <1>5. Known(after)
    BY <1>3, <1>4 DEF Known, Once
  <1>6. \A f \in Event : Waiters(after, f) = IF f = e THEN {} ELSE Waiters(k, f)
    BY <1>3, <1>4 DEF Waiters
  <1>7. Queue(after) = Queue(k) /\ Later(k, after)
    BY <1>4, SameQueue
  <1> QED
    BY <1>4, <1>5, <1>6, <1>7 DEF after, done

LEMMA KnownWait ==
  ASSUME NEW k, Known(k), NEW e \in Event, NEW c \in Context,
         ~k.done[e], c \notin Waiters(k, e)
  PROVE  LET after == WaitEvent(k, e, c)
         IN  /\ Known(after)
             /\ Queue(after) = Queue(k) /\ Later(k, after)
             /\ \A f \in Event :
                  Waiters(after, f) = IF f = e THEN Waiters(k, f) \cup {c} ELSE Waiters(k, f)
             /\ after.done = k.done
PROOF
  <1> DEFINE longer == Append(k.waiting[e], c)
             waiting == [k.waiting EXCEPT ![e] = longer]
             after == WaitEvent(k, e, c)
  <1>1. k \in RunTime /\ k.waiting[e] \in Seq(Context) /\ IsInjective(k.waiting[e])
    BY DEF Known, Once, RunTime
  <1>2. after = [k EXCEPT !.waiting = waiting]
    BY <1>1 DEF WaitEvent, RunTime
  <1>3. /\ longer \in Seq(Context) /\ IsInjective(longer)
        /\ Range(longer) = Range(k.waiting[e]) \cup {c}
    BY <1>1, AppendOnce DEF Waiters
  <1> HIDE DEF longer, after
  <1>4. waiting \in [Event -> Seq(Context)]
    BY <1>1, <1>3 DEF RunTime
  <1>5. \A f \in Event : /\ IsInjective(waiting[f])
                         /\ Range(waiting[f]) =
                              IF f = e THEN Range(k.waiting[f]) \cup {c} ELSE Range(k.waiting[f])
    BY <1>1, <1>3 DEF Known, Once, RunTime
  <1> HIDE DEF waiting
  <1>6. /\ after \in RunTime /\ after.tasks = k.tasks
        /\ after.waiting = waiting /\ after.done = k.done
    BY <1>1, <1>2, <1>4 DEF RunTime
  <1>7. Known(after)
    BY <1>1, <1>5, <1>6 DEF Known, Once
  <1>8. \A f \in Event :
          Waiters(after, f) = IF f = e THEN Waiters(k, f) \cup {c} ELSE Waiters(k, f)
    BY <1>5, <1>6 DEF Waiters
  <1>9. Queue(after) = Queue(k) /\ Later(k, after)
    BY <1>6, SameQueue
  <1> QED
    BY <1>6, <1>7, <1>8, <1>9 DEF after

\* A wait for what is done, and for which nobody else waits
LEMMA KnownWaitDone ==
  ASSUME NEW k, Known(k), NEW e \in Event, NEW c \in Context,
         k.done[e], Waiters(k, e) = {}, Resume(c) \notin Queue(k)
  PROVE  LET after == WaitEvent(k, e, c)
         IN  /\ Known(after)
             /\ Queue(after) = Queue(k) \cup {Resume(c)} /\ Later(k, after)
             /\ \A f \in Event : Waiters(after, f) = Waiters(k, f)
             /\ after.done = k.done
PROOF
  <1> DEFINE waiting == [k.waiting EXCEPT ![e] = << >>]
             cleared == [k EXCEPT !.waiting = waiting]
             after == WaitEvent(k, e, c)
  <1>1. k \in RunTime
    BY DEF Known
  <1>2. after = PushTask(cleared, Resume(c)) /\ Resume(c) \in Task
    BY <1>1 DEF WaitEvent, PushResume, RunTime, Task
  <1>3. waiting \in [Event -> Seq(Context)]
    BY <1>1, EmptyOnce DEF RunTime
  <1>4. \A f \in Event : IsInjective(waiting[f]) /\ Range(waiting[f]) = Range(k.waiting[f])
    BY <1>1, EmptyOnce DEF Known, Once, RunTime, Waiters
  <1> HIDE DEF waiting, after
  <1>5. /\ cleared \in RunTime /\ cleared.tasks = k.tasks
        /\ cleared.waiting = waiting /\ cleared.done = k.done
    BY <1>1, <1>3 DEF RunTime
  <1> HIDE DEF cleared
  <1>6. /\ Known(cleared)
        /\ \A f \in Event : Waiters(cleared, f) = Waiters(k, f)
    BY <1>4, <1>5 DEF Known, Once, Waiters
  <1>7. Queue(cleared) = Queue(k) /\ Later(k, cleared)
    BY <1>5, SameQueue
  <1>8. /\ Known(after)
        /\ Queue(after) = Queue(cleared) \cup {Resume(c)} /\ Later(cleared, after)
        /\ \A f \in Event : Waiters(after, f) = Waiters(cleared, f)
        /\ after.done = cleared.done
    BY <1>2, <1>6, <1>7, KnownPushed
  <1>9. Later(k, after)
    BY <1>7, <1>8, LaterTransitive
  <1> QED
    BY <1>5, <1>6, <1>7, <1>8, <1>9 DEF after

LEMMA KnownPushEvent ==
  ASSUME ~DoneAtPush, NEW k, Known(k), NEW e \in Event, EventTask(e) \notin Queue(k)
  PROVE  LET after == PushEvent(k, e)
         IN  /\ Known(after)
             /\ Queue(after) = Queue(k) \cup {EventTask(e)} /\ Later(k, after)
             /\ \A f \in Event : Waiters(after, f) = Waiters(k, f)
             /\ after.done = k.done
PROOF
  <1>1. [k EXCEPT !.done[e] = @ \/ DoneAtPush] = k
    BY DEF Known, RunTime
  <1>2. PushEvent(k, e) = PushTask(k, EventTask(e)) /\ EventTask(e) \in Task
    BY <1>1 DEF PushEvent, Task
  <1> QED
    BY <1>2, KnownPushed

LEMMA KnownRun ==
  ASSUME ~DoneAtPush, NEW k, Known(k), NEW e \in Event,
         \A c \in Waiters(k, e) : Resume(c) \notin Queue(k)
  PROVE  LET after == RunEvent(k, e)
         IN  /\ Known(after)
             /\ Queue(after) = Queue(k) \cup {Resume(c) : c \in Waiters(k, e)} /\ Later(k, after)
             /\ \A f \in Event : Waiters(after, f) = IF f = e THEN {} ELSE Waiters(k, f)
             /\ after.done = [k.done EXCEPT ![e] = TRUE]
PROOF
  <1> DEFINE done == [k.done EXCEPT ![e] = TRUE]
             waiting == [k.waiting EXCEPT ![e] = << >>]
             ctxs == k.waiting[e]
             resumes == [i \in DOMAIN ctxs |-> Resume(ctxs[i])]
             longer == k.tasks \o resumes
             after == RunEvent(k, e)
  <1>1. /\ k \in RunTime /\ k.tasks \in Seq(Task) /\ IsInjective(k.tasks)
        /\ ctxs \in Seq(Context) /\ IsInjective(ctxs)
    BY DEF Known, Once, RunTime
  <1>2. (k.done[e] \/ ~DoneAtPush) = TRUE
    OBVIOUS
  <1>3. after = [k EXCEPT !.tasks = longer, !.done = done, !.waiting = waiting]
    BY <1>1, <1>2 DEF RunEvent, RunTime
  <1>4. /\ resumes \in Seq(Task) /\ IsInjective(resumes)
        /\ Range(resumes) = {Resume(c) : c \in Range(ctxs)}
    BY <1>1, ResumeEach
  <1> HIDE DEF after, ctxs
  <1>5. Range(k.tasks) \cap Range(resumes) = {}
    BY <1>4 DEF Queue, Waiters, ctxs
  <1> HIDE DEF resumes
  <1>6. /\ longer \in Seq(Task) /\ IsInjective(longer)
        /\ Range(longer) = Range(k.tasks) \cup Range(resumes)
    BY <1>1, <1>4, <1>5, ConcatOnce
  <1>7. /\ \A a, b : Ahead(k.tasks, a, b) => Ahead(longer, a, b)
        /\ \A a \in Range(k.tasks), b \in Range(resumes) : Ahead(longer, a, b)
    BY <1>1, <1>4, ConcatOrder
  <1> HIDE DEF longer
  <1>8. done \in [Event -> BOOLEAN] /\ waiting \in [Event -> Seq(Context)]
    BY <1>1, EmptyOnce DEF RunTime
  <1>9. \A f \in Event : /\ IsInjective(waiting[f])
                         /\ Range(waiting[f]) = IF f = e THEN {} ELSE Range(k.waiting[f])
    BY <1>1, EmptyOnce DEF Known, Once, RunTime
  <1> HIDE DEF waiting, done
  <1>10. /\ after \in RunTime /\ after.tasks = longer
         /\ after.done = done /\ after.waiting = waiting
    BY <1>1, <1>3, <1>6, <1>8 DEF RunTime
  <1>11. Known(after)
    BY <1>6, <1>9, <1>10 DEF Known, Once
  <1>12. Queue(after) = Queue(k) \cup {Resume(c) : c \in Waiters(k, e)}
    BY <1>4, <1>6, <1>10 DEF Queue, Waiters, ctxs
  <1>13. Later(k, after)
    BY <1>6, <1>7, <1>10 DEF Later, Queue, Before
  <1>14. \A f \in Event : Waiters(after, f) = IF f = e THEN {} ELSE Waiters(k, f)
    BY <1>9, <1>10 DEF Waiters
  <1> QED
    BY <1>10, <1>11, <1>12, <1>13, <1>14 DEF after, done

LEMMA StartedKnown ==
  LET k == Started(Event, {})
  IN  /\ Known(k) /\ Queue(k) = {} /\ \A e \in Event : Waiters(k, e) = {}
      /\ \A e \in Event : ~k.done[e]
PROOF
  <1> DEFINE k == Started(Event, {})
  <1>1. /\ k.tasks = << >> /\ k.done = [e \in Event |-> FALSE]
        /\ k.waiting = [e \in Event |-> << >>]
    BY DEF Started
  <1>2. k \in RunTime
    BY EmptyOnce DEF Started, RunTime
  <1> HIDE DEF k
  <1>3. /\ Known(k) /\ Queue(k) = {} /\ \A e \in Event : Waiters(k, e) = {}
        /\ \A e \in Event : ~k.done[e]
    BY <1>1, <1>2, EmptyOnce DEF Known, Once, Queue, Waiters
  <1> QED
    BY <1>3 DEF k
------------------------------------------------------------------------------
(* The invariant *)

Queued(t) == t \in Queue(rt)
Waits(c, e) == c \in Waiters(rt, e)
Quiet(e) == ~Queued(EventTask(e)) /\ Waiters(rt, e) = {}

Place == {"start", "free", "captured", "cropped", "done", "crop", "callback",
          "await inference", "await send", "sent", "released", "send", "sending",
          "input", "network", "uart"}

ContextsTyped ==
  /\ at \in [Context -> Place]
  /\ at[Camera] \in {"start", "free", "captured", "cropped"}
  /\ \A f \in Buffer :
       /\ at[Consumer(f)] \in {"done", "crop", "callback", "await inference", "await send",
                               "sent", "released"}
       /\ at[Send(f)] \in {"done", "send", "sending"}
  /\ at[Inference] \in {"done", "input", "network", "uart"}
  /\ iteration \in 0 .. CAMERA_BUFFERS /\ current \in Buffer
  /\ unsent \in Seq(Buffer)
DevicesTyped ==
  /\ {camera_started, onboard, spi, uart} \subseteq BOOLEAN
  /\ dma \in Buffer \cup {NoBuffer}
  /\ cluster \in [phase : {"idle", "layer 0", "layers"}, input : Buffer \cup {NoBuffer}]
FramesTyped == ContextsTyped /\ DevicesTyped

\* The event that a suspended coroutine waits for
Awaits(c, e) ==
  \/ at[c] \in {"free", "captured", "cropped"} /\ e = Done(current)
  \/ at[c] = "await inference" /\ e = inference_done
  \/ at[c] \in {"await send", "sent"} /\ e = streamer_tx_done
  \/ at[c] = "released" /\ e = frame_done
  \/ at[c] = "sending" /\ e = cpx_done
  \/ at[c] \in {"network", "uart"} /\ e = network_done

\* A coroutine that has not returned is queued or waits for its event: none is lost.
Placed(c) ==
  /\ at[c] = "done" => ~Queued(Resume(c))
  /\ \A e \in Event : Waits(c, e) => Awaits(c, e) /\ ~Queued(Resume(c))
  /\ at[c] # "done" => Queued(Resume(c)) \/ \E e \in Event : Waits(c, e)

EventsQuiet == \A e \in Event : rt.done[e] => Quiet(e)
ContextsPlaced == \A c \in Context : Placed(c)

\* The first captures find their buffers unused.
FirstCaptures ==
  /\ at[Camera] = "start" <=> iteration = 0
  /\ iteration < CAMERA_BUFFERS => current = 0 /\ at[Camera] # "free"
  /\ \A f \in Buffer : f >= iteration => at[Consumer(f)] = "done" /\ ~Queued(EventTask(Done(f)))

\* camera_task works on a buffer only while its context is not running.
CameraAlone ==
  /\ \A f \in Buffer :
       at[Consumer(f)] # "done" => ~rt.done[Done(f)] /\ ~Queued(EventTask(Done(f)))
  /\ at[Camera] = "captured" => at[Consumer(current)] = "done"
  /\ at[Camera] = "cropped" => at[Consumer(current)] \in {"crop", "done"}
  /\ \A f \in Buffer : at[Consumer(f)] = "crop" => f = current /\ at[Camera] = "cropped"
  /\ dma # NoBuffer => /\ dma = current /\ at[Camera] = "captured" /\ Waits(Camera, Done(current))
                       /\ ~Queued(EventTask(Done(current)))
  /\ at[Camera] # "start" /\ Queued(Resume(Camera)) =>
       at[Consumer(current)] = "done" /\ ~Queued(EventTask(Done(current)))

\* The callback starts before camera_task goes on with the next frame.
CallbackFirst ==
  \A f \in Buffer : at[Consumer(f)] = "callback" =>
    /\ f # current /\ at[Camera] \in {"free", "captured"}
    /\ Queued(Resume(Camera)) => Before(rt, Resume(Consumer(f)), Resume(Camera))
    /\ at[Camera] = "captured" /\ Queued(EventTask(Done(current))) =>
         Before(rt, Resume(Consumer(f)), EventTask(Done(current)))

\* The one send under way, and the callback that waits for it
SentWaiting(f) == at[Consumer(f)] = "sent" /\ Waits(Consumer(f), streamer_tx_done)
OneSend ==
  /\ \A f \in Buffer :
       at[Send(f)] # "done" => SentWaiting(f) /\ ~Queued(EventTask(streamer_tx_done))
  /\ \A f, g \in Buffer : SentWaiting(f) /\ SentWaiting(g) => f = g
  /\ camera_started /\ ~rt.done[streamer_tx_done] => \E f \in Buffer : SentWaiting(f)
  /\ spi \/ Queued(EventTask(cpx_done)) => \E f \in Buffer : Waits(Send(f), cpx_done)
  /\ ~(spi /\ Queued(EventTask(cpx_done)))
  /\ \A f \in Buffer :
       at[Consumer(f)] \in {"await inference", "await send", "sent", "released"} => camera_started
  /\ Queued(EventTask(streamer_tx_done)) => camera_started

\* The one inference under way: network_done and frame_done are its events.
Inferring == at[Inference] = "network" /\ Waits(Inference, network_done)
InputUnread == at[Inference] = "input" \/ cluster.phase = "layer 0"
OneInference ==
  /\ at[Inference] # "done" =>
       onboard /\ camera_started /\ ~rt.done[inference_done] /\ ~Queued(EventTask(inference_done))
  /\ \A f \in Buffer : at[Consumer(f)] \in {"await inference", "released"} => onboard
  /\ uart => at[Inference] = "uart" /\ Waits(Inference, network_done)
  /\ cluster.phase # "idle" => Inferring
  /\ Queued(EventTask(network_done)) =>
       Waits(Inference, network_done) /\ ~uart /\ cluster.phase = "idle"
  /\ cluster.input # NoBuffer => cluster.phase = "layer 0" /\ cluster.input = inference_args
  /\ Queued(EventTask(inference_done)) => camera_started

\* frame_done comes when the input has been read, and before network_done.
HoldsInput(f) ==
  \/ at[Consumer(f)] = "sent"
  \/ at[Consumer(f)] = "released" /\ Waits(Consumer(f), frame_done)
InputReturned ==
  /\ Queued(EventTask(frame_done)) =>
       /\ Inferring
       /\ cluster.phase = "layers" \/ Before(rt, EventTask(frame_done), EventTask(network_done))
  /\ InputUnread => ~rt.done[frame_done] /\ ~Queued(EventTask(frame_done))
  /\ onboard /\ camera_started /\ ~rt.done[frame_done] =>
       /\ InputUnread \/ Queued(EventTask(frame_done))
       /\ inference_args \in Buffer /\ HoldsInput(inference_args)

\* A callback that waits for the send of the frame before is the next to start one.
AwaitSendNext ==
  \A f, g \in Buffer : f # g /\ at[Consumer(g)] = "await send" =>
    /\ Waits(Consumer(g), streamer_tx_done) => SentWaiting(f)
    /\ onboard =>
         /\ rt.done[inference_done] /\ at[Consumer(f)] \in {"sent", "released"}
         /\ at[Consumer(f)] = "released" /\ Queued(Resume(Consumer(f))) =>
              Before(rt, Resume(Consumer(g)), Resume(Consumer(f)))
    /\ ~onboard =>
         /\ f = current /\ at[Camera] = "free" /\ ~Queued(Resume(Camera))
         /\ Queued(EventTask(Done(f))) => Before(rt, Resume(Consumer(g)), EventTask(Done(f)))

\* Which frames have yet to be given to the streamer
Unsent(f) ==
  \/ at[Consumer(f)] \in {"crop", "callback", "await inference", "await send"}
  \/ f = current /\ at[Camera] = "cropped"
  \/ at[Send(f)] = "send"
UnsentKnown ==
  /\ \A f \in Buffer : f \in Range(unsent) <=> Unsent(f)
  /\ IsInjective(unsent)
  /\ ~onboard /\ Len(unsent) > 1 => at[Send(Head(unsent))] = "send"

FrameInv ==
  /\ ~failed
  /\ FramesTyped
  /\ Known(rt)
  /\ EventsQuiet
  /\ ContextsPlaced
  /\ FirstCaptures
  /\ CameraAlone
  /\ CallbackFirst
  /\ OneSend
  /\ OneInference
  /\ InputReturned
  /\ AwaitSendNext
  /\ UnsentKnown
------------------------------------------------------------------------------
(* Names *)

LEMMA Buffers ==
  /\ Buffer = {0, 1} /\ NoBuffer = 2 /\ CAMERA_BUFFERS = 2
  /\ \A f \in Buffer : /\ (f + 1) % CAMERA_BUFFERS = 1 - f
                       /\ 1 - f \in Buffer /\ 1 - f # f
                       /\ \A g \in Buffer : g = f \/ g = 1 - f
PROOF
  BY DEF Buffer, NoBuffer, CAMERA_BUFFERS

LEMMA Contexts ==
  /\ \A f \in Buffer : Consumer(f) \in Context /\ Send(f) \in Context
  /\ Camera \in Context /\ Inference \in Context
  /\ \A c \in Context : \/ c = Camera \/ c = Inference
                        \/ \E f \in Buffer : c = Consumer(f) \/ c = Send(f)
  /\ \A f, g : Consumer(f) = Consumer(g) => f = g
  /\ \A f, g : Send(f) = Send(g) => f = g
  /\ \A f, g : Consumer(f) # Send(g)
  /\ \A f : Consumer(f) # Camera /\ Consumer(f) # Inference
  /\ \A f : Send(f) # Camera /\ Send(f) # Inference
  /\ Camera # Inference
PROOF
  BY DEF Context, Consumer, Send, Camera, Inference

LEMMA Events ==
  /\ \A f \in Buffer : Done(f) \in Event
  /\ {streamer_tx_done, inference_done, frame_done, network_done, cpx_done} \subseteq Event
  /\ \A f, g : Done(f) = Done(g) => f = g
  /\ \A f : Done(f) \notin {streamer_tx_done, inference_done, frame_done, network_done, cpx_done}
  /\ streamer_tx_done \notin {inference_done, frame_done, network_done, cpx_done}
  /\ inference_done \notin {frame_done, network_done, cpx_done}
  /\ frame_done \notin {network_done, cpx_done}
  /\ network_done # cpx_done
PROOF
  BY DEF Event, Done, streamer_tx_done, inference_done, frame_done, network_done, cpx_done

LEMMA Tasks ==
  /\ \A c \in Context : Resume(c) \in Task
  /\ \A e \in Event : EventTask(e) \in Task
  /\ \A c, d : Resume(c) = Resume(d) => c = d
  /\ \A e, f : EventTask(e) = EventTask(f) => e = f
  /\ \A c, e : Resume(c) # EventTask(e)
PROOF
  BY DEF Task, Resume, EventTask
------------------------------------------------------------------------------
(* What a step does to the run-time *)

\* The tasks in gone leave the front of the queue, those in new join its end.
Queues(gone, new) ==
  /\ Known(rt')
  /\ \A x : x \in Queue(rt') <=> x \in new \/ (x \in Queue(rt) /\ x \notin gone)
  /\ \A a, b : Before(rt, a, b) => b \notin gone /\ (a \notin gone => Before(rt', a, b))
  /\ \A a, b : a \in Queue(rt) /\ a \notin gone /\ b \in new => Before(rt', a, b)

Oldest(t) == rt.tasks # << >> /\ Head(rt.tasks) = t

LEMMA PoppedFirst ==
  ASSUME Known(rt), NEW t, Oldest(t)
  PROVE  /\ Known(Popped(rt)) /\ Queued(t)
         /\ Queue(Popped(rt)) = Queue(rt) \ {t}
         /\ \A a : ~Before(rt, a, t)
         /\ \A e \in Event : Waiters(Popped(rt), e) = Waiters(rt, e)
         /\ Popped(rt).done = rt.done
PROOF
  BY KnownPopped DEF Oldest, Queued

LEMMA RunQueues ==
  ASSUME Known(rt), NEW t, Oldest(t), NEW new,
         Known(rt'), Later(Popped(rt), rt'),
         Queue(rt') = Queue(Popped(rt)) \cup new, new \cap Queue(Popped(rt)) = {}
  PROVE  Queues({t}, new)
PROOF
  <1>1. /\ Queue(Popped(rt)) = Queue(rt) \ {t}
        /\ \A a, b : Before(rt, a, b) /\ a # t => Before(Popped(rt), a, b)
        /\ \A a : ~Before(rt, a, t)
    BY KnownPopped DEF Oldest
  <1>2. \A a, b : Before(rt, a, b) => a \in Queue(rt)
    BY DEF Before, Ahead, Queue, Range
  <1> QED
    BY <1>1, <1>2 DEF Queues, Later

LEMMA DeviceQueues ==
  ASSUME Known(rt), NEW new, Known(rt'), Later(rt, rt'),
         Queue(rt') = Queue(rt) \cup new, new \cap Queue(rt) = {}
  PROVE  Queues({}, new)
PROOF
  <1>1. \A a, b : Before(rt, a, b) => a \in Queue(rt)
    BY DEF Before, Ahead, Queue, Range
  <1> QED
    BY <1>1 DEF Queues, Later

\* co_event_init, then CO_WAIT
LEMMA KnownArmed ==
  ASSUME NEW k, Known(k), NEW e \in Event, NEW c \in Context
  PROVE  LET after == WaitEvent(InitEvent(k, e), e, c)
         IN  /\ Known(after)
             /\ Queue(after) = Queue(k) /\ Later(k, after)
             /\ \A f \in Event : Waiters(after, f) = IF f = e THEN {c} ELSE Waiters(k, f)
             /\ after.done = [k.done EXCEPT ![e] = FALSE]
PROOF
  <1> DEFINE inited == InitEvent(k, e)
             after == WaitEvent(inited, e, c)
  <1>1. /\ Known(inited)
        /\ Queue(inited) = Queue(k) /\ Later(k, inited)
        /\ \A f \in Event : Waiters(inited, f) = IF f = e THEN {} ELSE Waiters(k, f)
        /\ inited.done = [k.done EXCEPT ![e] = FALSE]
    BY KnownInit
  <1>2. ~inited.done[e] /\ c \notin Waiters(inited, e)
    BY <1>1 DEF Known, RunTime
  <1> HIDE DEF inited
  <1>3. /\ Known(after)
        /\ Queue(after) = Queue(inited) /\ Later(inited, after)
        /\ \A f \in Event :
             Waiters(after, f) = IF f = e THEN Waiters(inited, f) \cup {c} ELSE Waiters(inited, f)
        /\ after.done = inited.done
    BY <1>1, <1>2, KnownWait
  <1> HIDE DEF after
  <1>4. Later(k, after)
    BY <1>1, <1>3, LaterTransitive
  <1>5. \A f \in Event : Waiters(after, f) = IF f = e THEN {c} ELSE Waiters(k, f)
    BY <1>1, <1>3
  <1> QED
    BY <1>1, <1>3, <1>4, <1>5 DEF after, inited

\* co_event_init, then co_fn_push_start
LEMMA KnownStarted ==
  ASSUME NEW k, Known(k), NEW e \in Event, NEW c \in Context, Resume(c) \notin Queue(k)
  PROVE  LET after == PushResume(InitEvent(k, e), c)
         IN  /\ Known(after)
             /\ Queue(after) = Queue(k) \cup {Resume(c)} /\ Later(k, after)
             /\ \A f \in Event : Waiters(after, f) = IF f = e THEN {} ELSE Waiters(k, f)
             /\ after.done = [k.done EXCEPT ![e] = FALSE]
PROOF
  <1> DEFINE inited == InitEvent(k, e)
             after == PushResume(inited, c)
  <1>1. /\ Known(inited)
        /\ Queue(inited) = Queue(k) /\ Later(k, inited)
        /\ \A f \in Event : Waiters(inited, f) = IF f = e THEN {} ELSE Waiters(k, f)
        /\ inited.done = [k.done EXCEPT ![e] = FALSE]
    BY KnownInit
  <1> HIDE DEF inited
  <1>2. /\ Known(after)
        /\ Queue(after) = Queue(inited) \cup {Resume(c)} /\ Later(inited, after)
        /\ \A f \in Event : Waiters(after, f) = Waiters(inited, f)
        /\ after.done = inited.done
    BY <1>1, KnownPushed, Tasks DEF PushResume
  <1> HIDE DEF after
  <1>3. Later(k, after)
    BY <1>1, <1>2, LaterTransitive
  <1>4. \A f \in Event : Waiters(after, f) = IF f = e THEN {} ELSE Waiters(k, f)
    BY <1>1, <1>2
  <1> QED
    BY <1>1, <1>2, <1>3, <1>4 DEF after, inited

\* The contexts that can wait for an event
LEMMA WhoWaits ==
  ASSUME FrameInv, NEW c, NEW e \in Event, Waits(c, e)
  PROVE  /\ c \in Context /\ Awaits(c, e) /\ ~Queued(Resume(c)) /\ ~rt.done[e]
         /\ \A f \in Buffer : e = Done(f) => c = Camera /\ f = current
         /\ e \in {streamer_tx_done, inference_done, frame_done} =>
              \E f \in Buffer : c = Consumer(f)
         /\ e = cpx_done => \E f \in Buffer : c = Send(f)
         /\ e = network_done => c = Inference
PROOF
  <1>1. c \in Context
    BY KnownTypes DEF FrameInv, Waits
  <1>2. Awaits(c, e) /\ ~Queued(Resume(c)) /\ ~rt.done[e]
    BY <1>1 DEF FrameInv, ContextsPlaced, Placed, EventsQuiet, Quiet, Waits
  <1>3. /\ c = Camera \/ c = Inference \/ \E f \in Buffer : c = Consumer(f) \/ c = Send(f)
        /\ at[Camera] \in {"start", "free", "captured", "cropped"}
        /\ \A f \in Buffer :
             /\ at[Consumer(f)] \in {"done", "crop", "callback", "await inference", "await send",
                                     "sent", "released"}
             /\ at[Send(f)] \in {"done", "send", "sending"}
        /\ at[Inference] \in {"done", "input", "network", "uart"}
    BY <1>1, Contexts DEF FrameInv, FramesTyped, ContextsTyped
  <1> QED
    BY <1>1, <1>2, <1>3, Events DEF Awaits

\* A coroutine that runs waits for nothing.
LEMMA RunsAlone ==
  ASSUME FrameInv, NEW c \in Context, Oldest(Resume(c))
  PROVE  at[c] # "done" /\ \A e \in Event : ~Waits(c, e)
PROOF
  BY PoppedFirst DEF FrameInv, ContextsPlaced, Placed

LEMMA HeadUnsent ==
  ASSUME FrameInv
  PROVE  Len(unsent) \in Nat /\ (Len(unsent) > 0 => Head(unsent) \in Buffer)
PROOF
  <1>1. unsent \in Seq(Buffer)
    BY DEF FrameInv, FramesTyped, ContextsTyped
  <1> QED
    BY <1>1

LEMMA UnsentStays ==
  ASSUME FrameInv, unsent' = unsent, onboard' = onboard,
         \A f \in Buffer : Unsent(f)' <=> Unsent(f),
         \A f \in Buffer : at[Send(f)] = "send" => at'[Send(f)] = "send"
  PROVE  UnsentKnown'
PROOF
  <1>1. /\ \A f \in Buffer : f \in Range(unsent) <=> Unsent(f)
        /\ IsInjective(unsent)
        /\ ~onboard /\ Len(unsent) > 1 => at[Send(Head(unsent))] = "send"
    BY DEF FrameInv, UnsentKnown
  <1>2. Len(unsent) \in Nat /\ (Len(unsent) > 0 => Head(unsent) \in Buffer)
    BY HeadUnsent
  <1>3. \A f \in Buffer : f \in Range(unsent)' <=> Unsent(f)'
    BY <1>1
  <1>4. ~onboard' /\ Len(unsent') > 1 => at'[Send(Head(unsent'))] = "send"
    BY <1>1, <1>2
  <1> QED
    BY <1>1, <1>3, <1>4 DEF UnsentKnown

LEMMA Counts ==
  ASSUME FrameInv
  PROVE  iteration \in {0, 1, 2} /\ current \in {0, 1}
PROOF
  <1>1. iteration \in 0 .. CAMERA_BUFFERS /\ current \in Buffer
    BY DEF FrameInv, FramesTyped, ContextsTyped
  <1> QED
    BY <1>1 DEF CAMERA_BUFFERS, Buffer
------------------------------------------------------------------------------
(* What a step does not touch *)

LEMMA SameOnboard ==
  ASSUME UNCHANGED onboard
  PROVE  (onboard => onboard') /\ (onboard' => onboard)
PROOF
  OBVIOUS

LEMMA CameraStays ==
  ASSUME FrameInv, UNCHANGED <<current, iteration, dma>>, at'[Camera] = at[Camera],
         Queued(Resume(Camera))' <=> Queued(Resume(Camera)),
         Waits(Camera, Done(current))' <=> Waits(Camera, Done(current)),
         \A f \in Buffer : /\ at'[Consumer(f)] = "done" <=> at[Consumer(f)] = "done"
                           /\ at'[Consumer(f)] = "crop" <=> at[Consumer(f)] = "crop"
                           /\ rt'.done[Done(f)] <=> rt.done[Done(f)]
                           /\ Queued(EventTask(Done(f)))' <=> Queued(EventTask(Done(f)))
  PROVE  FirstCaptures' /\ CameraAlone'
PROOF
  <1>1. PICK f0, e0, c0 : f0 = current /\ e0 = Done(f0) /\ c0 = Consumer(f0)
    OBVIOUS
  <1>2. f0 \in Buffer /\ current' = f0
    BY <1>1 DEF FrameInv, FramesTyped, ContextsTyped
  <1>3. FirstCaptures'
    BY DEF FrameInv, FirstCaptures
  <1>4. /\ \A f \in Buffer :
             at'[Consumer(f)] # "done" => ~rt'.done[Done(f)] /\ ~Queued(EventTask(Done(f)))'
        /\ \A f \in Buffer : at'[Consumer(f)] = "crop" => f = f0 /\ at'[Camera] = "cropped"
    BY <1>1 DEF FrameInv, CameraAlone
  <1>5. /\ at'[Camera] = "captured" => at'[c0] = "done"
        /\ at'[Camera] = "cropped" => at'[c0] \in {"crop", "done"}
    BY <1>1, <1>2 DEF FrameInv, CameraAlone
  <1>6. /\ dma' # NoBuffer => /\ dma' = f0 /\ at'[Camera] = "captured" /\ Waits(Camera, e0)'
                              /\ ~Queued(EventTask(e0))'
        /\ at'[Camera] # "start" /\ Queued(Resume(Camera))' =>
             at'[c0] = "done" /\ ~Queued(EventTask(e0))'
    BY <1>1, <1>2 DEF FrameInv, CameraAlone
  <1>7. CameraAlone'
    BY <1>1, <1>2, <1>4, <1>5, <1>6 DEF CameraAlone
  <1> QED
    BY <1>3, <1>7

LEMMA CallbackStays ==
  ASSUME FrameInv, UNCHANGED current, at'[Camera] = at[Camera],
         Queued(Resume(Camera))' => Queued(Resume(Camera)),
         at[Camera] = "captured" /\ Queued(EventTask(Done(current)))' =>
           Queued(EventTask(Done(current))),
         \A f \in Buffer : at'[Consumer(f)] = "callback" =>
           /\ at[Consumer(f)] = "callback"
           /\ \A b : Before(rt, Resume(Consumer(f)), b) => Before(rt', Resume(Consumer(f)), b)
  PROVE  CallbackFirst'
PROOF
  <1>1. PICK e0 : e0 = Done(current)
    OBVIOUS
  <1>2. \A f \in Buffer : at'[Consumer(f)] = "callback" =>
          /\ f # current /\ at'[Camera] \in {"free", "captured"}
          /\ Queued(Resume(Camera))' => Before(rt', Resume(Consumer(f)), Resume(Camera))
          /\ at'[Camera] = "captured" /\ Queued(EventTask(e0))' =>
               Before(rt', Resume(Consumer(f)), EventTask(e0))
    BY <1>1 DEF FrameInv, CallbackFirst
  <1> QED
    BY <1>1, <1>2 DEF CallbackFirst

LEMMA SendsStay ==
  ASSUME FrameInv, UNCHANGED <<spi, camera_started>>,
         \A f \in Buffer :
           /\ at'[Send(f)] = at[Send(f)]
           /\ SentWaiting(f)' <=> SentWaiting(f)
           /\ Waits(Send(f), cpx_done)' <=> Waits(Send(f), cpx_done)
           /\ at'[Consumer(f)] \in {"await inference", "await send", "sent", "released"} =>
                camera_started,
         Queued(EventTask(streamer_tx_done))' <=> Queued(EventTask(streamer_tx_done)),
         Queued(EventTask(cpx_done))' <=> Queued(EventTask(cpx_done)),
         rt'.done[streamer_tx_done] <=> rt.done[streamer_tx_done]
  PROVE  OneSend'
PROOF
  BY DEF FrameInv, OneSend

LEMMA InferenceStays ==
  ASSUME FrameInv, UNCHANGED <<uart, cluster, inference_args, onboard, camera_started>>,
         at'[Inference] = at[Inference],
         Waits(Inference, network_done)' <=> Waits(Inference, network_done),
         \A e \in {inference_done, frame_done, network_done} :
           Queued(EventTask(e))' <=> Queued(EventTask(e)),
         rt'.done[inference_done] <=> rt.done[inference_done],
         rt'.done[frame_done] <=> rt.done[frame_done],
         Before(rt, EventTask(frame_done), EventTask(network_done)) =>
           Before(rt', EventTask(frame_done), EventTask(network_done)),
         \A f \in Buffer : /\ at'[Consumer(f)] \in {"await inference", "released"} => onboard
                           /\ HoldsInput(f) /\ ~rt.done[frame_done] /\ onboard => HoldsInput(f)'
  PROVE  OneInference' /\ InputReturned'
PROOF
  <1>1. (InputUnread' <=> InputUnread) /\ (Inferring' <=> Inferring)
    BY DEF InputUnread, Inferring
  <1>2. OneInference'
    BY <1>1 DEF FrameInv, OneInference
  <1>3. /\ Queued(EventTask(frame_done))' => Queued(EventTask(frame_done))
        /\ Queued(EventTask(frame_done)) => Queued(EventTask(frame_done))'
    OBVIOUS
  <1>4. PICK f0 : f0 = inference_args
    OBVIOUS
  <1>5. onboard /\ camera_started /\ ~rt'.done[frame_done] =>
          /\ InputUnread' \/ Queued(EventTask(frame_done))'
          /\ f0 \in Buffer /\ HoldsInput(f0)'
    BY <1>1, <1>3, <1>4 DEF FrameInv, InputReturned
  <1>6. inference_args' = f0
    BY <1>4
  <1>7. InputReturned'
    BY <1>1, <1>3, <1>5, <1>6 DEF FrameInv, InputReturned
  <1> QED
    BY <1>2, <1>7

LEMMA AwaitPairs ==
  ASSUME UNCHANGED <<current, onboard>>, at'[Camera] = at[Camera],
         Queued(Resume(Camera))' => Queued(Resume(Camera)),
         \A f, g \in Buffer : f # g /\ at'[Consumer(g)] = "await send" =>
           /\ Waits(Consumer(g), streamer_tx_done)' => SentWaiting(f)'
           /\ onboard =>
                /\ rt'.done[inference_done] /\ at'[Consumer(f)] \in {"sent", "released"}
                /\ at'[Consumer(f)] = "released" /\ Queued(Resume(Consumer(f)))' =>
                     Before(rt', Resume(Consumer(g)), Resume(Consumer(f)))
           /\ ~onboard =>
                /\ f = current /\ at[Camera] = "free" /\ ~Queued(Resume(Camera))
                /\ Queued(EventTask(Done(f)))' =>
                     Before(rt', Resume(Consumer(g)), EventTask(Done(f)))
  PROVE  AwaitSendNext'
PROOF
  BY DEF AwaitSendNext

LEMMA AwaitStays ==
  ASSUME FrameInv, UNCHANGED <<current, onboard>>, at'[Camera] = at[Camera],
         Queued(Resume(Camera))' => Queued(Resume(Camera)),
         rt.done[inference_done] => rt'.done[inference_done],
         \A g \in Buffer : at'[Consumer(g)] = "await send" =>
           /\ at[Consumer(g)] = "await send"
           /\ \A b : Before(rt, Resume(Consumer(g)), b) => Before(rt', Resume(Consumer(g)), b)
           /\ Waits(Consumer(g), streamer_tx_done)' => Waits(Consumer(g), streamer_tx_done)
           /\ \A f \in Buffer : f # g =>
                /\ Waits(Consumer(g), streamer_tx_done)' /\ SentWaiting(f) => SentWaiting(f)'
                /\ onboard /\ at[Consumer(f)] \in {"sent", "released"} =>
                     at'[Consumer(f)] \in {"sent", "released"}
                /\ onboard /\ at'[Consumer(f)] = "released" /\ Queued(Resume(Consumer(f)))' =>
                     \/ at[Consumer(f)] = "released" /\ Queued(Resume(Consumer(f)))
                     \/ Before(rt', Resume(Consumer(g)), Resume(Consumer(f)))
                /\ ~onboard /\ Queued(EventTask(Done(f)))' =>
                     \/ Queued(EventTask(Done(f)))
                     \/ Before(rt', Resume(Consumer(g)), EventTask(Done(f)))
  PROVE  AwaitSendNext'
PROOF
  <1> SUFFICES ASSUME NEW f \in Buffer, NEW g \in Buffer, f # g, at'[Consumer(g)] = "await send"
               PROVE  /\ Waits(Consumer(g), streamer_tx_done)' => SentWaiting(f)'
                      /\ onboard =>
                           /\ rt'.done[inference_done] /\ at'[Consumer(f)] \in {"sent", "released"}
                           /\ at'[Consumer(f)] = "released" /\ Queued(Resume(Consumer(f)))' =>
                                Before(rt', Resume(Consumer(g)), Resume(Consumer(f)))
                      /\ ~onboard =>
                           /\ f = current /\ at[Camera] = "free" /\ ~Queued(Resume(Camera))
                           /\ Queued(EventTask(Done(f)))' =>
                                Before(rt', Resume(Consumer(g)), EventTask(Done(f)))
    BY DEF AwaitSendNext
  <1>1. /\ Waits(Consumer(g), streamer_tx_done) => SentWaiting(f)
        /\ onboard =>
             /\ rt.done[inference_done] /\ at[Consumer(f)] \in {"sent", "released"}
             /\ at[Consumer(f)] = "released" /\ Queued(Resume(Consumer(f))) =>
                  Before(rt, Resume(Consumer(g)), Resume(Consumer(f)))
        /\ ~onboard =>
             /\ f = current /\ at[Camera] = "free" /\ ~Queued(Resume(Camera))
             /\ Queued(EventTask(Done(f))) => Before(rt, Resume(Consumer(g)), EventTask(Done(f)))
    BY DEF FrameInv, AwaitSendNext
  <1> QED
    BY <1>1
------------------------------------------------------------------------------
(* Each step keeps the invariant: camera_task *)

LEMMA CameraRuns ==
  ASSUME FrameInv, Oldest(Resume(Camera))
  PROVE  /\ dma = NoBuffer /\ \A e \in Event : ~Waits(Camera, e)
         /\ \A f \in Buffer : Waiters(rt, Done(f)) = {} /\ at[Consumer(f)] # "callback"
         /\ ~onboard => \A f \in Buffer : at[Consumer(f)] # "await send"
         /\ at[Consumer(current)] = "done" /\ at[Send(current)] = "done"
         /\ ~Queued(EventTask(Done(current)))
PROOF
  <1>1. /\ Queued(Resume(Camera)) /\ \A a : ~Before(rt, a, Resume(Camera))
        /\ \A e \in Event : ~Waits(Camera, e)
    BY PoppedFirst, RunsAlone, Contexts DEF FrameInv
  <1>2. /\ at[Camera] \in {"start", "free", "captured", "cropped"} /\ current \in Buffer
        /\ Done(current) \in Event /\ iteration \in 0 .. 2
    BY Buffers, Events DEF FrameInv, FramesTyped, ContextsTyped
  <1>3. dma = NoBuffer
    BY <1>1, <1>2 DEF FrameInv, CameraAlone
  <1>4. \A f \in Buffer : Waiters(rt, Done(f)) = {}
    BY <1>1, WhoWaits, Events DEF Waits
  <1>5. \A f \in Buffer : at[Consumer(f)] # "callback"
    BY <1>1, <1>2 DEF FrameInv, CallbackFirst
  <1>6. ~onboard => \A f \in Buffer : at[Consumer(f)] # "await send"
    BY <1>1, Buffers DEF FrameInv, AwaitSendNext
  <1>7. at[Consumer(current)] = "done" /\ ~Queued(EventTask(Done(current)))
    BY <1>1, <1>2, Buffers DEF FrameInv, FirstCaptures, CameraAlone
  <1>8. at[Send(current)] = "done"
    BY <1>2, <1>7 DEF FrameInv, OneSend, SentWaiting
  <1> QED
    BY <1>1, <1>3, <1>4, <1>5, <1>6, <1>7, <1>8

LEMMA CaptureKeeps ==
  ASSUME FrameInv, Oldest(Resume(Camera)), at[Camera] \in {"start", "free"},
         Capture(Popped(rt), current, at),
         iteration' = IF at[Camera] = "start" THEN iteration + 1 ELSE iteration,
         UNCHANGED <<current, unsent, failed, cluster, spi, uart, camera_started,
                     inference_args, onboard>>
  PROVE  FrameInv'
PROOF
  <1> DEFINE e0 == Done(current)
  <1>1. /\ dma = NoBuffer /\ \A e \in Event : ~Waits(Camera, e)
        /\ \A f \in Buffer : Waiters(rt, Done(f)) = {} /\ at[Consumer(f)] # "callback"
        /\ ~onboard => \A f \in Buffer : at[Consumer(f)] # "await send"
        /\ at[Consumer(current)] = "done" /\ at[Send(current)] = "done"
        /\ ~Queued(EventTask(Done(current)))
    BY CameraRuns
  <1>2. /\ current \in Buffer /\ e0 \in Event /\ Camera \in Context /\ iteration \in 0 .. 2
        /\ Queued(Resume(Camera))
    BY PoppedFirst, Buffers, Events, Contexts DEF FrameInv, FramesTyped, ContextsTyped
  <1>3. /\ Queues({Resume(Camera)}, {})
        /\ \A e \in Event : Waiters(rt', e) = IF e = e0 THEN {Camera} ELSE Waiters(rt, e)
        /\ rt'.done = [rt.done EXCEPT ![e0] = FALSE]
    <2> DEFINE k == Popped(rt)
    <2>1. /\ Known(k) /\ Known(rt) /\ \A e \in Event : Waiters(k, e) = Waiters(rt, e)
          /\ k.done = rt.done
      BY PoppedFirst DEF FrameInv
    <2> HIDE DEF k, e0
    <2>2. rt' = WaitEvent(InitEvent(k, e0), e0, Camera)
      BY DEF Capture, k, e0
    <2>3. /\ Known(rt') /\ Queue(rt') = Queue(k) /\ Later(k, rt')
          /\ \A e \in Event : Waiters(rt', e) = IF e = e0 THEN {Camera} ELSE Waiters(k, e)
          /\ rt'.done = [k.done EXCEPT ![e0] = FALSE]
      BY <1>2, <2>1, <2>2, KnownArmed
    <2>4. Queues({Resume(Camera)}, {})
      BY <2>1, <2>3, RunQueues DEF k
    <2> QED
      BY <2>1, <2>3, <2>4
  <1> HIDE DEF e0
  <1>4. /\ Known(rt')
        /\ \A c \in Context : c # Camera =>
             /\ Queued(Resume(c))' <=> Queued(Resume(c))
             /\ \A e \in Event : Waits(c, e)' <=> Waits(c, e)
        /\ ~Queued(Resume(Camera))' /\ \A e \in Event : Waits(Camera, e)' <=> e = e0
        /\ \A e : Queued(EventTask(e))' <=> Queued(EventTask(e))
        /\ \A a, b : Before(rt, a, b) /\ a # Resume(Camera) => Before(rt', a, b)
    BY <1>1, <1>2, <1>3, Tasks DEF Queues, Queued, Waits, e0
  <1>5. /\ at'[Camera] = "captured" /\ dma' = current
        /\ \A c \in Context : c # Camera => at'[c] = at[c]
        /\ at' \in [Context -> Place]
    BY <1>2 DEF Capture, FrameInv, FramesTyped, ContextsTyped, Place
  <1>6. /\ \A f \in Buffer :
             /\ at'[Consumer(f)] = at[Consumer(f)] /\ at'[Send(f)] = at[Send(f)]
             /\ Queued(Resume(Consumer(f)))' <=> Queued(Resume(Consumer(f)))
             /\ \A e \in Event : /\ Waits(Consumer(f), e)' <=> Waits(Consumer(f), e)
                                 /\ Waits(Send(f), e)' <=> Waits(Send(f), e)
        /\ at'[Inference] = at[Inference]
        /\ \A e \in Event : Waits(Inference, e)' <=> Waits(Inference, e)
        /\ \A e \in Event : rt'.done[e] <=> e # e0 /\ rt.done[e]
        /\ \A a, b : Before(rt, a, b) /\ a # Resume(Camera) => Before(rt', a, b)
    BY <1>2, <1>3, <1>4, <1>5, Contexts DEF FrameInv, Known, RunTime
  <1>7. FramesTyped'
    <2>1. iteration' \in 0 .. CAMERA_BUFFERS
      BY <1>2, Buffers DEF FrameInv, FirstCaptures
    <2>2. unsent' \in Seq(Buffer)
      BY DEF FrameInv, FramesTyped, ContextsTyped
    <2>3. ContextsTyped'
      BY <1>2, <1>5, <1>6, <2>1, <2>2 DEF FrameInv, FramesTyped, ContextsTyped
    <2>4. DevicesTyped'
      BY <1>2, <1>5 DEF FrameInv, FramesTyped, DevicesTyped
    <2> QED
      BY <2>3, <2>4 DEF FramesTyped
  <1>8. EventsQuiet'
    BY <1>2, <1>3, <1>4, <1>6 DEF FrameInv, EventsQuiet, Quiet
  <1>9. ContextsPlaced'
    <2> SUFFICES ASSUME NEW c \in Context
                 PROVE  Placed(c)'
      BY DEF ContextsPlaced
    <2>1. Placed(c)
      BY DEF FrameInv, ContextsPlaced
    <2>2. CASE c = Camera
      BY <1>2, <1>4, <1>5, <2>2 DEF Placed, Awaits, e0
    <2>3. CASE c # Camera
      BY <1>4, <1>5, <2>1, <2>3 DEF Placed, Awaits
    <2> QED
      BY <2>2, <2>3
  <1>10. FirstCaptures'
    BY <1>2, <1>4, <1>5, <1>6, Buffers DEF FrameInv, FirstCaptures
  <1>11. CameraAlone'
    <2>1. \A f \in Buffer : Done(f) \in Event /\ (f # current => Done(f) # e0)
      BY Events DEF e0
    <2>2. \A f \in Buffer : at'[Consumer(f)] # "crop"
      BY <1>1, <1>2, <1>6 DEF FrameInv, CameraAlone
    <2> QED
      BY <1>1, <1>2, <1>4, <1>5, <1>6, <2>1, <2>2 DEF FrameInv, CameraAlone, e0
  <1>12. CallbackFirst'
    BY <1>1, <1>6 DEF CallbackFirst
  <1>13. /\ {streamer_tx_done, inference_done, frame_done, network_done, cpx_done} \subseteq Event
         /\ e0 \notin {streamer_tx_done, inference_done, frame_done, network_done, cpx_done}
    BY Events DEF e0
  <1>14. OneSend'
    BY <1>4, <1>6, <1>13 DEF FrameInv, OneSend, SentWaiting
  <1>15. OneInference'
    BY <1>4, <1>6, <1>13 DEF FrameInv, OneInference, Inferring
  <1>16. InputReturned'
    BY <1>4, <1>6, <1>13, Tasks DEF FrameInv, InputReturned, HoldsInput, Inferring, InputUnread
  <1>17. AwaitSendNext'
    BY <1>1, <1>2, <1>4, <1>6, <1>13, Contexts, Tasks DEF FrameInv, AwaitSendNext, SentWaiting
  <1>18. UnsentKnown'
    <2>1. \A f \in Buffer : Unsent(f)' <=> Unsent(f)
      BY <1>5, <1>6 DEF Unsent
    <2> QED
      BY <1>6, <2>1, UnsentStays
  <1> QED
    BY <1>4, <1>7, <1>8, <1>9, <1>10, <1>11, <1>12, <1>14, <1>15, <1>16, <1>17, <1>18 DEF FrameInv

LEMMA CameraStartsKeeps ==
  ASSUME FrameInv, Oldest(Resume(Camera)), CameraStarts(Popped(rt)),
         UNCHANGED <<cluster, spi, uart, camera_started, inference_args, onboard>>
  PROVE  FrameInv'
PROOF
  <1>1. at[Camera] = "start" /\ iteration < CAMERA_BUFFERS
    BY Buffers DEF CameraStarts, FrameInv, FirstCaptures
  <1>2. /\ Capture(Popped(rt), current, at) /\ iteration' = iteration + 1
        /\ UNCHANGED <<current, unsent, failed>>
    BY <1>1 DEF CameraStarts, BeginIteration
  <1> QED
    BY <1>1, <1>2, CaptureKeeps

LEMMA BufferFreeKeeps ==
  ASSUME FrameInv, Oldest(Resume(Camera)), BufferFree(Popped(rt)),
         UNCHANGED <<cluster, spi, uart, camera_started, inference_args, onboard>>
  PROVE  FrameInv'
PROOF
  BY CaptureKeeps DEF BufferFree

LEMMA ConsumerStarted ==
  ASSUME FrameInv, Oldest(Resume(Camera))
  PROVE  LET k == StartConsumer(Popped(rt), current)
         IN  /\ Known(k) /\ Later(Popped(rt), k)
             /\ Queue(k) = Queue(Popped(rt)) \cup {Resume(Consumer(current))}
             /\ Resume(Consumer(current)) \notin Queue(rt)
             /\ \A e \in Event : Waiters(k, e) = Waiters(rt, e)
             /\ k.done = [rt.done EXCEPT ![Done(current)] = FALSE]
PROOF
  <1> DEFINE k == Popped(rt)
  <1>1. /\ Known(k) /\ Queue(k) = Queue(rt) \ {Resume(Camera)}
        /\ \A e \in Event : Waiters(k, e) = Waiters(rt, e)
        /\ k.done = rt.done
    BY PoppedFirst DEF FrameInv
  <1> HIDE DEF k
  <1>2. /\ Done(current) \in Event /\ Consumer(current) \in Context
        /\ Waiters(rt, Done(current)) = {} /\ at[Consumer(current)] = "done"
    BY CameraRuns, Events, Contexts DEF FrameInv, FramesTyped, ContextsTyped
  <1>3. Resume(Consumer(current)) \notin Queue(rt)
    BY <1>2 DEF FrameInv, ContextsPlaced, Placed, Queued
  <1>4. LET after == PushResume(InitEvent(k, Done(current)), Consumer(current))
        IN  /\ Known(after) /\ Later(k, after)
            /\ Queue(after) = Queue(k) \cup {Resume(Consumer(current))}
            /\ \A f \in Event : Waiters(after, f) = IF f = Done(current) THEN {} ELSE Waiters(k, f)
            /\ after.done = [k.done EXCEPT ![Done(current)] = FALSE]
    BY <1>1, <1>2, <1>3, KnownStarted
  <1> QED
    BY <1>1, <1>2, <1>3, <1>4 DEF StartConsumer, k

LEMMA CropFrameKeeps ==
  ASSUME FrameInv, Oldest(Resume(Camera)), CropFrame(Popped(rt)),
         UNCHANGED <<cluster, spi, uart, camera_started, inference_args, onboard>>
  PROVE  FrameInv'
PROOF
  <1>0. PICK f0, e0, c0 : f0 = current /\ e0 = Done(f0) /\ c0 = Consumer(f0)
    OBVIOUS
  <1>1. /\ dma = NoBuffer /\ \A e \in Event : ~Waits(Camera, e)
        /\ \A f \in Buffer : Waiters(rt, Done(f)) = {} /\ at[Consumer(f)] # "callback"
        /\ ~onboard => \A f \in Buffer : at[Consumer(f)] # "await send"
        /\ at[c0] = "done" /\ at[Send(f0)] = "done"
        /\ ~Queued(EventTask(e0)) /\ Waiters(rt, e0) = {}
    <2>1. current \in Buffer
      BY DEF FrameInv, FramesTyped, ContextsTyped
    <2> QED
      BY <1>0, <2>1, CameraRuns
  <1>2. /\ f0 \in Buffer /\ e0 \in Event /\ Camera \in Context /\ c0 \in Context
        /\ Queued(Resume(Camera)) /\ c0 # Camera /\ at[Camera] = "captured"
        /\ ~Queued(Resume(c0)) /\ \A e \in Event : ~Waits(c0, e)
        /\ \A f \in Buffer : f # f0 => Consumer(f) # c0
        /\ \A f \in Buffer : Send(f) # c0
        /\ Inference # c0
    <2>1. Queued(Resume(Camera))
      BY PoppedFirst DEF FrameInv
    <2>2. f0 \in Buffer /\ at[Camera] = "captured"
      BY <1>0 DEF FrameInv, FramesTyped, ContextsTyped, CropFrame
    <2>3. c0 \in Context
      BY <1>0, <2>2, Contexts
    <2>4. ~Queued(Resume(c0)) /\ \A e \in Event : ~Waits(c0, e)
      BY <1>1, <2>3 DEF FrameInv, ContextsPlaced, Placed, Awaits
    <2> QED
      BY <1>0, <2>1, <2>2, <2>3, <2>4, Events, Contexts
  <1>3. /\ Queues({Resume(Camera)}, {Resume(c0)})
        /\ \A e \in Event : Waiters(rt', e) = IF e = e0 THEN {Camera} ELSE Waiters(rt, e)
        /\ rt'.done = [rt.done EXCEPT ![e0] = FALSE]
    <2>0. PICK k : k = StartConsumer(Popped(rt), f0)
      OBVIOUS
    <2>1. /\ Known(k) /\ Later(Popped(rt), k) /\ Known(rt)
          /\ Queue(k) = Queue(Popped(rt)) \cup {Resume(c0)}
          /\ Resume(c0) \notin Queue(rt)
          /\ \A e \in Event : Waiters(k, e) = Waiters(rt, e)
          /\ k.done = [rt.done EXCEPT ![e0] = FALSE]
      BY <1>0, <2>0, ConsumerStarted DEF FrameInv
    <2>2. ~k.done[e0] /\ Waiters(k, e0) = {}
      BY <1>1, <1>2, <2>1 DEF Known, RunTime
    <2>3. rt' = WaitEvent(k, e0, Camera)
      BY <1>0, <2>0 DEF CropFrame
    <2>4. LET after == WaitEvent(k, e0, Camera)
          IN  /\ Known(after) /\ Queue(after) = Queue(k) /\ Later(k, after)
              /\ \A e \in Event : Waiters(after, e) = IF e = e0 THEN Waiters(k, e) \cup {Camera}
                                                                 ELSE Waiters(k, e)
              /\ after.done = k.done
      BY <1>2, <2>1, <2>2, KnownWait
    <2>5. Known(rt') /\ Later(Popped(rt), rt')
      BY <2>1, <2>3, <2>4, LaterTransitive
    <2>6. Queue(Popped(rt)) = Queue(rt) \ {Resume(Camera)}
      BY <2>1, PoppedFirst
    <2>7. Queue(rt') = Queue(Popped(rt)) \cup {Resume(c0)}
      BY <2>1, <2>3, <2>4
    <2>8. Queues({Resume(Camera)}, {Resume(c0)})
      BY <2>1, <2>5, <2>6, <2>7, RunQueues
    <2> QED
      BY <2>1, <2>2, <2>3, <2>4, <2>8
  <1>4. /\ at'[Camera] = "cropped" /\ at'[c0] = "crop"
        /\ \A c \in Context : c # Camera /\ c # c0 => at'[c] = at[c]
        /\ at' \in [Context -> Place]
    BY <1>0, <1>2 DEF CropFrame, FrameInv, FramesTyped, ContextsTyped, Place
  <1>5. /\ UNCHANGED <<iteration, current, dma>> /\ ~failed' /\ unsent' = Append(unsent, f0)
        /\ current' = f0
    BY <1>0, <1>1 DEF CropFrame, Runs
  <1>6. /\ Known(rt')
        /\ \A c \in Context : c # Camera /\ c # c0 =>
             /\ Queued(Resume(c))' <=> Queued(Resume(c))
             /\ \A e \in Event : Waits(c, e)' <=> Waits(c, e)
        /\ ~Queued(Resume(Camera))' /\ \A e \in Event : Waits(Camera, e)' <=> e = e0
        /\ Queued(Resume(c0))'
        /\ \A e \in Event : ~Waits(c0, e)'
        /\ \A e : Queued(EventTask(e))' <=> Queued(EventTask(e))
        /\ \A a, b : Before(rt, a, b) /\ a # Resume(Camera) => Before(rt', a, b)
    BY <1>1, <1>2, <1>3, Tasks DEF Queues, Queued, Waits
  <1>7. /\ \A f \in Buffer :
             /\ at'[Send(f)] = at[Send(f)]
             /\ \A e \in Event : Waits(Send(f), e)' <=> Waits(Send(f), e)
             /\ f # f0 =>
                  /\ at'[Consumer(f)] = at[Consumer(f)]
                  /\ Queued(Resume(Consumer(f)))' <=> Queued(Resume(Consumer(f)))
                  /\ \A e \in Event : Waits(Consumer(f), e)' <=> Waits(Consumer(f), e)
        /\ at'[Inference] = at[Inference]
        /\ \A e \in Event : Waits(Inference, e)' <=> Waits(Inference, e)
        /\ \A e \in Event : rt'.done[e] <=> e # e0 /\ rt.done[e]
    BY <1>2, <1>3, <1>4, <1>6, Contexts DEF FrameInv, Known, RunTime
  <1>8. FramesTyped'
    <2>1. unsent' \in Seq(Buffer)
      <3>1. unsent \in Seq(Buffer)
        BY DEF FrameInv, FramesTyped, ContextsTyped
      <3> QED
        BY <1>2, <1>5, <3>1
    <2>2. ContextsTyped'
      BY <1>0, <1>2, <1>4, <1>5, <1>7, <2>1 DEF FrameInv, FramesTyped, ContextsTyped
    <2>3. DevicesTyped'
      BY <1>5 DEF FrameInv, FramesTyped, DevicesTyped
    <2> QED
      BY <2>2, <2>3 DEF FramesTyped
  <1>9. EventsQuiet'
    BY <1>2, <1>3, <1>6, <1>7 DEF FrameInv, EventsQuiet, Quiet
  <1>10. ContextsPlaced'
    <2> SUFFICES ASSUME NEW c \in Context
                 PROVE  Placed(c)'
      BY DEF ContextsPlaced
    <2>1. Placed(c)
      BY DEF FrameInv, ContextsPlaced
    <2>2. CASE c = Camera
      BY <1>0, <1>2, <1>4, <1>5, <1>6, <2>2 DEF Placed, Awaits
    <2>3. CASE c = c0
      BY <1>4, <1>6, <2>3 DEF Placed
    <2>4. CASE c # Camera /\ c # c0
      BY <1>4, <1>5, <1>6, <2>1, <2>4 DEF Placed, Awaits
    <2> QED
      BY <2>2, <2>3, <2>4
  <1>11. FirstCaptures'
    <2>1. iteration \in {0, 1, 2} /\ f0 \in {0, 1}
      BY <1>0, Counts
    <2>2. iteration # 0 /\ (iteration < 2 => f0 = 0)
      BY <1>0, <1>2, Buffers DEF FrameInv, FirstCaptures
    <2>3. iteration > f0
      BY <2>1, <2>2
    <2>4. \A f \in Buffer : f >= iteration => f # f0
      BY <2>1, <2>3
    <2>5. \A f \in Buffer : f >= iteration' => at'[Consumer(f)] = "done" /\ ~Queued(EventTask(Done(f)))'
      BY <1>5, <1>6, <1>7, <2>4 DEF FrameInv, FirstCaptures
    <2> QED
      BY <1>0, <1>4, <1>5, <2>2, <2>5, Buffers DEF FirstCaptures
  <1>12. CameraAlone'
    <2>1. \A f \in Buffer : Done(f) \in Event /\ (f # f0 => Done(f) # e0)
      BY <1>0, Events
    <2>2. \A f \in Buffer : f # f0 => at'[Consumer(f)] # "crop"
      BY <1>0, <1>1, <1>2, <1>7 DEF FrameInv, CameraAlone
    <2>3. ~rt'.done[e0] /\ ~Queued(EventTask(e0))'
      BY <1>1, <1>2, <1>6, <1>7
    <2> QED
      BY <1>0, <1>1, <1>2, <1>4, <1>5, <1>6, <1>7, <2>1, <2>2, <2>3 DEF FrameInv, CameraAlone
  <1>13. CallbackFirst'
    BY <1>0, <1>1, <1>4, <1>7 DEF CallbackFirst
  <1>14. /\ {streamer_tx_done, inference_done, frame_done, network_done, cpx_done} \subseteq Event
         /\ e0 \notin {streamer_tx_done, inference_done, frame_done, network_done, cpx_done}
    BY <1>0, Events
  <1>15. OneSend'
    <2>1. \A f \in Buffer : SentWaiting(f)' <=> SentWaiting(f)
      BY <1>0, <1>1, <1>4, <1>7, <1>14 DEF SentWaiting
    <2> QED
      BY <1>0, <1>4, <1>6, <1>7, <1>14, <2>1 DEF FrameInv, OneSend
  <1>16. OneInference'
    BY <1>0, <1>4, <1>6, <1>7, <1>14 DEF FrameInv, OneInference, Inferring
  <1>17. InputReturned'
    <2>1. InputUnread' <=> InputUnread
      BY <1>7 DEF InputUnread
    <2>2. Inferring' <=> Inferring
      BY <1>7, <1>14 DEF Inferring
    <2> QED
      BY <1>0, <1>1, <1>6, <1>7, <1>14, <2>1, <2>2, Tasks DEF FrameInv, InputReturned, HoldsInput
  <1>18. AwaitSendNext'
    <2>1. \A g \in Buffer : at'[Consumer(g)] # "await send"
      BY <1>0, <1>1, <1>2, <1>4, <1>7 DEF FrameInv, AwaitSendNext
    <2> QED
      BY <2>1 DEF AwaitSendNext
  <1>19. UnsentKnown'
    <2>1. /\ unsent \in Seq(Buffer) /\ IsInjective(unsent)
          /\ \A f \in Buffer : f \in Range(unsent) <=> Unsent(f)
      BY DEF FrameInv, FramesTyped, ContextsTyped, UnsentKnown
    <2>2. ~Unsent(f0)
      BY <1>0, <1>1, <1>2 DEF Unsent
    <2>3. Range(unsent') = Range(unsent) \cup {f0} /\ IsInjective(unsent')
      BY <1>2, <1>5, <2>1, <2>2, AppendOnce
    <2>4. \A f \in Buffer : Unsent(f)' <=> Unsent(f) \/ f = f0
      BY <1>0, <1>2, <1>4, <1>5, <1>7 DEF Unsent
    <2>5. \A f \in Buffer : f \in Range(unsent)' <=> Unsent(f)'
      BY <2>1, <2>3, <2>4
    <2>6. ~onboard' /\ Len(unsent') > 1 => at'[Send(Head(unsent'))] = "send"
      <3> SUFFICES ASSUME ~onboard, Len(unsent') > 1
                   PROVE  at'[Send(Head(unsent'))] = "send"
        OBVIOUS
      <3>0. PICK g : g = unsent[1]
        OBVIOUS
      <3>1. Head(unsent') = g /\ g \in Buffer /\ g \in Range(unsent)
        BY <1>2, <1>5, <2>1, <3>0 DEF Range
      <3>2. Unsent(g) /\ g # f0
        BY <2>1, <2>2, <3>1
      <3>3. at[Consumer(g)] \notin {"crop", "callback", "await inference", "await send"}
        BY <1>0, <1>1, <1>2, <3>1, <3>2 DEF FrameInv, CameraAlone, OneInference
      <3>4. at[Send(g)] = "send"
        BY <1>0, <1>2, <3>2, <3>3 DEF Unsent
      <3> QED
        BY <1>7, <3>1, <3>4
    <2> QED
      BY <2>3, <2>5, <2>6 DEF UnsentKnown
  <1> QED
    BY <1>5, <1>6, <1>8, <1>9, <1>10, <1>11, <1>12, <1>13, <1>15, <1>16, <1>17, <1>18, <1>19
       DEF FrameInv

\* What ConsumeFrame leaves: it starts the callback on f, and goes on with buffer g.
Consumed(f, g, now) ==
  /\ Queues({Resume(Camera)}, IF now THEN {Resume(Consumer(f)), Resume(Camera)}
                                      ELSE {Resume(Consumer(f))})
  /\ now => Before(rt', Resume(Consumer(f)), Resume(Camera))
  /\ \A e \in Event : Waiters(rt', e) = IF ~now /\ e = Done(g) THEN {Camera} ELSE Waiters(rt, e)
  /\ \A e \in Event :
       rt'.done[e] <=> rt.done[e] /\ e # Done(f) /\ (iteration < CAMERA_BUFFERS => e # Done(g))
  /\ at' \in [Context -> Place]
  /\ at'[Camera] = IF iteration < CAMERA_BUFFERS THEN "captured" ELSE "free"
  /\ at'[Consumer(f)] = "callback"
  /\ \A c \in Context : c # Camera /\ c # Consumer(f) => at'[c] = at[c]
  /\ iteration' = IF iteration < CAMERA_BUFFERS THEN iteration + 1 ELSE iteration
  /\ dma' = IF iteration < CAMERA_BUFFERS THEN g ELSE dma

LEMMA ConsumeFrameEffect ==
  ASSUME FrameInv, Oldest(Resume(Camera)), ConsumeFrame(Popped(rt)),
         NEW f, f = current, NEW g, g = 1 - f,
         NEW now \in BOOLEAN, now <=> iteration >= CAMERA_BUFFERS /\ rt.done[Done(g)]
  PROVE  Consumed(f, g, now)
PROOF
  <1>1. /\ f \in Buffer /\ g \in Buffer /\ g # f /\ current' = g
        /\ Done(f) \in Event /\ Done(g) \in Event /\ Done(g) # Done(f)
        /\ Camera \in Context /\ Consumer(f) \in Context /\ Camera # Consumer(f)
    <2>1. f \in Buffer
      BY DEF FrameInv, FramesTyped, ContextsTyped
    <2>2. current' = g
      BY <2>1, Buffers DEF ConsumeFrame
    <2> QED
      BY <2>1, <2>2, Buffers, Events, Contexts
  <1>2. PICK k, e1 : k = StartConsumer(Popped(rt), f) /\ e1 = Done(g)
    OBVIOUS
  <1>3. /\ Known(k) /\ Later(Popped(rt), k) /\ Known(rt)
        /\ Queue(k) = Queue(Popped(rt)) \cup {Resume(Consumer(f))}
        /\ Resume(Consumer(f)) \notin Queue(rt)
        /\ \A e \in Event : Waiters(k, e) = Waiters(rt, e)
        /\ k.done = [rt.done EXCEPT ![Done(f)] = FALSE]
    BY <1>2, ConsumerStarted DEF FrameInv
  <1>4. /\ Queue(Popped(rt)) = Queue(rt) \ {Resume(Camera)}
        /\ rt.done \in [Event -> BOOLEAN] /\ e1 \in Event /\ Camera \in Context
    BY <1>1, <1>2, <1>3, PoppedFirst DEF Known, RunTime
  <1>5. \A e \in Event : k.done[e] <=> e # Done(f) /\ rt.done[e]
    BY <1>1, <1>3, <1>4
  <1>6. Waiters(k, e1) = {} /\ Resume(Camera) \notin Queue(k)
    BY <1>1, <1>2, <1>3, <1>4, CameraRuns, Tasks
  <1>7. PICK a : a = [at EXCEPT ![Consumer(f)] = "callback"]
    OBVIOUS
  <1>8. BeginIteration(k, g, a)
    BY <1>1, <1>2, <1>7 DEF ConsumeFrame
  <1>9. /\ a \in [Context -> Place] /\ a[Consumer(f)] = "callback"
        /\ \A c \in Context : c # Consumer(f) => a[c] = at[c]
    BY <1>1, <1>7 DEF FrameInv, FramesTyped, ContextsTyped, Place
  <1>10. iteration \in {0, 1, 2}
    BY Counts
  <1>11. CASE iteration < CAMERA_BUFFERS
    <2>1. rt' = WaitEvent(InitEvent(k, e1), e1, Camera) /\ ~now
      BY <1>2, <1>8, <1>10, <1>11 DEF BeginIteration, Capture, CAMERA_BUFFERS
    <2>2. LET after == WaitEvent(InitEvent(k, e1), e1, Camera)
          IN  /\ Known(after) /\ Queue(after) = Queue(k) /\ Later(k, after)
              /\ \A e \in Event : Waiters(after, e) = IF e = e1 THEN {Camera} ELSE Waiters(k, e)
              /\ after.done = [k.done EXCEPT ![e1] = FALSE]
      <3>1. Known(k) /\ e1 \in Event /\ Camera \in Context
        BY <1>3, <1>4
      <3> QED
        BY <3>1, KnownArmed
    <2>3. /\ Known(rt') /\ Queue(rt') = Queue(k) /\ Later(k, rt')
          /\ \A e \in Event : Waiters(rt', e) = IF e = e1 THEN {Camera} ELSE Waiters(k, e)
          /\ rt'.done = [k.done EXCEPT ![e1] = FALSE]
      BY <2>1, <2>2
    <2>4. Later(Popped(rt), rt')
      BY <1>3, <2>3, LaterTransitive
    <2>5. Queues({Resume(Camera)}, {Resume(Consumer(f))})
      BY <1>3, <1>4, <2>3, <2>4, RunQueues
    <2>6. \A e \in Event : rt'.done[e] <=> e # e1 /\ k.done[e]
      BY <1>1, <1>3, <1>4, <2>3 DEF Known, RunTime
    <2>7. /\ at' = [a EXCEPT ![Camera] = "captured"] /\ dma' = g /\ iteration' = iteration + 1
      BY <1>8, <1>11 DEF BeginIteration, Capture
    <2>8. /\ at' \in [Context -> Place] /\ at'[Camera] = "captured"
          /\ at'[Consumer(f)] = "callback"
          /\ \A c \in Context : c # Camera /\ c # Consumer(f) => at'[c] = at[c]
      BY <1>1, <1>9, <2>7 DEF Place
    <2>9. /\ \A e \in Event : Waiters(rt', e) = IF e = Done(g) THEN {Camera} ELSE Waiters(rt, e)
          /\ \A e \in Event : rt'.done[e] <=> rt.done[e] /\ e # Done(f) /\ e # Done(g)
      BY <1>2, <1>3, <1>5, <2>3, <2>6
    <2> QED
      BY <1>11, <2>1, <2>5, <2>7, <2>8, <2>9 DEF Consumed
  <1>12. CASE ~(iteration < CAMERA_BUFFERS)
    <2>1. /\ rt' = WaitEvent(k, e1, Camera) /\ at' = [a EXCEPT ![Camera] = "free"]
          /\ UNCHANGED <<dma, iteration>>
      BY <1>2, <1>8, <1>12 DEF BeginIteration
    <2>2. /\ at' \in [Context -> Place] /\ at'[Camera] = "free"
          /\ at'[Consumer(f)] = "callback"
          /\ \A c \in Context : c # Camera /\ c # Consumer(f) => at'[c] = at[c]
      BY <1>1, <1>9, <2>1 DEF Place
    <2>3. now <=> k.done[e1]
      BY <1>1, <1>2, <1>5, <1>10, <1>12 DEF CAMERA_BUFFERS
    <2>4. CASE now
      <3>1. LET after == WaitEvent(k, e1, Camera)
            IN  /\ Known(after) /\ Queue(after) = Queue(k) \cup {Resume(Camera)}
                /\ Later(k, after)
                /\ \A e \in Event : Waiters(after, e) = Waiters(k, e)
                /\ after.done = k.done
        BY <1>3, <1>4, <1>6, <2>3, <2>4, KnownWaitDone
      <3>2. /\ Known(rt') /\ Queue(rt') = Queue(k) \cup {Resume(Camera)} /\ Later(k, rt')
            /\ \A e \in Event : Waiters(rt', e) = Waiters(k, e)
            /\ rt'.done = k.done
        BY <2>1, <3>1
      <3>3. Later(Popped(rt), rt')
        BY <1>3, <3>2, LaterTransitive
      <3>4. Queues({Resume(Camera)}, {Resume(Consumer(f)), Resume(Camera)})
        <4>1. Queue(rt') = Queue(Popped(rt)) \cup {Resume(Consumer(f)), Resume(Camera)}
          BY <1>3, <3>2
        <4> QED
          BY <1>3, <1>4, <3>2, <3>3, <4>1, RunQueues
      <3>5. Before(rt', Resume(Consumer(f)), Resume(Camera))
        BY <1>3, <1>6, <3>2 DEF Later
      <3> QED
        BY <1>2, <1>3, <1>5, <1>12, <2>1, <2>2, <2>4, <3>2, <3>4, <3>5 DEF Consumed
    <2>5. CASE ~now
      <3>1. LET after == WaitEvent(k, e1, Camera)
            IN  /\ Known(after) /\ Queue(after) = Queue(k) /\ Later(k, after)
                /\ \A e \in Event : Waiters(after, e) = IF e = e1
                                      THEN Waiters(k, e) \cup {Camera} ELSE Waiters(k, e)
                /\ after.done = k.done
        BY <1>3, <1>4, <1>6, <2>3, <2>5, KnownWait
      <3>2. /\ Known(rt') /\ Queue(rt') = Queue(k) /\ Later(k, rt')
            /\ \A e \in Event : Waiters(rt', e) = IF e = e1 THEN {Camera} ELSE Waiters(k, e)
            /\ rt'.done = k.done
        BY <1>6, <2>1, <3>1
      <3>3. Later(Popped(rt), rt')
        BY <1>3, <3>2, LaterTransitive
      <3>4. Queues({Resume(Camera)}, {Resume(Consumer(f))})
        BY <1>3, <1>4, <3>2, <3>3, RunQueues
      <3> QED
        BY <1>2, <1>3, <1>5, <1>12, <2>1, <2>2, <2>5, <3>2, <3>4 DEF Consumed
    <2> QED
      BY <2>4, <2>5
  <1> QED
    BY <1>11, <1>12

LEMMA ConsumeFrameKeeps ==
  ASSUME FrameInv, Oldest(Resume(Camera)), ConsumeFrame(Popped(rt)),
         UNCHANGED <<cluster, spi, uart, camera_started, inference_args, onboard>>
  PROVE  FrameInv'
PROOF
  <1>0. PICK f0, g0, c0, e0, e1 :
          f0 = current /\ g0 = 1 - f0 /\ c0 = Consumer(f0) /\ e0 = Done(f0) /\ e1 = Done(g0)
    OBVIOUS
  <1>1. PICK now \in BOOLEAN : now <=> iteration >= CAMERA_BUFFERS /\ rt.done[e1]
    OBVIOUS
  <1>2. /\ f0 \in Buffer /\ g0 \in Buffer /\ f0 # g0 /\ \A f \in Buffer : f = f0 \/ f = g0
        /\ e0 \in Event /\ e1 \in Event /\ e0 # e1 /\ Camera \in Context /\ c0 \in Context
        /\ c0 # Camera /\ c0 # Inference
        /\ \A f \in Buffer : (Consumer(f) = c0 <=> f = f0) /\ Send(f) # c0
    <2>1. f0 \in Buffer
      BY <1>0 DEF FrameInv, FramesTyped, ContextsTyped
    <2> QED
      BY <1>0, <2>1, Buffers, Events, Contexts
  <1>3. /\ dma = NoBuffer /\ \A e \in Event : ~Waits(Camera, e) /\ ~Waits(c0, e)
        /\ \A f \in Buffer : Waiters(rt, Done(f)) = {} /\ at[Consumer(f)] # "callback"
        /\ ~onboard => \A f \in Buffer : at[Consumer(f)] # "await send"
        /\ at[c0] = "done" /\ at[Send(f0)] = "done" /\ at[Camera] = "cropped"
        /\ ~Queued(EventTask(e0)) /\ ~Queued(Resume(c0))
    <2>1. /\ dma = NoBuffer /\ \A e \in Event : ~Waits(Camera, e)
          /\ \A f \in Buffer : Waiters(rt, Done(f)) = {} /\ at[Consumer(f)] # "callback"
          /\ ~onboard => \A f \in Buffer : at[Consumer(f)] # "await send"
          /\ at[c0] = "done" /\ at[Send(f0)] = "done" /\ ~Queued(EventTask(e0))
      BY <1>0, CameraRuns
    <2>2. \A e \in Event : ~Waits(c0, e) /\ ~Queued(Resume(c0))
      BY <1>2, <2>1 DEF FrameInv, ContextsPlaced, Placed, Awaits
    <2> QED
      BY <1>2, <2>1, <2>2 DEF ConsumeFrame
  <1>4. /\ Queues({Resume(Camera)}, IF now THEN {Resume(c0), Resume(Camera)} ELSE {Resume(c0)})
        /\ now => Before(rt', Resume(c0), Resume(Camera))
        /\ \A e \in Event : Waiters(rt', e) = IF ~now /\ e = e1 THEN {Camera} ELSE Waiters(rt, e)
        /\ \A e \in Event :
             rt'.done[e] <=> rt.done[e] /\ e # e0 /\ (iteration < CAMERA_BUFFERS => e # e1)
        /\ at' \in [Context -> Place]
        /\ at'[Camera] = IF iteration < CAMERA_BUFFERS THEN "captured" ELSE "free"
        /\ at'[c0] = "callback"
        /\ \A c \in Context : c # Camera /\ c # c0 => at'[c] = at[c]
        /\ iteration' = IF iteration < CAMERA_BUFFERS THEN iteration + 1 ELSE iteration
        /\ dma' = IF iteration < CAMERA_BUFFERS THEN g0 ELSE dma
    BY <1>0, <1>1, ConsumeFrameEffect DEF Consumed
  <1>5. /\ current' = g0 /\ ~failed' /\ unsent' = unsent
    BY <1>0, <1>2, <1>3, Buffers DEF ConsumeFrame, Runs
  <1>6. /\ Known(rt')
        /\ \A c \in Context : c # Camera /\ c # c0 =>
             /\ Queued(Resume(c))' <=> Queued(Resume(c))
             /\ \A e \in Event : Waits(c, e)' <=> Waits(c, e)
        /\ Queued(Resume(Camera))' <=> now
        /\ \A e \in Event : Waits(Camera, e)' <=> ~now /\ e = e1
        /\ Queued(Resume(c0))'
        /\ \A e \in Event : ~Waits(c0, e)'
        /\ \A e : Queued(EventTask(e))' <=> Queued(EventTask(e))
        /\ \A a, b : Before(rt, a, b) /\ a # Resume(Camera) => Before(rt', a, b)
    <2>1. Waiters(rt, e1) = {}
      BY <1>0, <1>2, <1>3
    <2> QED
      BY <1>2, <1>3, <1>4, <2>1, Tasks DEF Queues, Queued, Waits
  <1>7. /\ \A f \in Buffer :
             /\ at'[Send(f)] = at[Send(f)]
             /\ \A e \in Event : Waits(Send(f), e)' <=> Waits(Send(f), e)
        /\ at'[Consumer(g0)] = at[Consumer(g0)]
        /\ Queued(Resume(Consumer(g0)))' <=> Queued(Resume(Consumer(g0)))
        /\ \A e \in Event : Waits(Consumer(g0), e)' <=> Waits(Consumer(g0), e)
        /\ at'[Inference] = at[Inference]
        /\ \A e \in Event : Waits(Inference, e)' <=> Waits(Inference, e)
    BY <1>2, <1>4, <1>6, Contexts
  <1>8. /\ iteration \in {0, 1, 2} /\ iteration # 0 /\ iteration' \in {1, 2}
        /\ iteration < CAMERA_BUFFERS => f0 = 0 /\ g0 = 1 /\ iteration = 1
        /\ iteration' = 2 /\ (now <=> iteration >= CAMERA_BUFFERS /\ rt.done[e1])
    <2>1. iteration \in {0, 1, 2} /\ CAMERA_BUFFERS = 2
      BY Counts, Buffers
    <2>2. iteration # 0 /\ (iteration < CAMERA_BUFFERS => f0 = 0)
      BY <1>0, <1>3 DEF FrameInv, FirstCaptures
    <2> QED
      BY <1>0, <1>1, <1>4, <2>1, <2>2
  <1>9. iteration < CAMERA_BUFFERS => at[Consumer(g0)] = "done" /\ ~Queued(EventTask(e1))
    <2>1. iteration < CAMERA_BUFFERS => g0 >= iteration
      BY <1>8
    <2> QED
      BY <1>0, <1>2, <2>1 DEF FrameInv, FirstCaptures
  <1>10. FramesTyped'
    <2>1. unsent' \in Seq(Buffer)
      BY <1>5 DEF FrameInv, FramesTyped, ContextsTyped
    <2>2. iteration' \in 0 .. CAMERA_BUFFERS
      BY <1>8, Buffers
    <2>3. \A f \in Buffer :
            /\ at'[Consumer(f)] \in {"done", "crop", "callback", "await inference", "await send",
                                     "sent", "released"}
            /\ at'[Send(f)] \in {"done", "send", "sending"}
      BY <1>0, <1>2, <1>4, <1>7 DEF FrameInv, FramesTyped, ContextsTyped
    <2>4. ContextsTyped'
      BY <1>2, <1>4, <1>5, <1>7, <2>1, <2>2, <2>3 DEF FrameInv, FramesTyped, ContextsTyped
    <2>5. DevicesTyped'
      BY <1>2, <1>4 DEF FrameInv, FramesTyped, DevicesTyped
    <2> QED
      BY <2>4, <2>5 DEF FramesTyped
  <1>11. EventsQuiet'
    <2> SUFFICES ASSUME NEW e \in Event, rt'.done[e]
                 PROVE  Quiet(e)'
      BY DEF EventsQuiet
    <2>1. rt.done[e] /\ (e = e1 => now)
      BY <1>1, <1>4, <1>8, Buffers
    <2>2. Quiet(e)
      BY <2>1 DEF FrameInv, EventsQuiet
    <2> QED
      BY <1>4, <1>6, <2>1, <2>2 DEF Quiet
  <1>12. ContextsPlaced'
    <2> SUFFICES ASSUME NEW c \in Context
                 PROVE  Placed(c)'
      BY DEF ContextsPlaced
    <2>1. Placed(c)
      BY DEF FrameInv, ContextsPlaced
    <2>2. CASE c = Camera
      BY <1>0, <1>2, <1>4, <1>5, <1>6, <2>2 DEF Placed, Awaits
    <2>3. CASE c = c0
      BY <1>4, <1>6, <2>3 DEF Placed
    <2>4. CASE c # Camera /\ c # c0
      <3>1. at[c] \notin {"free", "captured", "cropped"}
        BY <2>4, Contexts DEF FrameInv, FramesTyped, ContextsTyped
      <3> QED
        BY <1>4, <1>6, <2>1, <2>4, <3>1 DEF Placed, Awaits
    <2> QED
      BY <2>2, <2>3, <2>4
  <1>13. FirstCaptures'
    <2>1. \A f \in Buffer : ~(f >= iteration')
      BY <1>8, Buffers
    <2> QED
      BY <1>4, <1>8, <2>1, Buffers DEF FirstCaptures
  <1>14. CameraAlone'
    <2>1. at[Consumer(g0)] # "crop"
      BY <1>0, <1>2, <1>3 DEF FrameInv, CameraAlone
    <2>2. at[Consumer(g0)] # "done" => ~rt.done[e1] /\ ~Queued(EventTask(e1))
      BY <1>0, <1>2 DEF FrameInv, CameraAlone
    <2>3. now => at[Consumer(g0)] = "done" /\ ~Queued(EventTask(e1))
      BY <1>2, <1>8, <2>2 DEF FrameInv, EventsQuiet, Quiet
    <2>4. \A f \in Buffer :
            at'[Consumer(f)] # "done" => ~rt'.done[Done(f)] /\ ~Queued(EventTask(Done(f)))'
      BY <1>0, <1>2, <1>3, <1>4, <1>6, <1>7, <2>2
    <2>5. \A f \in Buffer : at'[Consumer(f)] # "crop"
      BY <1>0, <1>2, <1>4, <1>7, <2>1
    <2>6. dma' # NoBuffer => iteration < CAMERA_BUFFERS
      BY <1>3, <1>4
    <2>7. /\ at'[Camera] = "captured" => iteration < CAMERA_BUFFERS
          /\ at'[Camera] # "cropped"
          /\ iteration < CAMERA_BUFFERS => ~now
      BY <1>4, <1>8, Buffers
    <2>8. dma' # NoBuffer => /\ dma' = g0 /\ at'[Camera] = "captured"
                             /\ Waits(Camera, e1)' /\ ~Queued(EventTask(e1))'
      BY <1>2, <1>4, <1>6, <1>9, <2>6, <2>7
    <2>9. Queued(Resume(Camera))' => at'[Consumer(g0)] = "done" /\ ~Queued(EventTask(e1))'
      BY <1>6, <1>7, <2>3
    <2>10. at'[Camera] = "captured" => at'[Consumer(g0)] = "done"
      BY <1>7, <1>9, <2>7
    <2>11. current' = g0 /\ e1 = Done(g0)
      BY <1>0, <1>5
    <2> QED
      BY <2>4, <2>5, <2>7, <2>8, <2>9, <2>10, <2>11 DEF CameraAlone
  <1>15. CallbackFirst'
    <2>1. \A f \in Buffer : at'[Consumer(f)] = "callback" => f = f0
      BY <1>0, <1>2, <1>3, <1>7
    <2>2. ~(at'[Camera] = "captured" /\ Queued(EventTask(e1))')
      BY <1>4, <1>6, <1>9
    <2> QED
      BY <1>0, <1>2, <1>4, <1>5, <1>6, <2>1, <2>2 DEF CallbackFirst
  <1>16. /\ {streamer_tx_done, inference_done, frame_done, network_done, cpx_done} \subseteq Event
         /\ e0 \notin {streamer_tx_done, inference_done, frame_done, network_done, cpx_done}
         /\ e1 \notin {streamer_tx_done, inference_done, frame_done, network_done, cpx_done}
    BY <1>0, Events
  <1>17. \A e \in {streamer_tx_done, inference_done, frame_done, network_done, cpx_done} :
           rt'.done[e] <=> rt.done[e]
    BY <1>4, <1>16
  <1>18. OneSend'
    <2>1. \A f \in Buffer : SentWaiting(f)' <=> SentWaiting(f)
      BY <1>0, <1>2, <1>3, <1>4, <1>7, <1>16 DEF SentWaiting
    <2>2. \A f \in Buffer :
            at'[Consumer(f)] \in {"await inference", "await send", "sent", "released"} => camera_started
      BY <1>0, <1>2, <1>4, <1>7 DEF FrameInv, OneSend
    <2> QED
      BY <1>6, <1>7, <1>16, <1>17, <2>1, <2>2 DEF FrameInv, OneSend
  <1>19. OneInference'
    <2>1. \A f \in Buffer : at'[Consumer(f)] \in {"await inference", "released"} => onboard
      BY <1>0, <1>2, <1>4, <1>7 DEF FrameInv, OneInference
    <2> QED
      BY <1>6, <1>7, <1>16, <1>17, <2>1 DEF FrameInv, OneInference, Inferring
  <1>20. InputReturned'
    <2>1. InputUnread' <=> InputUnread
      BY <1>7 DEF InputUnread
    <2>2. Inferring' <=> Inferring
      BY <1>7, <1>16 DEF Inferring
    <2>3. EventTask(frame_done) # Resume(Camera)
      BY Tasks
    <2>4. \A f \in Buffer : at[Consumer(f)] \in {"sent", "released"} =>
            /\ at'[Consumer(f)] = at[Consumer(f)]
            /\ Waits(Consumer(f), frame_done)' <=> Waits(Consumer(f), frame_done)
      BY <1>0, <1>2, <1>3, <1>7, <1>16
    <2> QED
      BY <1>6, <1>17, <2>1, <2>2, <2>3, <2>4 DEF FrameInv, InputReturned, HoldsInput
  <1>21. AwaitSendNext'
    <2>1. \A g \in Buffer : at'[Consumer(g)] # "await send"
      BY <1>0, <1>2, <1>3, <1>4, <1>7 DEF FrameInv, AwaitSendNext
    <2> QED
      BY <2>1 DEF AwaitSendNext
  <1>22. UnsentKnown'
    <2>1. \A f \in Buffer : Unsent(f)' <=> Unsent(f)
      BY <1>0, <1>2, <1>3, <1>4, <1>5, <1>7 DEF Unsent
    <2> QED
      BY <1>5, <1>7, <2>1, UnsentStays
  <1> QED
    BY <1>5, <1>6, <1>10, <1>11, <1>12, <1>13, <1>14, <1>15, <1>18, <1>19, <1>20, <1>21, <1>22
       DEF FrameInv
------------------------------------------------------------------------------
(* A step of a coroutine other than camera_task: c0 goes on to p, pushes new, waits *)
(* for the events of es, and initialises those of off.                              *)

Moves(c0, p, new, es, off) ==
  /\ Oldest(Resume(c0))
  /\ Queues({Resume(c0)}, new)
  /\ \A e \in Event : Waiters(rt', e) = IF e \in es THEN Waiters(rt, e) \cup {c0} ELSE Waiters(rt, e)
  /\ \A e \in Event : rt'.done[e] <=> rt.done[e] /\ e \notin off
  /\ at' = [at EXCEPT ![c0] = p]

\* The task of a context is queued again.
LEMMA Requeues ==
  ASSUME FrameInv, NEW c0 \in Context, Oldest(Resume(c0)), NEW p, at' = [at EXCEPT ![c0] = p],
         rt' = PushResume(Popped(rt), c0)
  PROVE  Moves(c0, p, {Resume(c0)}, {}, {})
PROOF
  <1>0. PICK k : k = Popped(rt)
    OBVIOUS
  <1>1. /\ Known(k) /\ Known(rt) /\ Queue(k) = Queue(rt) \ {Resume(c0)}
        /\ \A e \in Event : Waiters(k, e) = Waiters(rt, e)
        /\ k.done = rt.done
    BY <1>0, PoppedFirst DEF FrameInv
  <1>2. Resume(c0) \in Task /\ Resume(c0) \notin Queue(k)
    BY <1>1, Tasks
  <1>3. rt' = PushTask(k, Resume(c0))
    BY <1>0 DEF PushResume
  <1>4. /\ Known(rt') /\ Queue(rt') = Queue(k) \cup {Resume(c0)} /\ Later(k, rt')
        /\ \A e \in Event : Waiters(rt', e) = Waiters(k, e)
        /\ rt'.done = k.done
    BY <1>1, <1>2, <1>3, KnownPushed
  <1>5. Queues({Resume(c0)}, {Resume(c0)})
    BY <1>0, <1>1, <1>2, <1>4, RunQueues
  <1> QED
    BY <1>1, <1>4, <1>5 DEF Moves

\* It returns, or ends, and pushes an event.
LEMMA Pushes ==
  ASSUME ~DoneAtPush, FrameInv, NEW c0 \in Context, Oldest(Resume(c0)),
         NEW p, at' = [at EXCEPT ![c0] = p],
         NEW e0 \in Event, ~Queued(EventTask(e0)), rt' = PushEvent(Popped(rt), e0)
  PROVE  Moves(c0, p, {EventTask(e0)}, {}, {})
PROOF
  <1>0. PICK k : k = Popped(rt)
    OBVIOUS
  <1>1. /\ Known(k) /\ Known(rt) /\ Queue(k) = Queue(rt) \ {Resume(c0)}
        /\ \A e \in Event : Waiters(k, e) = Waiters(rt, e)
        /\ k.done = rt.done
    BY <1>0, PoppedFirst DEF FrameInv
  <1>2. EventTask(e0) \notin Queue(k)
    BY <1>1 DEF Queued
  <1>3. /\ Known(rt') /\ Queue(rt') = Queue(k) \cup {EventTask(e0)} /\ Later(k, rt')
        /\ \A e \in Event : Waiters(rt', e) = Waiters(k, e)
        /\ rt'.done = k.done
    BY <1>0, <1>1, <1>2, KnownPushEvent
  <1>4. Queues({Resume(c0)}, {EventTask(e0)})
    BY <1>0, <1>1, <1>2, <1>3, RunQueues
  <1> QED
    BY <1>1, <1>3, <1>4 DEF Moves

\* CO_WAIT
LEMMA WaitsFor ==
  ASSUME FrameInv, NEW c0 \in Context, Oldest(Resume(c0)), NEW p, at' = [at EXCEPT ![c0] = p],
         NEW e0 \in Event, rt' = WaitEvent(Popped(rt), e0, c0)
  PROVE  IF rt.done[e0] THEN Moves(c0, p, {Resume(c0)}, {}, {}) ELSE Moves(c0, p, {}, {e0}, {})
PROOF
  <1>0. PICK k : k = Popped(rt)
    OBVIOUS
  <1>1. /\ Known(k) /\ Known(rt) /\ Queue(k) = Queue(rt) \ {Resume(c0)}
        /\ \A e \in Event : Waiters(k, e) = Waiters(rt, e)
        /\ k.done = rt.done
    BY <1>0, PoppedFirst DEF FrameInv
  <1>2. Resume(c0) \notin Queue(k) /\ c0 \notin Waiters(k, e0)
    BY <1>1, RunsAlone DEF Waits
  <1>3. rt' = WaitEvent(k, e0, c0)
    BY <1>0
  <1>4. CASE rt.done[e0]
    <2>1. k.done[e0] /\ Waiters(k, e0) = {}
      BY <1>1, <1>4 DEF FrameInv, EventsQuiet, Quiet
    <2>2. /\ Known(rt') /\ Queue(rt') = Queue(k) \cup {Resume(c0)} /\ Later(k, rt')
          /\ \A e \in Event : Waiters(rt', e) = Waiters(k, e)
          /\ rt'.done = k.done
      BY <1>1, <1>2, <1>3, <2>1, KnownWaitDone
    <2>3. Queues({Resume(c0)}, {Resume(c0)})
      BY <1>0, <1>1, <1>2, <2>2, RunQueues
    <2> QED
      BY <1>1, <1>4, <2>2, <2>3 DEF Moves
  <1>5. CASE ~rt.done[e0]
    <2>1. ~k.done[e0]
      BY <1>1, <1>5
    <2>2. /\ Known(rt') /\ Queue(rt') = Queue(k) /\ Later(k, rt')
          /\ \A e \in Event :
               Waiters(rt', e) = IF e = e0 THEN Waiters(k, e) \cup {c0} ELSE Waiters(k, e)
          /\ rt'.done = k.done
      BY <1>1, <1>2, <1>3, <2>1, KnownWait
    <2>3. Queues({Resume(c0)}, {})
      BY <1>0, <1>1, <2>2, RunQueues
    <2> QED
      BY <1>1, <1>5, <2>2, <2>3 DEF Moves
  <1> QED
    BY <1>4, <1>5

\* An operation is started with an event, and waited for.
LEMMA Arms ==
  ASSUME FrameInv, NEW c0 \in Context, Oldest(Resume(c0)), NEW p, at' = [at EXCEPT ![c0] = p],
         NEW e0 \in Event, Waiters(rt, e0) = {},
         rt' = WaitEvent(InitEvent(Popped(rt), e0), e0, c0)
  PROVE  Moves(c0, p, {}, {e0}, {e0})
PROOF
  <1>0. PICK k : k = Popped(rt)
    OBVIOUS
  <1>1. /\ Known(k) /\ Known(rt) /\ Queue(k) = Queue(rt) \ {Resume(c0)}
        /\ \A e \in Event : Waiters(k, e) = Waiters(rt, e)
        /\ k.done = rt.done
    BY <1>0, PoppedFirst DEF FrameInv
  <1>2. LET after == WaitEvent(InitEvent(k, e0), e0, c0)
        IN  /\ Known(after) /\ Queue(after) = Queue(k) /\ Later(k, after)
            /\ \A e \in Event : Waiters(after, e) = IF e = e0 THEN {c0} ELSE Waiters(k, e)
            /\ after.done = [k.done EXCEPT ![e0] = FALSE]
    BY <1>1, KnownArmed
  <1>3. /\ Known(rt') /\ Queue(rt') = Queue(k) /\ Later(k, rt')
        /\ \A e \in Event : Waiters(rt', e) = IF e = e0 THEN {c0} ELSE Waiters(k, e)
        /\ rt'.done = [k.done EXCEPT ![e0] = FALSE]
    BY <1>0, <1>2
  <1>4. Queues({Resume(c0)}, {})
    BY <1>0, <1>1, <1>3, RunQueues
  <1>5. \A e \in Event : rt'.done[e] <=> rt.done[e] /\ e # e0
    BY <1>1, <1>3 DEF Known, RunTime
  <1> QED
    BY <1>1, <1>3, <1>4, <1>5 DEF Moves

LEMMA MovesEffect ==
  ASSUME FrameInv, NEW c0 \in Context, NEW p \in Place, NEW new, NEW es, NEW off,
         Moves(c0, p, new, es, off), UNCHANGED current, c0 # Camera,
         IF p = "done" THEN Resume(c0) \notin new /\ es = {}
                       ELSE Resume(c0) \in new \/ \E e \in es : e \in Event,
         \A c : Resume(c) \in new => c = c0 /\ es = {},
         \A e \in Event : EventTask(e) \in new => ~rt.done[e],
         \A e \in Event : e \in es => Awaits(c0, e)' /\ ~rt'.done[e]
  PROVE  /\ Known(rt') /\ EventsQuiet' /\ ContextsPlaced'
         /\ at'[c0] = p /\ at' \in [Context -> Place] /\ \A c \in Context : c # c0 => at'[c] = at[c]
         /\ \A c \in Context : c # c0 =>
              /\ Queued(Resume(c))' <=> Queued(Resume(c))
              /\ \A e \in Event : Waits(c, e)' <=> Waits(c, e)
         /\ Queued(Resume(c0)) /\ (Queued(Resume(c0))' <=> Resume(c0) \in new)
         /\ \A e \in Event : ~Waits(c0, e) /\ (Waits(c0, e)' <=> e \in es)
         /\ \A e : Queued(EventTask(e))' <=> Queued(EventTask(e)) \/ EventTask(e) \in new
         /\ \A a, b : Before(rt, a, b) => b # Resume(c0) /\ (a # Resume(c0) => Before(rt', a, b))
         /\ \A a, b : Queued(a) /\ a # Resume(c0) /\ b \in new => Before(rt', a, b)
PROOF
  <1>1. Queued(Resume(c0)) /\ \A e \in Event : ~Waits(c0, e)
    BY PoppedFirst, RunsAlone DEF FrameInv, Moves
  <1>2. /\ Known(rt')
        /\ \A x : Queued(x)' <=> x \in new \/ (Queued(x) /\ x # Resume(c0))
        /\ \A a, b : Before(rt, a, b) => b # Resume(c0) /\ (a # Resume(c0) => Before(rt', a, b))
        /\ \A a, b : Queued(a) /\ a # Resume(c0) /\ b \in new => Before(rt', a, b)
    BY DEF Moves, Queues, Queued
  <1>3. at'[c0] = p /\ at' \in [Context -> Place] /\ \A c \in Context : c # c0 => at'[c] = at[c]
    BY DEF Moves, FrameInv, FramesTyped, ContextsTyped
  <1>4. \A c \in Context : c # c0 =>
          /\ Queued(Resume(c))' <=> Queued(Resume(c))
          /\ \A e \in Event : Waits(c, e)' <=> Waits(c, e)
    BY <1>2, Tasks DEF Moves, Waits
  <1>5. /\ Queued(Resume(c0))' <=> Resume(c0) \in new
        /\ \A e \in Event : Waits(c0, e)' <=> e \in es
    BY <1>1, <1>2 DEF Moves, Waits
  <1>6. \A e : Queued(EventTask(e))' <=> Queued(EventTask(e)) \/ EventTask(e) \in new
    BY <1>2, Tasks
  <1>7. EventsQuiet'
    <2> SUFFICES ASSUME NEW e \in Event, rt'.done[e]
                 PROVE  Quiet(e)'
      BY DEF EventsQuiet
    <2>1. rt.done[e] /\ e \notin es
      BY DEF Moves
    <2>2. Quiet(e) /\ EventTask(e) \notin new
      BY <2>1 DEF FrameInv, EventsQuiet
    <2>3. Waiters(rt', e) = Waiters(rt, e)
      BY <2>1 DEF Moves
    <2> QED
      BY <1>6, <2>2, <2>3 DEF Quiet
  <1>8. ContextsPlaced'
    <2> SUFFICES ASSUME NEW c \in Context
                 PROVE  Placed(c)'
      BY DEF ContextsPlaced
    <2>1. CASE c = c0
      BY <1>3, <1>5, <2>1 DEF Placed
    <2>2. CASE c # c0
      <3>1. Placed(c)
        BY DEF FrameInv, ContextsPlaced
      <3> QED
        BY <1>3, <1>4, <2>2, <3>1 DEF Placed, Awaits
    <2> QED
      BY <2>1, <2>2
  <1> QED
    BY <1>1, <1>2, <1>3, <1>4, <1>5, <1>6, <1>7, <1>8

LEMMA TypedStays ==
  ASSUME FrameInv, at' \in [Context -> Place],
         UNCHANGED <<iteration, current, dma, onboard>>, at'[Camera] = at[Camera],
         \A f \in Buffer :
           /\ at'[Consumer(f)] \in {"done", "crop", "callback", "await inference", "await send",
                                    "sent", "released"}
           /\ at'[Send(f)] \in {"done", "send", "sending"},
         at'[Inference] \in {"done", "input", "network", "uart"},
         unsent' \in Seq(Buffer),
         {camera_started', spi', uart'} \subseteq BOOLEAN,
         cluster' \in [phase : {"idle", "layer 0", "layers"}, input : Buffer \cup {NoBuffer}]
  PROVE  FramesTyped'
PROOF
  <1>1. ContextsTyped'
    BY DEF FrameInv, FramesTyped, ContextsTyped
  <1>2. DevicesTyped'
    BY DEF FrameInv, FramesTyped, DevicesTyped
  <1> QED
    BY <1>1, <1>2 DEF FramesTyped

\* The types of all that a step of a consumer leaves alone
LEMMA ConsumerTyped ==
  ASSUME FrameInv, NEW f0 \in Buffer, at' \in [Context -> Place],
         \A c \in Context : c # Consumer(f0) => at'[c] = at[c],
         at'[Consumer(f0)] \in {"done", "crop", "callback", "await inference", "await send",
                                "sent", "released"},
         UNCHANGED <<camera, devices, camera_started, unsent, onboard>>
  PROVE  FramesTyped'
PROOF
  <1>1. /\ UNCHANGED <<iteration, current, dma, onboard>>
        /\ unsent' = unsent /\ camera_started' = camera_started
        /\ spi' = spi /\ uart' = uart /\ cluster' = cluster
    BY DEF camera, devices
  <1>2. /\ at'[Camera] = at[Camera] /\ at'[Inference] = at[Inference]
        /\ \A f \in Buffer : /\ at'[Send(f)] = at[Send(f)]
                             /\ f # f0 => at'[Consumer(f)] = at[Consumer(f)]
    BY Contexts
  <1>3. /\ \A f \in Buffer :
             /\ at'[Consumer(f)] \in {"done", "crop", "callback", "await inference", "await send",
                                      "sent", "released"}
             /\ at'[Send(f)] \in {"done", "send", "sending"}
        /\ at'[Inference] \in {"done", "input", "network", "uart"}
        /\ unsent' \in Seq(Buffer)
    BY <1>1, <1>2 DEF FrameInv, FramesTyped, ContextsTyped
  <1>4. /\ {camera_started', spi', uart'} \subseteq BOOLEAN
        /\ cluster' \in [phase : {"idle", "layer 0", "layers"}, input : Buffer \cup {NoBuffer}]
    BY <1>1 DEF FrameInv, FramesTyped, DevicesTyped
  <1> QED
    BY <1>1, <1>2, <1>3, <1>4, TypedStays

\* A step that ends in a wait, or in a push
LEMMA WaitMoves ==
  ASSUME FrameInv, NEW c0 \in Context, NEW p \in Place, NEW e0 \in Event, NEW off,
         Moves(c0, p, {}, {e0}, off), UNCHANGED current, c0 # Camera, p # "done",
         Awaits(c0, e0)', ~rt'.done[e0]
  PROVE  /\ Known(rt') /\ EventsQuiet' /\ ContextsPlaced'
         /\ at'[c0] = p /\ at' \in [Context -> Place] /\ \A c \in Context : c # c0 => at'[c] = at[c]
         /\ \A c \in Context : c # c0 =>
              /\ Queued(Resume(c))' <=> Queued(Resume(c))
              /\ \A e \in Event : Waits(c, e)' <=> Waits(c, e)
         /\ ~Queued(Resume(c0))' /\ Waits(c0, e0)' /\ \A e \in Event : ~Waits(c0, e)
         /\ \A e : Queued(EventTask(e))' <=> Queued(EventTask(e))
         /\ \A a, b : Before(rt, a, b) => b # Resume(c0) /\ (a # Resume(c0) => Before(rt', a, b))
PROOF
  <1>1. /\ IF p = "done" THEN Resume(c0) \notin {} /\ {e0} = {}
                         ELSE Resume(c0) \in {} \/ \E e \in {e0} : e \in Event
        /\ \A c : Resume(c) \in {} => c = c0 /\ {e0} = {}
        /\ \A e \in Event : EventTask(e) \in {} => ~rt.done[e]
        /\ \A e \in Event : e \in {e0} => Awaits(c0, e)' /\ ~rt'.done[e]
    OBVIOUS
  <1>2. /\ Known(rt') /\ EventsQuiet' /\ ContextsPlaced'
        /\ at'[c0] = p /\ at' \in [Context -> Place] /\ \A c \in Context : c # c0 => at'[c] = at[c]
        /\ \A c \in Context : c # c0 =>
             /\ Queued(Resume(c))' <=> Queued(Resume(c))
             /\ \A e \in Event : Waits(c, e)' <=> Waits(c, e)
        /\ Queued(Resume(c0)) /\ (Queued(Resume(c0))' <=> Resume(c0) \in {})
        /\ \A e \in Event : ~Waits(c0, e) /\ (Waits(c0, e)' <=> e \in {e0})
        /\ \A e : Queued(EventTask(e))' <=> Queued(EventTask(e)) \/ EventTask(e) \in {}
        /\ \A a, b : Before(rt, a, b) => b # Resume(c0) /\ (a # Resume(c0) => Before(rt', a, b))
    BY <1>1, MovesEffect
  <1> QED
    BY <1>2

LEMMA PushMoves ==
  ASSUME FrameInv, NEW c0 \in Context, NEW e0 \in Event,
         Moves(c0, "done", {EventTask(e0)}, {}, {}), UNCHANGED current, c0 # Camera, ~rt.done[e0]
  PROVE  /\ Known(rt') /\ EventsQuiet' /\ ContextsPlaced'
         /\ at'[c0] = "done" /\ at' \in [Context -> Place]
         /\ \A c \in Context : c # c0 => at'[c] = at[c]
         /\ \A c \in Context : c # c0 =>
              /\ Queued(Resume(c))' <=> Queued(Resume(c))
              /\ \A e \in Event : Waits(c, e)' <=> Waits(c, e)
         /\ \A e \in Event : ~Waits(c0, e) /\ ~Waits(c0, e)'
         /\ \A e : Queued(EventTask(e))' <=> Queued(EventTask(e)) \/ e = e0
         /\ \A a, b : Before(rt, a, b) => b # Resume(c0) /\ (a # Resume(c0) => Before(rt', a, b))
         /\ \A a : Queued(a) /\ a # Resume(c0) => Before(rt', a, EventTask(e0))
         /\ \A e \in Event : rt'.done[e] <=> rt.done[e]
PROOF
  <1>1. /\ Resume(c0) \notin {EventTask(e0)} /\ "done" \in Place
        /\ \A c : Resume(c) \notin {EventTask(e0)}
        /\ \A e \in Event : EventTask(e) \in {EventTask(e0)} => ~rt.done[e]
    BY Tasks DEF Place
  <1>2. /\ Known(rt') /\ EventsQuiet' /\ ContextsPlaced'
        /\ at'[c0] = "done" /\ at' \in [Context -> Place]
        /\ \A c \in Context : c # c0 => at'[c] = at[c]
        /\ \A c \in Context : c # c0 =>
             /\ Queued(Resume(c))' <=> Queued(Resume(c))
             /\ \A e \in Event : Waits(c, e)' <=> Waits(c, e)
        /\ \A e \in Event : ~Waits(c0, e) /\ (Waits(c0, e)' <=> e \in {})
        /\ \A e : Queued(EventTask(e))' <=> Queued(EventTask(e)) \/ EventTask(e) \in {EventTask(e0)}
        /\ \A a, b : Before(rt, a, b) => b # Resume(c0) /\ (a # Resume(c0) => Before(rt', a, b))
        /\ \A a, b : Queued(a) /\ a # Resume(c0) /\ b \in {EventTask(e0)} => Before(rt', a, b)
    BY <1>1, MovesEffect
  <1>3. \A e \in Event : rt'.done[e] <=> rt.done[e]
    BY DEF Moves
  <1> QED
    BY <1>2, <1>3, Tasks
------------------------------------------------------------------------------
(* Each step keeps the invariant: camera_crop_task and camera_callback *)

LEMMA Cropped ==
  ASSUME FrameInv, NEW f \in Buffer, at[Consumer(f)] = "crop"
  PROVE  /\ f = current /\ at[Camera] = "cropped" /\ ~Queued(Resume(Camera))
         /\ dma = NoBuffer /\ ~rt.done[Done(f)] /\ ~Queued(EventTask(Done(f)))
         /\ \A g \in Buffer : at[Consumer(g)] \notin {"callback", "await send"}
         /\ f < iteration
PROOF
  <1>1. /\ f = current /\ at[Camera] = "cropped"
        /\ dma = NoBuffer /\ ~rt.done[Done(f)] /\ ~Queued(EventTask(Done(f)))
        /\ ~Queued(Resume(Camera))
    BY DEF FrameInv, CameraAlone
  <1>2. \A g \in Buffer : at[Consumer(g)] # "callback"
    BY <1>1 DEF FrameInv, CallbackFirst
  <1>3. \A g \in Buffer : at[Consumer(g)] # "await send"
    <2> SUFFICES ASSUME NEW g \in Buffer, at[Consumer(g)] = "await send"
                 PROVE  FALSE
      OBVIOUS
    <2>1. f # g
      OBVIOUS
    <2>2. onboard => at[Consumer(f)] \in {"sent", "released"}
      BY <2>1 DEF FrameInv, AwaitSendNext
    <2>3. ~onboard => at[Camera] = "free"
      BY <2>1 DEF FrameInv, AwaitSendNext
    <2> QED
      BY <1>1, <2>2, <2>3
  <1>4. f < iteration
    <2>1. ~(f >= iteration)
      BY DEF FrameInv, FirstCaptures
    <2> QED
      BY <1>1, <2>1, Counts
  <1> QED
    BY <1>1, <1>2, <1>3, <1>4

LEMMA CropTaskKeeps ==
  ASSUME FrameInv, NEW f0 \in Buffer, Oldest(Resume(Consumer(f0))), CropTask(Popped(rt), f0),
         UNCHANGED onboard
  PROVE  FrameInv'
PROOF
  <1>0. PICK c0 : c0 = Consumer(f0)
    OBVIOUS
  <1>1. /\ c0 \in Context /\ c0 # Camera /\ c0 # Inference
        /\ \A f \in Buffer : (Consumer(f) = c0 <=> f = f0) /\ Send(f) # c0
        /\ at[c0] = "crop" /\ at' = at /\ rt' = PushResume(Popped(rt), c0)
        /\ UNCHANGED <<iteration, current, dma, cluster, spi, uart, camera_started, inference_args,
                       unsent, failed, onboard>>
    BY <1>0, Contexts DEF CropTask, camera, devices
  <1>2. /\ \A g \in Buffer : at[Consumer(g)] \notin {"callback", "await send"}
    BY <1>0, <1>1, Cropped
  <1>3. Moves(c0, "crop", {Resume(c0)}, {}, {})
    <2>1. at' = [at EXCEPT ![c0] = "crop"]
      BY <1>1 DEF FrameInv, FramesTyped, ContextsTyped
    <2> QED
      BY <1>0, <1>1, <2>1, Requeues
  <1>4. /\ Known(rt') /\ EventsQuiet' /\ ContextsPlaced'
        /\ at' \in [Context -> Place]
        /\ \A c \in Context : c # c0 => (Queued(Resume(c))' <=> Queued(Resume(c)))
        /\ \A c \in Context, e \in Event : Waits(c, e)' <=> Waits(c, e)
        /\ \A e \in Event : Queued(EventTask(e))' <=> Queued(EventTask(e))
        /\ \A a, b : Before(rt, a, b) /\ a # Resume(c0) => Before(rt', a, b)
        /\ \A e \in Event : rt'.done[e] <=> rt.done[e]
    <2>1. "crop" \in Place /\ "crop" # "done" /\ \A c, e : Resume(c) # EventTask(e)
      BY Tasks DEF Place
    <2>2. \A c : Resume(c) \in {Resume(c0)} => c = c0
      BY Tasks
    <2>3. /\ Known(rt') /\ EventsQuiet' /\ ContextsPlaced'
          /\ at' \in [Context -> Place]
          /\ \A c \in Context : c # c0 =>
               /\ Queued(Resume(c))' <=> Queued(Resume(c))
               /\ \A e \in Event : Waits(c, e)' <=> Waits(c, e)
          /\ \A e \in Event : ~Waits(c0, e) /\ (Waits(c0, e)' <=> e \in {})
          /\ \A e : Queued(EventTask(e))' <=> Queued(EventTask(e)) \/ EventTask(e) \in {Resume(c0)}
          /\ \A a, b : Before(rt, a, b) => b # Resume(c0) /\ (a # Resume(c0) => Before(rt', a, b))
      BY <1>1, <1>3, <2>1, <2>2, MovesEffect
    <2>4. \A e \in Event : rt'.done[e] <=> rt.done[e]
      BY <1>3 DEF Moves
    <2> QED
      BY <2>1, <2>3, <2>4
  <1>5. FramesTyped'
    BY <1>0, <1>1, <1>4, ConsumerTyped DEF camera, devices
  <1>6. /\ Camera \in Context /\ Inference \in Context
        /\ \A f \in Buffer : Consumer(f) \in Context /\ Send(f) \in Context /\ Done(f) \in Event
        /\ {streamer_tx_done, inference_done, frame_done, network_done, cpx_done} \subseteq Event
        /\ current \in Buffer /\ \A e : EventTask(e) # Resume(c0)
    BY Contexts, Events, Tasks DEF FrameInv, FramesTyped, ContextsTyped
  <1>7. FirstCaptures' /\ CameraAlone'
    BY <1>1, <1>4, <1>6, CameraStays
  <1>8. CallbackFirst'
    BY <1>1, <1>2 DEF CallbackFirst
  <1>9. OneSend'
    <2>1. \A f \in Buffer : SentWaiting(f)' <=> SentWaiting(f)
      BY <1>1, <1>4, <1>6 DEF SentWaiting
    <2>2. \A f \in Buffer :
            at[Consumer(f)] \in {"await inference", "await send", "sent", "released"} =>
              camera_started
      BY DEF FrameInv, OneSend
    <2> QED
      BY <1>1, <1>4, <1>6, <2>1, <2>2, SendsStay
  <1>10. OneInference' /\ InputReturned'
    <2>1. \A f \in Buffer : /\ at'[Consumer(f)] \in {"await inference", "released"} => onboard
                            /\ HoldsInput(f) => HoldsInput(f)'
      BY <1>1, <1>4, <1>6 DEF FrameInv, OneInference, HoldsInput
    <2> QED
      BY <1>1, <1>4, <1>6, <2>1, InferenceStays
  <1>11. AwaitSendNext'
    BY <1>1, <1>2 DEF AwaitSendNext
  <1>12. UnsentKnown'
    <2>1. \A f \in Buffer : Unsent(f)' <=> Unsent(f)
      BY <1>1 DEF Unsent
    <2> QED
      BY <1>1, <2>1, UnsentStays
  <1> QED
    BY <1>1, <1>4, <1>5, <1>7, <1>8, <1>9, <1>10, <1>11, <1>12 DEF FrameInv

\* What a step of a consumer leaves alone
LEMMA OtherContexts ==
  ASSUME NEW f0 \in Buffer, \A c \in Context : c # Consumer(f0) => at'[c] = at[c],
         \A c \in Context : c # Consumer(f0) =>
           /\ Queued(Resume(c))' <=> Queued(Resume(c))
           /\ \A e \in Event : Waits(c, e)' <=> Waits(c, e)
  PROVE  /\ at'[Camera] = at[Camera] /\ at'[Inference] = at[Inference]
         /\ Queued(Resume(Camera))' <=> Queued(Resume(Camera))
         /\ \A e \in Event : /\ Waits(Camera, e)' <=> Waits(Camera, e)
                             /\ Waits(Inference, e)' <=> Waits(Inference, e)
         /\ \A f \in Buffer :
              /\ at'[Send(f)] = at[Send(f)]
              /\ \A e \in Event : Waits(Send(f), e)' <=> Waits(Send(f), e)
              /\ f # f0 =>
                   /\ at'[Consumer(f)] = at[Consumer(f)]
                   /\ Queued(Resume(Consumer(f)))' <=> Queued(Resume(Consumer(f)))
                   /\ \A e \in Event : Waits(Consumer(f), e)' <=> Waits(Consumer(f), e)
PROOF
  BY Contexts

LEMMA CropReturnsKeeps ==
  ASSUME ~DoneAtPush, FrameInv, NEW f0 \in Buffer, Oldest(Resume(Consumer(f0))),
         CropReturns(Popped(rt), f0), UNCHANGED onboard
  PROVE  FrameInv'
PROOF
  <1>0. PICK c0, e0 : c0 = Consumer(f0) /\ e0 = Done(f0)
    OBVIOUS
  <1>1. /\ c0 \in Context /\ c0 # Camera /\ e0 \in Event
        /\ \A f \in Buffer : Consumer(f) = c0 <=> f = f0
        /\ at[c0] = "crop" /\ at' = [at EXCEPT ![c0] = "done"] /\ rt' = PushEvent(Popped(rt), e0)
        /\ UNCHANGED <<iteration, current, dma, cluster, spi, uart, camera_started, inference_args,
                       unsent, failed, onboard>>
    BY <1>0, Contexts, Events DEF CropReturns, camera, devices
  <1>2. /\ f0 = current /\ at[Camera] = "cropped" /\ ~Queued(Resume(Camera))
        /\ dma = NoBuffer /\ ~rt.done[e0] /\ ~Queued(EventTask(e0))
        /\ \A g \in Buffer : at[Consumer(g)] \notin {"callback", "await send"}
        /\ f0 < iteration
    BY <1>0, <1>1, Cropped
  <1>3. Moves(c0, "done", {EventTask(e0)}, {}, {})
    BY <1>0, <1>1, <1>2, Pushes
  <1>4. /\ Known(rt') /\ EventsQuiet' /\ ContextsPlaced'
        /\ at' \in [Context -> Place] /\ at'[c0] = "done"
        /\ \A c \in Context : c # c0 => at'[c] = at[c]
        /\ \A c \in Context : c # c0 =>
             /\ Queued(Resume(c))' <=> Queued(Resume(c))
             /\ \A e \in Event : Waits(c, e)' <=> Waits(c, e)
        /\ \A e \in Event : ~Waits(c0, e) /\ ~Waits(c0, e)'
        /\ \A e : Queued(EventTask(e))' <=> Queued(EventTask(e)) \/ e = e0
        /\ \A a, b : Before(rt, a, b) /\ a # Resume(c0) => Before(rt', a, b)
        /\ \A e \in Event : rt'.done[e] <=> rt.done[e]
    BY <1>1, <1>2, <1>3, PushMoves
  <1>5. FramesTyped'
    BY <1>0, <1>1, <1>4, ConsumerTyped DEF camera, devices
  <1>6. /\ at'[Camera] = at[Camera] /\ at'[Inference] = at[Inference]
        /\ Queued(Resume(Camera))' <=> Queued(Resume(Camera))
        /\ \A e \in Event : /\ Waits(Camera, e)' <=> Waits(Camera, e)
                            /\ Waits(Inference, e)' <=> Waits(Inference, e)
        /\ \A f \in Buffer :
             /\ at'[Send(f)] = at[Send(f)]
             /\ \A e \in Event : Waits(Send(f), e)' <=> Waits(Send(f), e)
             /\ f # f0 =>
                  /\ at'[Consumer(f)] = at[Consumer(f)]
                  /\ Queued(Resume(Consumer(f)))' <=> Queued(Resume(Consumer(f)))
                  /\ \A e \in Event : Waits(Consumer(f), e)' <=> Waits(Consumer(f), e)
    BY <1>0, <1>4, OtherContexts
  <1>7. /\ {streamer_tx_done, inference_done, frame_done, network_done, cpx_done} \subseteq Event
        /\ e0 \notin {streamer_tx_done, inference_done, frame_done, network_done, cpx_done}
        /\ \A f \in Buffer : Done(f) \in Event /\ (Done(f) = e0 <=> f = f0)
        /\ \A e : EventTask(e) # Resume(c0)
    BY <1>0, Events, Tasks
  <1>8. FirstCaptures'
    <2>1. iteration \in {0, 1, 2}
      BY Counts
    <2>2. \A f \in Buffer : f >= iteration => f # f0
      <3>1. f0 < iteration
        BY <1>2
      <3>2. f0 \in {0, 1}
        BY <1>2, Counts
      <3> QED
        BY <2>1, <3>1, <3>2
    <2>3. \A f \in Buffer :
            f >= iteration => at'[Consumer(f)] = "done" /\ ~Queued(EventTask(Done(f)))'
      BY <1>4, <1>6, <1>7, <2>2 DEF FrameInv, FirstCaptures
    <2> QED
      BY <1>1, <1>6, <2>3 DEF FrameInv, FirstCaptures
  <1>9. CameraAlone'
    <2>1. \A f \in Buffer :
            at'[Consumer(f)] # "done" => ~rt'.done[Done(f)] /\ ~Queued(EventTask(Done(f)))'
      BY <1>0, <1>4, <1>6, <1>7 DEF FrameInv, CameraAlone
    <2>2. \A f \in Buffer : at'[Consumer(f)] # "crop"
      BY <1>0, <1>2, <1>4, <1>6 DEF FrameInv, CameraAlone
    <2> QED
      BY <1>0, <1>1, <1>2, <1>4, <1>6, <2>1, <2>2 DEF CameraAlone
  <1>10. CallbackFirst'
    BY <1>0, <1>2, <1>4, <1>6 DEF CallbackFirst
  <1>11. OneSend'
    <2>1. \A f \in Buffer : SentWaiting(f)' <=> SentWaiting(f)
      BY <1>0, <1>1, <1>4, <1>6, <1>7 DEF SentWaiting
    <2>2. \A f \in Buffer :
            at'[Consumer(f)] \in {"await inference", "await send", "sent", "released"} =>
              camera_started
      BY <1>0, <1>4, <1>6 DEF FrameInv, OneSend
    <2> QED
      BY <1>1, <1>4, <1>6, <1>7, <2>1, <2>2, SendsStay
  <1>12. OneInference' /\ InputReturned'
    <2>1. \A f \in Buffer : /\ at'[Consumer(f)] \in {"await inference", "released"} => onboard
                            /\ HoldsInput(f) => HoldsInput(f)'
      BY <1>0, <1>1, <1>4, <1>6, <1>7 DEF FrameInv, OneInference, HoldsInput
    <2> QED
      BY <1>1, <1>4, <1>6, <1>7, <2>1, InferenceStays
  <1>13. AwaitSendNext'
    BY <1>0, <1>2, <1>4, <1>6 DEF AwaitSendNext
  <1>14. UnsentKnown'
    <2>1. \A f \in Buffer : Unsent(f)' <=> Unsent(f)
      BY <1>0, <1>1, <1>2, <1>4, <1>6 DEF Unsent
    <2> QED
      BY <1>1, <1>6, <2>1, UnsentStays
  <1> QED
    BY <1>1, <1>4, <1>5, <1>8, <1>9, <1>10, <1>11, <1>12, <1>13, <1>14 DEF FrameInv

LEMMA AwaitPreviousKeeps ==
  ASSUME FrameInv, NEW f0 \in Buffer, Oldest(Resume(Consumer(f0))),
         AwaitPrevious(Popped(rt), f0),
         at[Consumer(f0)] \in {"callback", "await inference", "await send"},
         UNCHANGED <<camera, devices, onboard>>
  PROVE  FrameInv'
PROOF
  <1>0. PICK c0 : c0 = Consumer(f0)
    OBVIOUS
  <1>1. PICK e0, p : /\ e0 \in Awaited(c0) /\ rt' = WaitEvent(Popped(rt), e0, c0)
                     /\ at' = [at EXCEPT ![c0] = p]
                     /\ p = IF e0 = inference_done THEN "await inference" ELSE "await send"
    BY <1>0 DEF AwaitPrevious
  <1>2. /\ c0 \in Context /\ c0 # Camera
        /\ \A f \in Buffer : Consumer(f) = c0 <=> f = f0
        /\ at[c0] \in {"callback", "await inference", "await send"}
        /\ UNCHANGED <<iteration, current, dma, cluster, spi, uart, camera_started, inference_args,
                       unsent, failed, onboard>>
    BY <1>0, Contexts DEF AwaitPrevious, camera, devices
  <1>3. /\ {streamer_tx_done, inference_done, frame_done, network_done, cpx_done} \subseteq Event
        /\ inference_done # streamer_tx_done
        /\ \A f \in Buffer : Done(f) \in Event
        /\ \A e : EventTask(e) # Resume(c0)
    BY <1>0, Events, Tasks
  <1>4. /\ camera_started /\ ~rt.done[e0] /\ e0 \in Event
        /\ \/ e0 = inference_done /\ p = "await inference" /\ onboard
           \/ /\ e0 = streamer_tx_done /\ p = "await send"
              /\ onboard /\ at[c0] # "await send" => rt.done[inference_done]
    BY <1>1, <1>3 DEF Awaited
  <1>5. Moves(c0, p, {}, {e0}, {})
    <2>1. IF rt.done[e0] THEN Moves(c0, p, {Resume(c0)}, {}, {}) ELSE Moves(c0, p, {}, {e0}, {})
      BY <1>0, <1>1, <1>2, <1>4, WaitsFor
    <2> QED
      BY <1>4, <2>1
  <1>6. /\ Known(rt') /\ EventsQuiet' /\ ContextsPlaced'
        /\ at' \in [Context -> Place] /\ at'[c0] = p
        /\ \A c \in Context : c # c0 => at'[c] = at[c]
        /\ \A c \in Context : c # c0 =>
             /\ Queued(Resume(c))' <=> Queued(Resume(c))
             /\ \A e \in Event : Waits(c, e)' <=> Waits(c, e)
        /\ \A e : Queued(EventTask(e))' <=> Queued(EventTask(e))
        /\ \A a, b : Before(rt, a, b) /\ a # Resume(c0) => Before(rt', a, b)
        /\ \A e \in Event : rt'.done[e] <=> rt.done[e]
    <2>1. p \in Place /\ p # "done"
      BY <1>1 DEF Place
    <2>2. \A e \in Event : rt'.done[e] <=> rt.done[e]
      BY <1>5 DEF Moves
    <2>3. at'[c0] = p
      BY <1>1, <1>2 DEF FrameInv, FramesTyped, ContextsTyped
    <2>4. Awaits(c0, e0)' /\ ~rt'.done[e0]
      BY <1>4, <2>2, <2>3 DEF Awaits
    <2>5. UNCHANGED current
      BY <1>2
    <2> QED
      BY <1>2, <1>4, <1>5, <2>1, <2>2, <2>4, <2>5, WaitMoves
  <1>7. FramesTyped'
    BY <1>0, <1>1, <1>2, <1>6, ConsumerTyped DEF camera, devices
  <1>8. /\ at'[Camera] = at[Camera] /\ at'[Inference] = at[Inference]
        /\ Queued(Resume(Camera))' <=> Queued(Resume(Camera))
        /\ \A e \in Event : /\ Waits(Camera, e)' <=> Waits(Camera, e)
                            /\ Waits(Inference, e)' <=> Waits(Inference, e)
        /\ \A f \in Buffer :
             /\ at'[Send(f)] = at[Send(f)]
             /\ \A e \in Event : Waits(Send(f), e)' <=> Waits(Send(f), e)
             /\ f # f0 =>
                  /\ at'[Consumer(f)] = at[Consumer(f)]
                  /\ Queued(Resume(Consumer(f)))' <=> Queued(Resume(Consumer(f)))
                  /\ \A e \in Event : Waits(Consumer(f), e)' <=> Waits(Consumer(f), e)
    BY <1>0, <1>6, OtherContexts
  <1>9. current \in Buffer /\ p \in {"await inference", "await send"}
    BY <1>1 DEF FrameInv, FramesTyped, ContextsTyped
  <1>10. FirstCaptures' /\ CameraAlone'
    <2>1. \A f \in Buffer : /\ at'[Consumer(f)] = "done" <=> at[Consumer(f)] = "done"
                            /\ at'[Consumer(f)] = "crop" <=> at[Consumer(f)] = "crop"
      BY <1>0, <1>2, <1>6, <1>8, <1>9
    <2> QED
      BY <1>2, <1>3, <1>6, <1>8, <1>9, <2>1, CameraStays
  <1>11. CallbackFirst'
    <2>1. \A f \in Buffer : at'[Consumer(f)] = "callback" =>
            at[Consumer(f)] = "callback" /\ Resume(Consumer(f)) # Resume(c0)
      BY <1>0, <1>2, <1>6, <1>8, <1>9, Tasks
    <2> QED
      BY <1>2, <1>6, <1>8, <2>1, CallbackStays
  <1>12. \A f \in Buffer : SentWaiting(f)' <=> SentWaiting(f)
    BY <1>0, <1>2, <1>3, <1>6, <1>8, <1>9 DEF SentWaiting
  <1>13. OneSend'
    <2>1. \A f \in Buffer :
            at'[Consumer(f)] \in {"await inference", "await send", "sent", "released"} =>
              camera_started
      BY <1>4
    <2> QED
      BY <1>2, <1>3, <1>6, <1>8, <1>12, <2>1, SendsStay
  <1>14. OneInference' /\ InputReturned'
    <2>1. at'[c0] \in {"await inference", "released"} => onboard
      BY <1>4, <1>6
    <2>2. \A f \in Buffer : /\ at'[Consumer(f)] \in {"await inference", "released"} => onboard
                            /\ HoldsInput(f) => HoldsInput(f)'
      BY <1>0, <1>2, <1>3, <1>8, <2>1 DEF FrameInv, OneInference, HoldsInput
    <2> QED
      BY <1>2, <1>3, <1>6, <1>8, <2>2, InferenceStays
  <1>15. AwaitSendNext'
    <2> SUFFICES ASSUME NEW f \in Buffer, NEW g \in Buffer, f # g, at'[Consumer(g)] = "await send"
                 PROVE  /\ Waits(Consumer(g), streamer_tx_done)' => SentWaiting(f)'
                        /\ onboard =>
                             /\ rt'.done[inference_done] /\ at'[Consumer(f)] \in {"sent", "released"}
                             /\ at'[Consumer(f)] = "released" /\ Queued(Resume(Consumer(f)))' =>
                                  Before(rt', Resume(Consumer(g)), Resume(Consumer(f)))
                        /\ ~onboard =>
                             /\ f = current /\ at[Camera] = "free" /\ ~Queued(Resume(Camera))
                             /\ Queued(EventTask(Done(f)))' =>
                                  Before(rt', Resume(Consumer(g)), EventTask(Done(f)))
      BY <1>2, <1>8, AwaitPairs
    <2>1. at[Consumer(g)] = "await send" =>
            /\ Waits(Consumer(g), streamer_tx_done) => SentWaiting(f)
            /\ onboard =>
                 /\ rt.done[inference_done] /\ at[Consumer(f)] \in {"sent", "released"}
            /\ ~onboard =>
                 /\ f = current /\ at[Camera] = "free" /\ ~Queued(Resume(Camera))
                 /\ Queued(EventTask(Done(f))) =>
                      Before(rt, Resume(Consumer(g)), EventTask(Done(f)))
      BY DEF FrameInv, AwaitSendNext
    <2>2. CASE g # f0
      <3>1. f = f0 /\ at[Consumer(g)] = "await send" /\ Resume(Consumer(g)) # Resume(c0)
        BY <1>2, <1>8, <2>2, Buffers, Tasks
      <3>2. ~onboard /\ ~SentWaiting(f)
        BY <1>0, <1>2, <2>1, <3>1 DEF SentWaiting
      <3> QED
        BY <1>2, <1>3, <1>6, <1>8, <2>1, <2>2, <3>1, <3>2
    <2>3. CASE g = f0
      <3>1. e0 = streamer_tx_done
        BY <1>0, <1>4, <1>6, <2>3
      <3>2. \E h \in Buffer : SentWaiting(h)
        BY <1>4, <3>1 DEF FrameInv, OneSend
      <3>3. SentWaiting(f) /\ at[Consumer(f)] = "sent"
        BY <1>0, <1>2, <2>3, <3>2, Buffers DEF SentWaiting
      <3>4. SentWaiting(f)' /\ at'[Consumer(f)] = "sent"
        BY <1>8, <1>12, <2>3, <3>3
      <3>5. onboard => rt'.done[inference_done]
        BY <1>0, <1>3, <1>4, <1>6, <2>1, <2>3, <3>1
      <3>6. ~Queued(EventTask(Done(f)))'
        BY <1>6, <3>3 DEF FrameInv, CameraAlone
      <3>7. ~onboard => f = current /\ at[Camera] = "free"
        <4>1. ~onboard /\ at[c0] = "callback" => f = current /\ at[Camera] \in {"free", "captured"}
          BY <1>0, <1>9, <2>3, Buffers DEF FrameInv, CallbackFirst
        <4>2. f = current => at[Camera] # "captured"
          BY <3>3 DEF FrameInv, CameraAlone
        <4>3. ~onboard => at[c0] # "await inference"
          BY <1>0 DEF FrameInv, OneInference
        <4> QED
          BY <1>0, <1>2, <2>1, <2>3, <4>1, <4>2, <4>3
      <3>8. ~onboard => ~Queued(Resume(Camera))
        BY <3>3, <3>7 DEF FrameInv, CameraAlone
      <3> QED
        BY <1>2, <1>8, <3>4, <3>5, <3>6, <3>7, <3>8
    <2> QED
      BY <2>2, <2>3
  <1>16. UnsentKnown'
    <2>1. \A f \in Buffer : Unsent(f)' <=> Unsent(f)
      BY <1>0, <1>2, <1>6, <1>8, <1>9 DEF Unsent
    <2> QED
      BY <1>2, <1>8, <2>1, UnsentStays
  <1> QED
    BY <1>2, <1>6, <1>7, <1>10, <1>11, <1>13, <1>14, <1>15, <1>16 DEF FrameInv

LEMMA FrameSentKeeps ==
  ASSUME FrameInv, NEW f0 \in Buffer, Oldest(Resume(Consumer(f0))),
         FrameSent(Popped(rt), f0), UNCHANGED onboard
  PROVE  FrameInv'
PROOF
  <1>0. PICK c0 : c0 = Consumer(f0)
    OBVIOUS
  <1>1. /\ c0 \in Context /\ c0 # Camera
        /\ \A f \in Buffer : Consumer(f) = c0 <=> f = f0
        /\ at[c0] = "sent" /\ onboard
        /\ at' = [at EXCEPT ![c0] = "released"] /\ rt' = WaitEvent(Popped(rt), frame_done, c0)
        /\ UNCHANGED <<iteration, current, dma, cluster, spi, uart, camera_started, inference_args,
                       unsent, failed, onboard>>
    BY <1>0, Contexts DEF FrameSent, camera, devices
  <1>2. /\ {streamer_tx_done, inference_done, frame_done, network_done, cpx_done} \subseteq Event
        /\ frame_done # streamer_tx_done
        /\ \A f \in Buffer : Done(f) \in Event
        /\ \A e : EventTask(e) # Resume(c0)
    BY <1>0, Events, Tasks
  <1>3. IF rt.done[frame_done] THEN Moves(c0, "released", {Resume(c0)}, {}, {})
                               ELSE Moves(c0, "released", {}, {frame_done}, {})
    BY <1>0, <1>1, <1>2, WaitsFor
  <1>4. /\ "released" \in Place /\ "released" # "done" /\ UNCHANGED current
        /\ at'[c0] = "released"
        /\ \A e \in Event : rt'.done[e] <=> rt.done[e]
    <2>1. at'[c0] = "released"
      BY <1>1 DEF FrameInv, FramesTyped, ContextsTyped
    <2>2. \A e \in Event : rt'.done[e] <=> rt.done[e]
      BY <1>3 DEF Moves
    <2> QED
      BY <1>1, <2>1, <2>2 DEF Place
  <1>5. /\ Known(rt') /\ EventsQuiet' /\ ContextsPlaced'
        /\ at' \in [Context -> Place] /\ \A c \in Context : c # c0 => at'[c] = at[c]
        /\ \A c \in Context : c # c0 =>
             /\ Queued(Resume(c))' <=> Queued(Resume(c))
             /\ \A e \in Event : Waits(c, e)' <=> Waits(c, e)
        /\ IF rt.done[frame_done]
             THEN \A a : Queued(a) /\ a # Resume(c0) => Before(rt', a, Resume(c0))
             ELSE ~Queued(Resume(c0))' /\ Waits(c0, frame_done)'
        /\ \A e \in Event : ~Waits(c0, e)
        /\ \A e : Queued(EventTask(e))' <=> Queued(EventTask(e))
        /\ \A a, b : Before(rt, a, b) => b # Resume(c0) /\ (a # Resume(c0) => Before(rt', a, b))
    <2>1. CASE rt.done[frame_done]
      <3>1. Moves(c0, "released", {Resume(c0)}, {}, {})
        BY <1>3, <2>1
      <3>2. \A c : Resume(c) \in {Resume(c0)} => c = c0
        BY Tasks
      <3>3. \A e : EventTask(e) \notin {Resume(c0)}
        BY Tasks
      <3>4. /\ Known(rt') /\ EventsQuiet' /\ ContextsPlaced'
            /\ at' \in [Context -> Place] /\ \A c \in Context : c # c0 => at'[c] = at[c]
            /\ \A c \in Context : c # c0 =>
                 /\ Queued(Resume(c))' <=> Queued(Resume(c))
                 /\ \A e \in Event : Waits(c, e)' <=> Waits(c, e)
            /\ \A e \in Event : ~Waits(c0, e)
            /\ \A e : Queued(EventTask(e))' <=> Queued(EventTask(e)) \/ EventTask(e) \in {Resume(c0)}
            /\ \A a, b : Before(rt, a, b) => b # Resume(c0) /\ (a # Resume(c0) => Before(rt', a, b))
            /\ \A a, b : Queued(a) /\ a # Resume(c0) /\ b \in {Resume(c0)} => Before(rt', a, b)
        BY <1>1, <1>4, <3>1, <3>2, <3>3, MovesEffect
      <3> QED
        BY <2>1, <3>3, <3>4
    <2>2. CASE ~rt.done[frame_done]
      <3>1. Moves(c0, "released", {}, {frame_done}, {})
        BY <1>3, <2>2
      <3>2. Awaits(c0, frame_done)' /\ ~rt'.done[frame_done]
        BY <1>2, <1>4, <2>2 DEF Awaits
      <3>3. /\ Known(rt') /\ EventsQuiet' /\ ContextsPlaced'
            /\ at' \in [Context -> Place] /\ \A c \in Context : c # c0 => at'[c] = at[c]
            /\ \A c \in Context : c # c0 =>
                 /\ Queued(Resume(c))' <=> Queued(Resume(c))
                 /\ \A e \in Event : Waits(c, e)' <=> Waits(c, e)
            /\ ~Queued(Resume(c0))' /\ Waits(c0, frame_done)' /\ \A e \in Event : ~Waits(c0, e)
            /\ \A e : Queued(EventTask(e))' <=> Queued(EventTask(e))
            /\ \A a, b : Before(rt, a, b) => b # Resume(c0) /\ (a # Resume(c0) => Before(rt', a, b))
        BY <1>1, <1>2, <1>4, <3>1, <3>2, WaitMoves
      <3> QED
        BY <2>2, <3>3
    <2> QED
      BY <2>1, <2>2
  <1>6. FramesTyped'
    BY <1>0, <1>1, <1>4, <1>5, ConsumerTyped DEF camera, devices
  <1>7. /\ at'[Camera] = at[Camera] /\ at'[Inference] = at[Inference]
        /\ Queued(Resume(Camera))' <=> Queued(Resume(Camera))
        /\ \A e \in Event : /\ Waits(Camera, e)' <=> Waits(Camera, e)
                            /\ Waits(Inference, e)' <=> Waits(Inference, e)
        /\ \A f \in Buffer :
             /\ at'[Send(f)] = at[Send(f)]
             /\ \A e \in Event : Waits(Send(f), e)' <=> Waits(Send(f), e)
             /\ f # f0 =>
                  /\ at'[Consumer(f)] = at[Consumer(f)]
                  /\ Queued(Resume(Consumer(f)))' <=> Queued(Resume(Consumer(f)))
                  /\ \A e \in Event : Waits(Consumer(f), e)' <=> Waits(Consumer(f), e)
    BY <1>0, <1>5, OtherContexts
  <1>8. current \in Buffer
    BY DEF FrameInv, FramesTyped, ContextsTyped
  <1>9. FirstCaptures' /\ CameraAlone'
    <2>1. \A f \in Buffer : /\ at'[Consumer(f)] = "done" <=> at[Consumer(f)] = "done"
                            /\ at'[Consumer(f)] = "crop" <=> at[Consumer(f)] = "crop"
      BY <1>0, <1>1, <1>4, <1>7
    <2> QED
      BY <1>1, <1>2, <1>4, <1>5, <1>7, <1>8, <2>1, CameraStays
  <1>10. CallbackFirst'
    <2>1. \A f \in Buffer : at'[Consumer(f)] = "callback" =>
            at[Consumer(f)] = "callback" /\ Resume(Consumer(f)) # Resume(c0)
      BY <1>0, <1>1, <1>4, <1>7, Tasks
    <2> QED
      BY <1>1, <1>5, <1>7, <2>1, CallbackStays
  <1>11. \A f \in Buffer : SentWaiting(f)' <=> SentWaiting(f) /\ f # f0
    BY <1>0, <1>1, <1>2, <1>4, <1>5, <1>7 DEF SentWaiting
  <1>12. ~SentWaiting(f0)
    BY <1>0, <1>2, <1>5 DEF SentWaiting
  <1>13. OneSend'
    <2>1. \A f \in Buffer : SentWaiting(f)' <=> SentWaiting(f)
      BY <1>11, <1>12
    <2>2. \A f \in Buffer :
            at'[Consumer(f)] \in {"await inference", "await send", "sent", "released"} =>
              camera_started
      BY <1>0, <1>1, <1>7 DEF FrameInv, OneSend
    <2> QED
      BY <1>1, <1>2, <1>4, <1>5, <1>7, <2>1, <2>2, SendsStay
  <1>14. OneInference' /\ InputReturned'
    <2>1. \A f \in Buffer : f # f0 =>
            /\ at'[Consumer(f)] \in {"await inference", "released"} => onboard
            /\ HoldsInput(f) => HoldsInput(f)'
      BY <1>2, <1>7 DEF FrameInv, OneInference, HoldsInput
    <2>2. ~rt.done[frame_done] => HoldsInput(f0)'
      BY <1>0, <1>4, <1>5 DEF HoldsInput
    <2>3. \A f \in Buffer : /\ at'[Consumer(f)] \in {"await inference", "released"} => onboard
                            /\ HoldsInput(f) /\ ~rt.done[frame_done] /\ onboard => HoldsInput(f)'
      BY <1>1, <2>1, <2>2
    <2> QED
      BY <1>1, <1>2, <1>4, <1>5, <1>7, <2>3, InferenceStays
  <1>15. AwaitSendNext'
    <2> SUFFICES ASSUME NEW g \in Buffer, at'[Consumer(g)] = "await send"
                 PROVE  /\ at[Consumer(g)] = "await send"
                        /\ \A b : Before(rt, Resume(Consumer(g)), b) =>
                                    Before(rt', Resume(Consumer(g)), b)
                        /\ Waits(Consumer(g), streamer_tx_done)' => Waits(Consumer(g), streamer_tx_done)
                        /\ \A f \in Buffer : f # g =>
                             /\ Waits(Consumer(g), streamer_tx_done)' /\ SentWaiting(f) =>
                                  SentWaiting(f)'
                             /\ at[Consumer(f)] \in {"sent", "released"} =>
                                  at'[Consumer(f)] \in {"sent", "released"}
                             /\ at'[Consumer(f)] = "released" /\ Queued(Resume(Consumer(f)))' =>
                                  Before(rt', Resume(Consumer(g)), Resume(Consumer(f)))
      BY <1>1, <1>2, <1>4, <1>5, <1>7, AwaitStays
    <2>1. g # f0 /\ at[Consumer(g)] = "await send" /\ Resume(Consumer(g)) # Resume(c0)
          /\ Consumer(g) \in Context /\ Consumer(g) # c0
      BY <1>0, <1>1, <1>4, <1>7, Contexts, Tasks
    <2>2. \A f \in Buffer : f # g => f = f0
      BY <2>1, Buffers
    <2>3. ~Waits(Consumer(g), streamer_tx_done)
      BY <1>12, <2>1 DEF FrameInv, AwaitSendNext
    <2>4. \A e \in Event : ~Waits(Consumer(g), e)
      BY <2>1, <2>3 DEF FrameInv, ContextsPlaced, Placed, Awaits
    <2>5. Queued(Resume(Consumer(g)))
      BY <2>1, <2>4 DEF FrameInv, ContextsPlaced, Placed
    <2>6. Queued(Resume(c0))' => Before(rt', Resume(Consumer(g)), Resume(c0))
      BY <1>5, <2>1, <2>5
    <2>7. /\ \A b : Before(rt, Resume(Consumer(g)), b) => Before(rt', Resume(Consumer(g)), b)
          /\ ~Waits(Consumer(g), streamer_tx_done)'
      BY <1>2, <1>5, <2>1, <2>3
    <2> QED
      BY <1>0, <1>4, <2>1, <2>2, <2>6, <2>7
  <1>16. UnsentKnown'
    <2>1. \A f \in Buffer : Unsent(f)' <=> Unsent(f)
      BY <1>0, <1>1, <1>4, <1>7 DEF Unsent
    <2> QED
      BY <1>1, <1>7, <2>1, UnsentStays
  <1> QED
    BY <1>1, <1>5, <1>6, <1>9, <1>10, <1>13, <1>14, <1>15, <1>16 DEF FrameInv

LEMMA CallbackReturnsKeeps ==
  ASSUME ~DoneAtPush, FrameInv, NEW f0 \in Buffer, Oldest(Resume(Consumer(f0))),
         CallbackReturns(Popped(rt), f0), UNCHANGED onboard
  PROVE  FrameInv'
PROOF
  <1>0. PICK c0, e0 : c0 = Consumer(f0) /\ e0 = Done(f0)
    OBVIOUS
  <1>1. /\ c0 \in Context /\ c0 # Camera /\ e0 \in Event
        /\ \A f \in Buffer : Consumer(f) = c0 <=> f = f0
        /\ at[c0] = IF onboard THEN "released" ELSE "sent"
        /\ at' = [at EXCEPT ![c0] = "done"] /\ rt' = PushEvent(Popped(rt), e0)
        /\ UNCHANGED <<iteration, current, dma, cluster, spi, uart, camera_started, inference_args,
                       unsent, failed, onboard>>
    BY <1>0, Contexts, Events DEF CallbackReturns, camera, devices
  <1>2. at[c0] \in {"sent", "released"} /\ ~rt.done[e0] /\ ~Queued(EventTask(e0))
    <2>1. at[c0] \in {"sent", "released"}
      BY <1>1
    <2> QED
      BY <1>0, <2>1 DEF FrameInv, CameraAlone
  <1>3. Moves(c0, "done", {EventTask(e0)}, {}, {})
    BY <1>0, <1>1, <1>2, Pushes
  <1>4. /\ Known(rt') /\ EventsQuiet' /\ ContextsPlaced'
        /\ at' \in [Context -> Place] /\ at'[c0] = "done"
        /\ \A c \in Context : c # c0 => at'[c] = at[c]
        /\ \A c \in Context : c # c0 =>
             /\ Queued(Resume(c))' <=> Queued(Resume(c))
             /\ \A e \in Event : Waits(c, e)' <=> Waits(c, e)
        /\ \A e \in Event : ~Waits(c0, e) /\ ~Waits(c0, e)'
        /\ \A e : Queued(EventTask(e))' <=> Queued(EventTask(e)) \/ e = e0
        /\ \A a, b : Before(rt, a, b) => b # Resume(c0) /\ (a # Resume(c0) => Before(rt', a, b))
        /\ \A a : Queued(a) /\ a # Resume(c0) => Before(rt', a, EventTask(e0))
        /\ \A e \in Event : rt'.done[e] <=> rt.done[e]
    BY <1>1, <1>2, <1>3, PushMoves
  <1>5. FramesTyped'
    BY <1>0, <1>1, <1>4, ConsumerTyped DEF camera, devices
  <1>6. /\ at'[Camera] = at[Camera] /\ at'[Inference] = at[Inference]
        /\ Queued(Resume(Camera))' <=> Queued(Resume(Camera))
        /\ \A e \in Event : /\ Waits(Camera, e)' <=> Waits(Camera, e)
                            /\ Waits(Inference, e)' <=> Waits(Inference, e)
        /\ \A f \in Buffer :
             /\ at'[Send(f)] = at[Send(f)]
             /\ \A e \in Event : Waits(Send(f), e)' <=> Waits(Send(f), e)
             /\ f # f0 =>
                  /\ at'[Consumer(f)] = at[Consumer(f)]
                  /\ Queued(Resume(Consumer(f)))' <=> Queued(Resume(Consumer(f)))
                  /\ \A e \in Event : Waits(Consumer(f), e)' <=> Waits(Consumer(f), e)
    BY <1>0, <1>4, OtherContexts
  <1>7. /\ {streamer_tx_done, inference_done, frame_done, network_done, cpx_done} \subseteq Event
        /\ e0 \notin {streamer_tx_done, inference_done, frame_done, network_done, cpx_done}
        /\ \A f \in Buffer : Done(f) \in Event /\ (Done(f) = e0 <=> f = f0)
        /\ \A e : EventTask(e) # Resume(c0)
    BY <1>0, Events, Tasks
  <1>8. FirstCaptures'
    <2>1. \A f \in Buffer : f >= iteration => f # f0
      BY <1>0, <1>2 DEF FrameInv, FirstCaptures
    <2>2. \A f \in Buffer :
            f >= iteration => at'[Consumer(f)] = "done" /\ ~Queued(EventTask(Done(f)))'
      BY <1>4, <1>6, <1>7, <2>1 DEF FrameInv, FirstCaptures
    <2> QED
      BY <1>1, <1>6, <2>2 DEF FrameInv, FirstCaptures
  <1>9. at[Camera] = "captured" => f0 # current
    BY <1>0, <1>2 DEF FrameInv, CameraAlone
  <1>10. PICK e1, c1 : e1 = Done(current) /\ c1 = Consumer(current)
    OBVIOUS
  <1>11. /\ current \in Buffer /\ current' = current
         /\ current # f0 => e1 # e0 /\ at'[c1] = at[c1]
         /\ current = f0 => at'[c1] = "done"
    BY <1>0, <1>1, <1>4, <1>6, <1>7, <1>10 DEF FrameInv, FramesTyped, ContextsTyped
  <1>12. CameraAlone'
    <2>1. \A f \in Buffer :
            at'[Consumer(f)] # "done" => ~rt'.done[Done(f)] /\ ~Queued(EventTask(Done(f)))'
      BY <1>0, <1>4, <1>6, <1>7 DEF FrameInv, CameraAlone
    <2>2. \A f \in Buffer : at'[Consumer(f)] = "crop" => f = current' /\ at'[Camera] = "cropped"
      BY <1>0, <1>1, <1>4, <1>6 DEF FrameInv, CameraAlone
    <2>3. /\ at'[Camera] = "captured" => at'[c1] = "done"
          /\ at'[Camera] = "cropped" => at'[c1] \in {"crop", "done"}
      BY <1>6, <1>10, <1>11 DEF FrameInv, CameraAlone
    <2>4. dma # NoBuffer =>
            /\ dma = current /\ at[Camera] = "captured" /\ Waits(Camera, e1)
            /\ ~Queued(EventTask(e1))
      BY <1>10 DEF FrameInv, CameraAlone
    <2>5. e1 \in Event
      BY <1>7, <1>10, <1>11
    <2>6. dma' # NoBuffer =>
            /\ dma' = current /\ at'[Camera] = "captured" /\ Waits(Camera, e1)'
            /\ ~Queued(EventTask(e1))'
      BY <1>1, <1>4, <1>6, <1>9, <1>11, <2>4, <2>5
    <2>7. at[Camera] # "start" /\ Queued(Resume(Camera)) =>
            at[c1] = "done" /\ ~Queued(EventTask(e1))
      BY <1>10 DEF FrameInv, CameraAlone
    <2>8. at[c1] = "done" => current # f0
      BY <1>0, <1>2, <1>10
    <2>9. at'[Camera] # "start" /\ Queued(Resume(Camera))' =>
            at'[c1] = "done" /\ ~Queued(EventTask(e1))'
      BY <1>4, <1>6, <1>11, <2>7, <2>8
    <2> QED
      BY <1>10, <1>11, <2>1, <2>2, <2>3, <2>6, <2>9 DEF CameraAlone
  <1>13. CallbackFirst'
    <2>1. at[Camera] = "captured" /\ Queued(EventTask(Done(current)))' =>
            Queued(EventTask(Done(current)))
      BY <1>4, <1>9, <1>10, <1>11
    <2>2. \A f \in Buffer : at'[Consumer(f)] = "callback" =>
            at[Consumer(f)] = "callback" /\ Resume(Consumer(f)) # Resume(c0)
      BY <1>0, <1>1, <1>4, <1>6, Tasks
    <2> QED
      BY <1>1, <1>4, <1>6, <2>1, <2>2, CallbackStays
  <1>14. ~SentWaiting(f0) /\ ~SentWaiting(f0)'
    BY <1>0, <1>4, <1>7 DEF SentWaiting
  <1>15. OneSend'
    <2>1. \A f \in Buffer : SentWaiting(f)' <=> SentWaiting(f)
      BY <1>6, <1>7, <1>14 DEF SentWaiting
    <2>2. \A f \in Buffer :
            at'[Consumer(f)] \in {"await inference", "await send", "sent", "released"} =>
              camera_started
      BY <1>0, <1>4, <1>6 DEF FrameInv, OneSend
    <2> QED
      BY <1>1, <1>4, <1>6, <1>7, <2>1, <2>2, SendsStay
  <1>16. OneInference' /\ InputReturned'
    <2>1. \A f \in Buffer : f # f0 =>
            /\ at'[Consumer(f)] \in {"await inference", "released"} => onboard
            /\ HoldsInput(f) => HoldsInput(f)'
      BY <1>6, <1>7 DEF FrameInv, OneInference, HoldsInput
    <2>2. onboard => ~HoldsInput(f0)
      BY <1>0, <1>1, <1>4, <1>7 DEF HoldsInput
    <2>3. \A f \in Buffer : /\ at'[Consumer(f)] \in {"await inference", "released"} => onboard
                            /\ HoldsInput(f) /\ ~rt.done[frame_done] /\ onboard => HoldsInput(f)'
      BY <1>0, <1>4, <2>1, <2>2
    <2> QED
      BY <1>1, <1>4, <1>6, <1>7, <2>3, InferenceStays
  <1>17. AwaitSendNext'
    <2> SUFFICES ASSUME NEW g \in Buffer, at'[Consumer(g)] = "await send"
                 PROVE  /\ ~onboard /\ at[Consumer(g)] = "await send"
                        /\ \A b : Before(rt, Resume(Consumer(g)), b) =>
                                    Before(rt', Resume(Consumer(g)), b)
                        /\ ~Waits(Consumer(g), streamer_tx_done)'
                        /\ \A f \in Buffer : f # g /\ Queued(EventTask(Done(f)))' =>
                               Before(rt', Resume(Consumer(g)), EventTask(Done(f)))
      BY <1>1, <1>4, <1>6, <1>7, AwaitStays
    <2>1. g # f0 /\ at[Consumer(g)] = "await send" /\ Resume(Consumer(g)) # Resume(c0)
          /\ Consumer(g) \in Context /\ Consumer(g) # c0
      BY <1>0, <1>1, <1>4, <1>6, Contexts, Tasks
    <2>2. \A f \in Buffer : f # g => f = f0
      BY <2>1, Buffers
    <2>3. ~Waits(Consumer(g), streamer_tx_done)
      BY <1>14, <2>1 DEF FrameInv, AwaitSendNext
    <2>4. \A e \in Event : ~Waits(Consumer(g), e)
      BY <2>1, <2>3 DEF FrameInv, ContextsPlaced, Placed, Awaits
    <2>5. Queued(Resume(Consumer(g)))
      BY <2>1, <2>4 DEF FrameInv, ContextsPlaced, Placed
    <2>6. ~onboard
      <3>1. Queued(Resume(c0))
        BY <1>0, <1>1, PoppedFirst DEF FrameInv
      <3>2. onboard /\ at[c0] = "released" => Before(rt, Resume(Consumer(g)), Resume(c0))
        BY <1>0, <2>1, <3>1 DEF FrameInv, AwaitSendNext
      <3> QED
        BY <1>1, <1>4, <3>2
    <2>7. /\ \A b : Before(rt, Resume(Consumer(g)), b) => Before(rt', Resume(Consumer(g)), b)
          /\ ~Waits(Consumer(g), streamer_tx_done)'
          /\ Before(rt', Resume(Consumer(g)), EventTask(e0))
      BY <1>4, <1>7, <2>1, <2>4, <2>5
    <2> QED
      BY <1>0, <2>1, <2>2, <2>6, <2>7
  <1>18. UnsentKnown'
    <2>1. \A f \in Buffer : Unsent(f)' <=> Unsent(f)
      BY <1>0, <1>1, <1>2, <1>4, <1>6 DEF Unsent
    <2> QED
      BY <1>1, <1>6, <2>1, UnsentStays
  <1> QED
    BY <1>1, <1>4, <1>5, <1>8, <1>12, <1>13, <1>15, <1>16, <1>17, <1>18 DEF FrameInv

\* Where neither the send nor the inference of the frame before is under way
LEMMA BothReady ==
  ASSUME FrameInv, NEW f0 \in Buffer,
         at[Consumer(f0)] \in {"callback", "await inference", "await send"},
         Awaited(Consumer(f0)) = {}
  PROVE  /\ at[Inference] = "done" /\ \A f \in Buffer : at[Send(f)] = "done"
         /\ Waiters(rt, streamer_tx_done) = {}
         /\ onboard => Waiters(rt, inference_done) = {} /\ Waiters(rt, frame_done) = {}
         /\ \A e \in {streamer_tx_done, frame_done, network_done, cpx_done} : ~Queued(EventTask(e))
         /\ onboard => ~Queued(EventTask(inference_done))
         /\ ~spi /\ ~uart /\ cluster.phase = "idle" /\ cluster.input = NoBuffer
         /\ \A g \in Buffer : g # f0 => at[Consumer(g)] # "await send"
PROOF
  <1>1. /\ {streamer_tx_done, inference_done, frame_done, network_done, cpx_done} \subseteq Event
        /\ inference_done # streamer_tx_done
        /\ frame_done \notin {streamer_tx_done, inference_done}
    BY Events
  <1>2. camera_started => rt.done[streamer_tx_done]
    BY <1>1 DEF Awaited
  <1>3. camera_started /\ onboard => rt.done[inference_done]
    <2>1. camera_started /\ onboard /\ at[Consumer(f0)] # "await send" => rt.done[inference_done]
      BY <1>1 DEF Awaited
    <2>2. 1 - f0 \in Buffer /\ 1 - f0 # f0
      BY Buffers
    <2>3. onboard /\ at[Consumer(f0)] = "await send" => rt.done[inference_done]
      BY <2>2 DEF FrameInv, AwaitSendNext
    <2> QED
      BY <2>1, <2>3
  <1>4. \A c : ~Waits(c, streamer_tx_done)
    <2> SUFFICES ASSUME NEW c, Waits(c, streamer_tx_done)
                 PROVE  FALSE
      OBVIOUS
    <2>1. PICK f \in Buffer : c = Consumer(f)
      BY <1>1, WhoWaits
    <2>2. Awaits(c, streamer_tx_done) /\ ~rt.done[streamer_tx_done]
      BY <1>1, WhoWaits
    <2>3. at[Consumer(f)] \in {"await send", "sent"}
      BY <1>1, <2>1, <2>2, Events DEF Awaits
    <2>4. camera_started
      BY <2>3 DEF FrameInv, OneSend
    <2> QED
      BY <1>2, <2>2, <2>4
  <1>5. at[Inference] = "done"
    BY <1>3 DEF FrameInv, OneInference
  <1>6. \A f \in Buffer : at[Send(f)] = "done"
    BY <1>4 DEF FrameInv, OneSend, SentWaiting
  <1>7. \A e \in Event : ~Waits(Inference, e) /\ \A f \in Buffer : ~Waits(Send(f), e)
    BY <1>5, <1>6, Contexts DEF FrameInv, ContextsPlaced, Placed, Awaits
  <1>8. /\ ~spi /\ ~Queued(EventTask(cpx_done))
        /\ ~uart /\ cluster.phase = "idle" /\ cluster.input = NoBuffer
        /\ ~Queued(EventTask(network_done)) /\ ~Queued(EventTask(frame_done))
    <2>1. ~spi /\ ~Queued(EventTask(cpx_done))
      BY <1>1, <1>7 DEF FrameInv, OneSend
    <2>2. ~uart /\ cluster.phase = "idle" /\ ~Queued(EventTask(network_done))
      BY <1>1, <1>5, <1>7 DEF FrameInv, OneInference, Inferring
    <2>3. cluster.input = NoBuffer
      BY <2>2 DEF FrameInv, OneInference
    <2>4. ~Queued(EventTask(frame_done))
      BY <1>5 DEF FrameInv, InputReturned, Inferring
    <2> QED
      BY <2>1, <2>2, <2>3, <2>4
  <1>9. ~Queued(EventTask(streamer_tx_done))
    BY <1>1, <1>2 DEF FrameInv, OneSend, EventsQuiet, Quiet
  <1>10. onboard => ~Queued(EventTask(inference_done))
    BY <1>1, <1>3 DEF FrameInv, OneInference, EventsQuiet, Quiet
  <1>11. onboard => \A c : ~Waits(c, inference_done)
    <2> SUFFICES ASSUME onboard, NEW c, Waits(c, inference_done)
                 PROVE  FALSE
      OBVIOUS
    <2>1. PICK f \in Buffer : c = Consumer(f)
      BY <1>1, WhoWaits
    <2>2. Awaits(c, inference_done) /\ ~rt.done[inference_done]
      BY <1>1, WhoWaits
    <2>3. at[Consumer(f)] = "await inference"
      BY <1>1, <2>1, <2>2, Events DEF Awaits
    <2>4. camera_started
      BY <2>3 DEF FrameInv, OneSend
    <2> QED
      BY <1>3, <2>2, <2>4
  <1>12. onboard => \A c : ~Waits(c, frame_done)
    <2> SUFFICES ASSUME onboard, NEW c, Waits(c, frame_done)
                 PROVE  FALSE
      OBVIOUS
    <2>1. PICK f \in Buffer : c = Consumer(f)
      BY <1>1, WhoWaits
    <2>2. Awaits(c, frame_done) /\ ~rt.done[frame_done]
      BY <1>1, WhoWaits
    <2>3. at[Consumer(f)] = "released"
      BY <1>1, <2>1, <2>2, Events DEF Awaits
    <2>4. camera_started
      BY <2>3 DEF FrameInv, OneSend
    <2>5. InputUnread \/ Queued(EventTask(frame_done))
      BY <2>2, <2>4 DEF FrameInv, InputReturned
    <2> QED
      BY <1>5, <1>8, <2>5 DEF InputUnread
  <1>13. ASSUME NEW g \in Buffer, g # f0, at[Consumer(g)] = "await send"
         PROVE  FALSE
    <2>1. /\ onboard => at[Consumer(f0)] \in {"sent", "released"}
          /\ ~onboard => f0 = current
      BY <1>13 DEF FrameInv, AwaitSendNext
    <2>2. ~onboard /\ f0 = current
      BY <2>1
    <2>3. at[Consumer(f0)] # "callback"
      BY <2>2 DEF FrameInv, CallbackFirst
    <2>4. at[Consumer(f0)] # "await inference"
      BY <2>2 DEF FrameInv, OneInference
    <2>5. at[Consumer(f0)] = "await send"
      BY <2>3, <2>4
    <2>6. g = current
      BY <1>13, <2>2, <2>5 DEF FrameInv, AwaitSendNext
    <2> QED
      BY <1>13, <2>2, <2>6
  <1>14. \A e \in {streamer_tx_done, inference_done, frame_done} :
           (\A c : ~Waits(c, e)) => Waiters(rt, e) = {}
    BY DEF Waits
  <1> QED
    BY <1>4, <1>5, <1>6, <1>8, <1>9, <1>10, <1>11, <1>12, <1>13, <1>14

BothEffect(f0) ==
  /\ Queues({Resume(Consumer(f0))},
            IF onboard THEN {Resume(Inference), Resume(Send(f0))} ELSE {Resume(Send(f0))})
  /\ \A e \in Event : Waiters(rt', e) = IF e = streamer_tx_done THEN {Consumer(f0)} ELSE Waiters(rt, e)
  /\ \A e \in Event : rt'.done[e] <=> /\ rt.done[e] /\ e # streamer_tx_done
                                      /\ onboard => e \notin {frame_done, inference_done}

LEMMA BothStarted ==
  ASSUME FrameInv, NEW f0 \in Buffer, Oldest(Resume(Consumer(f0))),
         at[Consumer(f0)] \in {"callback", "await inference", "await send"},
         StartBoth(Popped(rt), f0)
  PROVE  BothEffect(f0)
PROOF
  <1>0. PICK c0, s0, r : c0 = Consumer(f0) /\ s0 = Send(f0) /\ r = Popped(rt)
    OBVIOUS
  <1>1. PICK q : q = IF onboard
                       THEN PushResume(InitEvent(InitEvent(r, frame_done), inference_done), Inference)
                       ELSE r
    OBVIOUS
  <1>2. /\ rt' = WaitEvent(PushResume(InitEvent(q, streamer_tx_done), s0), streamer_tx_done, c0)
        /\ Awaited(c0) = {}
    BY <1>0, <1>1 DEF StartBoth
  <1>3. /\ at[Inference] = "done" /\ at[s0] = "done"
        /\ Waiters(rt, streamer_tx_done) = {}
        /\ onboard => Waiters(rt, inference_done) = {} /\ Waiters(rt, frame_done) = {}
    BY <1>0, <1>2, BothReady
  <1>4. /\ {streamer_tx_done, inference_done, frame_done} \subseteq Event
        /\ c0 \in Context /\ s0 \in Context /\ Inference \in Context /\ s0 # Inference
        /\ Resume(s0) # Resume(Inference)
    BY <1>0, Events, Contexts, Tasks
  <1>5. /\ Known(r) /\ Known(rt) /\ Queue(r) = Queue(rt) \ {Resume(c0)}
        /\ \A e \in Event : Waiters(r, e) = Waiters(rt, e)
        /\ r.done = rt.done
    BY <1>0, PoppedFirst DEF FrameInv
  <1>6. Resume(s0) \notin Queue(rt) /\ Resume(Inference) \notin Queue(rt)
    BY <1>3, <1>4 DEF FrameInv, ContextsPlaced, Placed, Queued
  <1>7. /\ Known(q) /\ Later(r, q)
        /\ Queue(q) = Queue(r) \cup (IF onboard THEN {Resume(Inference)} ELSE {})
        /\ \A e \in Event : Waiters(q, e) = Waiters(rt, e)
        /\ \A e \in Event : q.done[e] <=> rt.done[e] /\ (onboard => e \notin {frame_done, inference_done})
    <2>1. CASE ~onboard
      <3>1. q = r
        BY <1>1, <2>1
      <3>2. Later(r, r)
        BY SameQueue
      <3> QED
        BY <1>5, <2>1, <3>1, <3>2
    <2>2. CASE onboard
      <3>0. PICK k : k = InitEvent(r, frame_done)
        OBVIOUS
      <3>1. LET after == InitEvent(r, frame_done)
            IN  /\ Known(after) /\ Queue(after) = Queue(r) /\ Later(r, after)
                /\ \A f \in Event : Waiters(after, f) = IF f = frame_done THEN {} ELSE Waiters(r, f)
                /\ after.done = [r.done EXCEPT ![frame_done] = FALSE]
        BY <1>4, <1>5, KnownInit
      <3>2. /\ Known(k) /\ Queue(k) = Queue(r) /\ Later(r, k)
            /\ \A e \in Event : Waiters(k, e) = Waiters(rt, e)
            /\ k.done = [r.done EXCEPT ![frame_done] = FALSE]
        BY <1>3, <1>5, <2>2, <3>0, <3>1
      <3>3. Resume(Inference) \notin Queue(k)
        BY <1>5, <1>6, <3>2
      <3>4. LET after == PushResume(InitEvent(k, inference_done), Inference)
            IN  /\ Known(after)
                /\ Queue(after) = Queue(k) \cup {Resume(Inference)} /\ Later(k, after)
                /\ \A f \in Event : Waiters(after, f) = IF f = inference_done THEN {} ELSE Waiters(k, f)
                /\ after.done = [k.done EXCEPT ![inference_done] = FALSE]
        BY <1>4, <3>2, <3>3, KnownStarted
      <3>5. q = PushResume(InitEvent(k, inference_done), Inference)
        BY <1>1, <2>2, <3>0
      <3>6. /\ Known(q) /\ Queue(q) = Queue(k) \cup {Resume(Inference)} /\ Later(k, q)
            /\ \A f \in Event : Waiters(q, f) = Waiters(rt, f)
            /\ q.done = [k.done EXCEPT ![inference_done] = FALSE]
        BY <1>3, <2>2, <3>2, <3>4, <3>5
      <3>7. Later(r, q)
        BY <3>2, <3>6, LaterTransitive
      <3>8. \A e \in Event : q.done[e] <=> rt.done[e] /\ e \notin {frame_done, inference_done}
        BY <1>4, <1>5, <3>2, <3>6 DEF Known, RunTime
      <3> QED
        BY <2>2, <3>2, <3>6, <3>7, <3>8
    <2> QED
      BY <2>1, <2>2
  <1>8. PICK m : m = PushResume(InitEvent(q, streamer_tx_done), s0)
    OBVIOUS
  <1>9. Resume(s0) \notin Queue(q)
    BY <1>4, <1>5, <1>6, <1>7
  <1>10. LET after == PushResume(InitEvent(q, streamer_tx_done), s0)
         IN  /\ Known(after)
             /\ Queue(after) = Queue(q) \cup {Resume(s0)} /\ Later(q, after)
             /\ \A f \in Event : Waiters(after, f) = IF f = streamer_tx_done THEN {} ELSE Waiters(q, f)
             /\ after.done = [q.done EXCEPT ![streamer_tx_done] = FALSE]
    BY <1>4, <1>7, <1>9, KnownStarted
  <1>11. /\ Known(m) /\ Queue(m) = Queue(q) \cup {Resume(s0)} /\ Later(q, m)
         /\ \A f \in Event : Waiters(m, f) = Waiters(rt, f)
         /\ m.done = [q.done EXCEPT ![streamer_tx_done] = FALSE]
    BY <1>3, <1>7, <1>8, <1>10
  <1>12. ~m.done[streamer_tx_done] /\ c0 \notin Waiters(m, streamer_tx_done)
    BY <1>3, <1>4, <1>7, <1>11 DEF Known, RunTime
  <1>13. LET after == WaitEvent(m, streamer_tx_done, c0)
         IN  /\ Known(after) /\ Queue(after) = Queue(m) /\ Later(m, after)
             /\ \A f \in Event : Waiters(after, f) = IF f = streamer_tx_done
                                                       THEN Waiters(m, f) \cup {c0} ELSE Waiters(m, f)
             /\ after.done = m.done
    BY <1>4, <1>11, <1>12, KnownWait
  <1>14. /\ Known(rt') /\ Queue(rt') = Queue(m) /\ Later(m, rt')
         /\ \A f \in Event : Waiters(rt', f) = IF f = streamer_tx_done THEN {c0} ELSE Waiters(rt, f)
         /\ rt'.done = m.done
    BY <1>2, <1>3, <1>8, <1>11, <1>13
  <1>15. Later(r, rt')
    BY <1>7, <1>11, <1>14, LaterTransitive
  <1>16. PICK new : new = IF onboard THEN {Resume(Inference), Resume(s0)} ELSE {Resume(s0)}
    OBVIOUS
  <1>17. Queue(rt') = Queue(r) \cup new /\ new \cap Queue(r) = {}
    BY <1>5, <1>6, <1>7, <1>11, <1>14, <1>16
  <1>18. Queues({Resume(c0)}, new)
    BY <1>0, <1>5, <1>14, <1>15, <1>17, RunQueues
  <1>19. \A e \in Event : rt'.done[e] <=> q.done[e] /\ e # streamer_tx_done
    BY <1>4, <1>7, <1>11, <1>14 DEF Known, RunTime
  <1> QED
    BY <1>0, <1>7, <1>14, <1>16, <1>18, <1>19 DEF BothEffect

LEMMA StartBothKeeps ==
  ASSUME FrameInv, NEW f0 \in Buffer, Oldest(Resume(Consumer(f0))),
         at[Consumer(f0)] \in {"callback", "await inference", "await send"},
         StartBoth(Popped(rt), f0), UNCHANGED <<camera, devices, onboard>>
  PROVE  FrameInv'
PROOF
  <1>0. PICK c0, s0 : c0 = Consumer(f0) /\ s0 = Send(f0)
    OBVIOUS
  <1>1. /\ c0 \in Context /\ s0 \in Context /\ Inference \in Context /\ Camera \in Context
        /\ c0 \notin {s0, Inference, Camera} /\ s0 \notin {Inference, Camera} /\ Inference # Camera
        /\ \A f \in Buffer : /\ Consumer(f) \in Context /\ Send(f) \in Context
                             /\ (Consumer(f) = c0 <=> f = f0) /\ (Send(f) = s0 <=> f = f0)
                             /\ Consumer(f) \notin {s0, Inference, Camera}
                             /\ Send(f) \notin {c0, Inference, Camera}
        /\ at[c0] \in {"callback", "await inference", "await send"} /\ Awaited(c0) = {}
        /\ camera_started' = TRUE /\ unsent' = unsent
        /\ inference_args' = IF onboard THEN f0 ELSE inference_args
        /\ UNCHANGED <<iteration, current, dma, cluster, spi, uart, onboard>>
    BY <1>0, Contexts DEF StartBoth, camera, devices
  <1>2. /\ at[Inference] = "done" /\ \A f \in Buffer : at[Send(f)] = "done"
        /\ Waiters(rt, streamer_tx_done) = {}
        /\ \A e \in {streamer_tx_done, frame_done, network_done, cpx_done} : ~Queued(EventTask(e))
        /\ onboard => ~Queued(EventTask(inference_done))
        /\ ~spi /\ ~uart /\ cluster.phase = "idle" /\ cluster.input = NoBuffer
        /\ \A g \in Buffer : g # f0 => at[Consumer(g)] # "await send"
    BY <1>0, <1>1, BothReady
  <1>3. /\ Queues({Resume(c0)}, IF onboard THEN {Resume(Inference), Resume(s0)} ELSE {Resume(s0)})
        /\ \A e \in Event : Waiters(rt', e) = IF e = streamer_tx_done THEN {c0} ELSE Waiters(rt, e)
        /\ \A e \in Event : rt'.done[e] <=> /\ rt.done[e] /\ e # streamer_tx_done
                                            /\ onboard => e \notin {frame_done, inference_done}
    BY <1>0, BothStarted DEF BothEffect
  <1>4. /\ at'[c0] = "sent" /\ at'[s0] = "send"
        /\ at'[Inference] = IF onboard THEN "input" ELSE "done"
        /\ \A c \in Context : c \notin {c0, s0, Inference} => at'[c] = at[c]
        /\ at' \in [Context -> Place]
    <2>1. at' = [at EXCEPT ![c0] = "sent", ![s0] = "send",
                           ![Inference] = IF onboard THEN "input" ELSE @]
      BY <1>0 DEF StartBoth
    <2>2. at \in [Context -> Place]
      BY DEF FrameInv, FramesTyped, ContextsTyped
    <2> QED
      BY <1>1, <1>2, <2>1, <2>2 DEF Place
  <1>5. ~failed'
    BY <1>0, <1>1, <1>2 DEF StartBoth, Runs
  <1>6. \A c : Resume(c) \in (IF onboard THEN {Resume(Inference), Resume(s0)} ELSE {Resume(s0)})
                  <=> c = s0 \/ (c = Inference /\ onboard)
    BY Tasks
  <1>7. /\ {streamer_tx_done, inference_done, frame_done, network_done, cpx_done} \subseteq Event
        /\ streamer_tx_done \notin {inference_done, frame_done, network_done, cpx_done}
        /\ inference_done # frame_done
        /\ \A f \in Buffer : /\ Done(f) \in Event
                             /\ Done(f) \notin {streamer_tx_done, inference_done, frame_done}
        /\ \A e : EventTask(e) # Resume(c0)
    BY Events, Tasks
  <1>8. /\ ~Queued(Resume(s0)) /\ ~Queued(Resume(Inference))
        /\ \A e \in Event : ~Waits(c0, e) /\ ~Waits(s0, e) /\ ~Waits(Inference, e)
        /\ Queued(Resume(c0))
        /\ \A f \in Buffer : \A e \in Event : ~Waits(Send(f), e)
    <2>1. Queued(Resume(c0)) /\ \A e \in Event : ~Waits(c0, e)
      BY <1>0, <1>1, PoppedFirst, RunsAlone DEF FrameInv
    <2>2. \A c \in Context : at[c] = "done" =>
            ~Queued(Resume(c)) /\ \A e \in Event : ~Waits(c, e)
      BY DEF FrameInv, ContextsPlaced, Placed, Awaits
    <2>3. at[s0] = "done"
      BY <1>0, <1>2
    <2> QED
      BY <1>1, <1>2, <2>1, <2>2, <2>3
  <1>9. /\ Known(rt')
        /\ \A c \in Context : c \notin {c0, s0, Inference} =>
             /\ Queued(Resume(c))' <=> Queued(Resume(c))
             /\ \A e \in Event : Waits(c, e)' <=> Waits(c, e)
        /\ ~Queued(Resume(c0))' /\ \A e \in Event : Waits(c0, e)' <=> e = streamer_tx_done
        /\ Queued(Resume(s0))' /\ (Queued(Resume(Inference))' <=> onboard)
        /\ \A e \in Event : ~Waits(s0, e)' /\ ~Waits(Inference, e)'
        /\ \A e : Queued(EventTask(e))' <=> Queued(EventTask(e))
        /\ \A a, b : Before(rt, a, b) /\ a # Resume(c0) => Before(rt', a, b)
    <2>1. PICK new : new = IF onboard THEN {Resume(Inference), Resume(s0)} ELSE {Resume(s0)}
      OBVIOUS
    <2>2. /\ \A c : Resume(c) \in new <=> c = s0 \/ (c = Inference /\ onboard)
          /\ \A e : EventTask(e) \notin new
      BY <1>6, <2>1, Tasks
    <2>3. /\ Known(rt')
          /\ \A x : Queued(x)' <=> x \in new \/ (Queued(x) /\ x # Resume(c0))
          /\ \A a, b : Before(rt, a, b) /\ a # Resume(c0) => Before(rt', a, b)
      BY <1>3, <2>1 DEF Queues, Queued
    <2>4. \A e \in Event : \A c : Waits(c, e)' <=> IF e = streamer_tx_done THEN c = c0 ELSE Waits(c, e)
      BY <1>3 DEF Waits
    <2>5. \A c : ~Waits(c, streamer_tx_done)
      BY <1>2 DEF Waits
    <2>6. \A c \in Context : c \notin {c0, s0, Inference} =>
            /\ Queued(Resume(c))' <=> Queued(Resume(c))
            /\ \A e \in Event : Waits(c, e)' <=> Waits(c, e)
      <3>1. \A c \in Context : c \notin {c0, s0, Inference} =>
              (Queued(Resume(c))' <=> Queued(Resume(c)))
        BY <2>2, <2>3, Tasks
      <3>2. \A c \in Context, e \in Event : c # c0 => (Waits(c, e)' <=> Waits(c, e))
        BY <2>4, <2>5
      <3> QED
        BY <3>1, <3>2
    <2>7. /\ ~Queued(Resume(c0))' /\ Queued(Resume(s0))' /\ (Queued(Resume(Inference))' <=> onboard)
      BY <1>1, <1>8, <2>2, <2>3
    <2>8. /\ \A e \in Event : Waits(c0, e)' <=> e = streamer_tx_done
          /\ \A e \in Event : ~Waits(s0, e)' /\ ~Waits(Inference, e)'
      BY <1>1, <1>8, <2>4
    <2> QED
      BY <1>7, <2>2, <2>3, <2>6, <2>7, <2>8
  <1>10. /\ at'[Camera] = at[Camera]
         /\ Queued(Resume(Camera))' <=> Queued(Resume(Camera))
         /\ \A e \in Event : Waits(Camera, e)' <=> Waits(Camera, e)
         /\ \A f \in Buffer : f # f0 =>
              /\ at'[Consumer(f)] = at[Consumer(f)]
              /\ Queued(Resume(Consumer(f)))' <=> Queued(Resume(Consumer(f)))
              /\ \A e \in Event : Waits(Consumer(f), e)' <=> Waits(Consumer(f), e)
              /\ at'[Send(f)] = at[Send(f)]
    BY <1>1, <1>4, <1>9
  <1>11. FramesTyped'
    <2>1. \A f \in Buffer :
            /\ at'[Consumer(f)] \in {"done", "crop", "callback", "await inference", "await send",
                                     "sent", "released"}
            /\ at'[Send(f)] \in {"done", "send", "sending"}
      BY <1>0, <1>4, <1>10 DEF FrameInv, FramesTyped, ContextsTyped
    <2>2. at'[Inference] \in {"done", "input", "network", "uart"} /\ unsent' \in Seq(Buffer)
      BY <1>1, <1>4 DEF FrameInv, FramesTyped, ContextsTyped
    <2>3. /\ {camera_started', spi', uart'} \subseteq BOOLEAN
          /\ cluster' \in [phase : {"idle", "layer 0", "layers"}, input : Buffer \cup {NoBuffer}]
      BY <1>1 DEF FrameInv, FramesTyped, DevicesTyped
    <2> QED
      BY <1>1, <1>4, <1>10, <2>1, <2>2, <2>3, TypedStays
  <1>12. EventsQuiet'
    BY <1>3, <1>9 DEF FrameInv, EventsQuiet, Quiet
  <1>13. ContextsPlaced'
    <2> SUFFICES ASSUME NEW c \in Context
                 PROVE  Placed(c)'
      BY DEF ContextsPlaced
    <2>1. Placed(c)
      BY DEF FrameInv, ContextsPlaced
    <2>2. CASE c = c0
      BY <1>4, <1>7, <1>9, <2>2 DEF Placed, Awaits
    <2>3. CASE c = s0
      BY <1>4, <1>9, <2>3 DEF Placed
    <2>4. CASE c = Inference
      <3>1. at'[c] = "done" <=> ~onboard
        BY <1>4, <2>4
      <3> QED
        BY <1>9, <2>4, <3>1 DEF Placed
    <2>5. CASE c \notin {c0, s0, Inference}
      BY <1>1, <1>4, <1>9, <2>1, <2>5 DEF Placed, Awaits
    <2> QED
      BY <2>2, <2>3, <2>4, <2>5
  <1>14. current \in Buffer /\ current' = current /\ \A f \in Buffer : rt'.done[Done(f)] <=> rt.done[Done(f)]
    <2>1. current \in Buffer /\ current' = current
      BY <1>1 DEF FrameInv, FramesTyped, ContextsTyped
    <2>2. \A f \in Buffer : rt'.done[Done(f)] <=> rt.done[Done(f)]
      BY <1>3, <1>7
    <2> QED
      BY <2>1, <2>2
  <1>15. FirstCaptures' /\ CameraAlone'
    <2>1. \A f \in Buffer : /\ at'[Consumer(f)] = "done" <=> at[Consumer(f)] = "done"
                            /\ at'[Consumer(f)] = "crop" <=> at[Consumer(f)] = "crop"
      BY <1>0, <1>1, <1>4, <1>10
    <2>2. UNCHANGED <<current, iteration, dma>>
      BY <1>1
    <2> QED
      BY <1>7, <1>9, <1>10, <1>14, <2>1, <2>2, CameraStays
  <1>16. CallbackFirst'
    <2>1. \A f \in Buffer : at'[Consumer(f)] = "callback" =>
            at[Consumer(f)] = "callback" /\ Resume(Consumer(f)) # Resume(c0)
      BY <1>0, <1>1, <1>4, <1>10, Tasks
    <2> QED
      BY <1>9, <1>10, <1>14, <2>1, CallbackStays
  <1>17. \A f \in Buffer : SentWaiting(f)' <=> f = f0
    <2>1. SentWaiting(f0)'
      BY <1>0, <1>4, <1>7, <1>9 DEF SentWaiting
    <2>2. \A f \in Buffer : f # f0 => ~SentWaiting(f)'
      BY <1>2, <1>7, <1>10 DEF SentWaiting, Waits
    <2> QED
      BY <2>1, <2>2
  <1>18. OneSend'
    <2>1. \A f \in Buffer : at'[Send(f)] # "done" => f = f0
      BY <1>2, <1>10
    <2>2. ~spi' /\ ~Queued(EventTask(cpx_done))' /\ ~Queued(EventTask(streamer_tx_done))'
      BY <1>1, <1>2, <1>9
    <2> QED
      BY <1>1, <1>17, <2>1, <2>2 DEF OneSend
  <1>19. /\ ~uart' /\ cluster'.phase = "idle" /\ cluster'.input = NoBuffer
         /\ ~Queued(EventTask(network_done))' /\ ~Queued(EventTask(frame_done))'
         /\ camera_started'
    BY <1>1, <1>2, <1>9
  <1>20. (onboard => onboard') /\ (onboard' => onboard)
    <2>1. UNCHANGED onboard
      OBVIOUS
    <2> QED
      BY <2>1, SameOnboard
  <1>21. OneInference'
    <2>1. at'[Inference] # "done" =>
            onboard' /\ ~rt'.done[inference_done] /\ ~Queued(EventTask(inference_done))'
      <3>1. at'[Inference] # "done" => onboard
        BY <1>4
      <3>2. onboard => ~rt'.done[inference_done] /\ ~Queued(EventTask(inference_done))'
        BY <1>2, <1>3, <1>7, <1>9
      <3>3. onboard => onboard'
        BY <1>20
      <3> QED
        BY <3>1, <3>2, <3>3
    <2>2. \A f \in Buffer : at'[Consumer(f)] \in {"await inference", "released"} => onboard'
      <3>1. \A f \in Buffer : at'[Consumer(f)] \in {"await inference", "released"} => onboard
        BY <1>0, <1>4, <1>10 DEF FrameInv, OneInference
      <3>2. onboard => onboard'
        BY <1>20
      <3> QED
        BY <3>1, <3>2
    <2> QED
      BY <1>19, <2>1, <2>2 DEF OneInference
  <1>22. InputReturned'
    <2>1. InputUnread' => onboard
      BY <1>4, <1>19 DEF InputUnread
    <2>2. onboard => ~rt'.done[frame_done]
      BY <1>3, <1>7
    <2>3. onboard' => /\ InputUnread'
                      /\ inference_args' = f0 /\ HoldsInput(f0)'
      <3>1. onboard' => onboard
        BY <1>20
      <3>2. onboard => at'[Inference] = "input" /\ inference_args' = f0
        BY <1>1, <1>4
      <3>3. HoldsInput(f0)'
        BY <1>0, <1>4 DEF HoldsInput
      <3> QED
        BY <3>1, <3>2, <3>3 DEF InputUnread
    <2>4. PICK a0 : a0 = inference_args'
      OBVIOUS
    <2>5. onboard' => a0 \in Buffer /\ HoldsInput(a0)'
      BY <2>3, <2>4
    <2> QED
      BY <1>19, <2>1, <2>2, <2>3, <2>4, <2>5 DEF InputReturned
  <1>23. AwaitSendNext'
    <2>1. \A g \in Buffer : at'[Consumer(g)] # "await send"
      BY <1>0, <1>2, <1>4, <1>10
    <2> QED
      BY <2>1 DEF AwaitSendNext
  <1>24. UnsentKnown'
    <2>1. \A f \in Buffer : Unsent(f)' <=> Unsent(f)
      BY <1>0, <1>1, <1>2, <1>4, <1>10 DEF Unsent
    <2>2. \A f \in Buffer : at[Send(f)] = "send" => at'[Send(f)] = "send"
      BY <1>2
    <2> QED
      BY <1>1, <2>1, <2>2, UnsentStays
  <1> QED
    BY <1>5, <1>9, <1>11, <1>12, <1>13, <1>15, <1>16, <1>18, <1>21, <1>22, <1>23, <1>24
       DEF FrameInv
------------------------------------------------------------------------------
(* Each step keeps the invariant: streamer_send_task *)

\* The send that runs is the only one, and nothing is on the link.
LEMMA SendAlone ==
  ASSUME FrameInv, NEW f0 \in Buffer, Oldest(Resume(Send(f0)))
  PROVE  /\ SentWaiting(f0) /\ camera_started /\ ~rt.done[streamer_tx_done]
         /\ ~Queued(EventTask(streamer_tx_done))
         /\ \A f \in Buffer : f # f0 => at[Send(f)] = "done"
         /\ \A f \in Buffer : SentWaiting(f) => f = f0
         /\ ~spi /\ ~Queued(EventTask(cpx_done)) /\ Waiters(rt, cpx_done) = {}
PROOF
  <1>1. /\ Send(f0) \in Context /\ \A f \in Buffer : Send(f) \in Context
        /\ streamer_tx_done \in Event /\ cpx_done \in Event
    BY Contexts, Events
  <1>2. at[Send(f0)] # "done" /\ \A e \in Event : ~Waits(Send(f0), e)
    BY <1>1, RunsAlone
  <1>3. SentWaiting(f0) /\ ~Queued(EventTask(streamer_tx_done)) /\ camera_started
    BY <1>2 DEF FrameInv, OneSend, SentWaiting
  <1>4. ~rt.done[streamer_tx_done]
    BY <1>1, <1>3, WhoWaits DEF SentWaiting
  <1>5. \A f \in Buffer : SentWaiting(f) => f = f0
    BY <1>3 DEF FrameInv, OneSend
  <1>6. \A f \in Buffer : f # f0 => at[Send(f)] = "done"
    BY <1>5 DEF FrameInv, OneSend
  <1>7. \A f \in Buffer : ~Waits(Send(f), cpx_done)
    BY <1>1, <1>2, <1>6 DEF FrameInv, ContextsPlaced, Placed, Awaits
  <1>8. ~spi /\ ~Queued(EventTask(cpx_done))
    BY <1>7 DEF FrameInv, OneSend
  <1>9. Waiters(rt, cpx_done) = {}
    BY <1>1, <1>7, WhoWaits DEF Waits
  <1> QED
    BY <1>3, <1>4, <1>5, <1>6, <1>8, <1>9

\* What a step of a send leaves alone
LEMMA SendLeaves ==
  ASSUME FrameInv, NEW f0 \in Buffer,
         \A c \in Context : c # Send(f0) =>
           /\ at'[c] = at[c]
           /\ Queued(Resume(c))' <=> Queued(Resume(c))
           /\ \A e \in Event : Waits(c, e)' <=> Waits(c, e),
         \A e \in Event : e # streamer_tx_done =>
           (Queued(EventTask(e))' <=> Queued(EventTask(e))),
         \A a, b : Before(rt, a, b) /\ a # Resume(Send(f0)) => Before(rt', a, b),
         \A e \in Event : e # cpx_done => (rt'.done[e] <=> rt.done[e]),
         UNCHANGED <<iteration, current, dma, cluster, uart, camera_started, inference_args, onboard>>
  PROVE  /\ at'[Camera] = at[Camera] /\ at'[Inference] = at[Inference]
         /\ \A f \in Buffer : /\ at'[Consumer(f)] = at[Consumer(f)]
                              /\ SentWaiting(f)' <=> SentWaiting(f)
                              /\ f # f0 => at'[Send(f)] = at[Send(f)]
         /\ FirstCaptures' /\ CameraAlone' /\ CallbackFirst'
         /\ OneInference' /\ InputReturned' /\ AwaitSendNext'
PROOF
  <1>1. /\ at'[Camera] = at[Camera] /\ at'[Inference] = at[Inference]
        /\ Queued(Resume(Camera))' <=> Queued(Resume(Camera))
        /\ \A e \in Event : /\ Waits(Camera, e)' <=> Waits(Camera, e)
                            /\ Waits(Inference, e)' <=> Waits(Inference, e)
        /\ \A f \in Buffer :
             /\ at'[Consumer(f)] = at[Consumer(f)]
             /\ Queued(Resume(Consumer(f)))' <=> Queued(Resume(Consumer(f)))
             /\ \A e \in Event : Waits(Consumer(f), e)' <=> Waits(Consumer(f), e)
             /\ f # f0 => at'[Send(f)] = at[Send(f)]
    BY Contexts
  <1>2. /\ {streamer_tx_done, inference_done, frame_done, network_done, cpx_done} \subseteq Event
        /\ \A f \in Buffer : Done(f) \in Event /\ Done(f) \notin {streamer_tx_done, cpx_done}
        /\ streamer_tx_done \notin {inference_done, frame_done, network_done, cpx_done}
        /\ cpx_done \notin {inference_done, frame_done, network_done}
        /\ current \in Buffer
    BY Events DEF FrameInv, FramesTyped, ContextsTyped
  <1>3. /\ \A f \in Buffer : Resume(Consumer(f)) # Resume(Send(f0))
        /\ EventTask(frame_done) # Resume(Send(f0))
    BY Contexts, Tasks
  <1>4. \A f \in Buffer : SentWaiting(f)' <=> SentWaiting(f)
    BY <1>1, <1>2 DEF SentWaiting
  <1>5. FirstCaptures' /\ CameraAlone'
    BY <1>1, <1>2, CameraStays
  <1>6. CallbackFirst'
    BY <1>1, <1>2, <1>3, CallbackStays
  <1>7. OneInference' /\ InputReturned'
    <2>1. \A f \in Buffer : /\ at'[Consumer(f)] \in {"await inference", "released"} => onboard
                            /\ HoldsInput(f) => HoldsInput(f)'
      BY <1>1, <1>2 DEF FrameInv, OneInference, HoldsInput
    <2> QED
      BY <1>1, <1>2, <1>3, <2>1, InferenceStays
  <1>8. AwaitSendNext'
    <2>1. rt.done[inference_done] => rt'.done[inference_done]
      BY <1>2
    <2>2. \A f \in Buffer : Queued(EventTask(Done(f)))' <=> Queued(EventTask(Done(f)))
      BY <1>2
    <2>3. Queued(Resume(Camera))' => Queued(Resume(Camera))
      BY <1>1
    <2> SUFFICES ASSUME NEW g \in Buffer, at'[Consumer(g)] = "await send"
                 PROVE  /\ at[Consumer(g)] = "await send"
                        /\ \A b : Before(rt, Resume(Consumer(g)), b) =>
                                    Before(rt', Resume(Consumer(g)), b)
                        /\ Waits(Consumer(g), streamer_tx_done)' => Waits(Consumer(g), streamer_tx_done)
                        /\ \A f \in Buffer : f # g =>
                             /\ SentWaiting(f) => SentWaiting(f)'
                             /\ at'[Consumer(f)] = at[Consumer(f)]
                             /\ Queued(Resume(Consumer(f)))' => Queued(Resume(Consumer(f)))
      BY <1>1, <2>1, <2>2, <2>3, AwaitStays
    <2> QED
      BY <1>1, <1>2, <1>3, <1>4
  <1> QED
    BY <1>1, <1>4, <1>5, <1>6, <1>7, <1>8

LEMMA SendTyped ==
  ASSUME FrameInv, NEW f0 \in Buffer, at' \in [Context -> Place],
         \A c \in Context : c # Send(f0) => at'[c] = at[c],
         at'[Send(f0)] \in {"done", "send", "sending"}, unsent' \in Seq(Buffer), spi' \in BOOLEAN,
         UNCHANGED <<iteration, current, dma, cluster, uart, camera_started, onboard>>
  PROVE  FramesTyped'
PROOF
  <1>1. /\ at'[Camera] = at[Camera] /\ at'[Inference] = at[Inference]
        /\ \A f \in Buffer : /\ at'[Consumer(f)] = at[Consumer(f)]
                             /\ f # f0 => at'[Send(f)] = at[Send(f)]
    BY Contexts
  <1>2. /\ \A f \in Buffer :
             /\ at'[Consumer(f)] \in {"done", "crop", "callback", "await inference", "await send",
                                      "sent", "released"}
             /\ at'[Send(f)] \in {"done", "send", "sending"}
        /\ at'[Inference] \in {"done", "input", "network", "uart"}
    BY <1>1 DEF FrameInv, FramesTyped, ContextsTyped
  <1>3. /\ {camera_started', spi', uart'} \subseteq BOOLEAN
        /\ cluster' \in [phase : {"idle", "layer 0", "layers"}, input : Buffer \cup {NoBuffer}]
    BY DEF FrameInv, FramesTyped, DevicesTyped
  <1> QED
    BY <1>1, <1>2, <1>3, TypedStays

\* The buffers still to be sent, without the one whose send starts
LEMMA WithoutOne ==
  ASSUME NEW s \in Seq(Buffer), IsInjective(s), NEW f \in Range(s)
  PROVE  /\ Without(s, f) \in Seq(Buffer) /\ IsInjective(Without(s, f))
         /\ Range(Without(s, f)) = Range(s) \ {f}
         /\ Len(Without(s, f)) \in Nat /\ ~(Len(Without(s, f)) > 1)
PROOF
  <1>1. /\ Len(s) \in Nat /\ DOMAIN s = 1 .. Len(s) /\ \A i \in 1 .. Len(s) : s[i] \in {0, 1}
    BY Buffers
  <1>2. PICK i \in 1 .. Len(s) : s[i] = f
    BY <1>1 DEF Range
  <1>3. Len(s) \in {1, 2}
    <2>1. Len(s) >= 1
      BY <1>1, <1>2
    <2>2. ~(Len(s) >= 3)
      <3>1. SUFFICES ASSUME Len(s) >= 3
                     PROVE  FALSE
        OBVIOUS
      <3>2. 1 \in DOMAIN s /\ 2 \in DOMAIN s /\ 3 \in DOMAIN s
        BY <1>1, <3>1
      <3>3. s[1] # s[2] /\ s[1] # s[3] /\ s[2] # s[3]
        BY <3>2 DEF IsInjective
      <3>4. s[1] \in {0, 1} /\ s[2] \in {0, 1} /\ s[3] \in {0, 1}
        BY <1>1, <3>2
      <3> QED
        BY <3>3, <3>4
    <2> QED
      BY <1>1, <2>1, <2>2
  <1>4. s # << >> /\ Head(s) = s[1]
    BY <1>3
  <1>5. CASE s[1] = f
    <2>1. Without(s, f) = Tail(s)
      BY <1>4, <1>5 DEF Without
    <2>2. Tail(s) \in Seq(Buffer) /\ IsInjective(Tail(s)) /\ Range(Tail(s)) = Range(s) \ {Head(s)}
      BY <1>4, TailOnce
    <2>3. Len(Tail(s)) = Len(s) - 1
      BY <1>4
    <2> QED
      BY <1>3, <1>4, <1>5, <2>1, <2>2, <2>3
  <1>6. CASE s[1] # f
    <2>1. Len(s) = 2 /\ i = 2 /\ s[2] = f /\ s[1] \in Buffer
      BY <1>2, <1>3, <1>6
    <2>2. PICK t : t = SubSeq(s, 1, 1)
      OBVIOUS
    <2>3. t \in Seq(Buffer) /\ Len(t) = 1 /\ t[1] = s[1] /\ DOMAIN t = 1 .. 1
      BY <2>1, <2>2
    <2>4. Without(s, f) = t
      BY <1>4, <1>6, <2>1, <2>2 DEF Without
    <2>5. Range(s) = {s[1], s[2]}
      BY <1>1, <2>1 DEF Range
    <2>6. Range(t) = {s[1]}
      BY <2>3 DEF Range
    <2>7. IsInjective(t)
      BY <2>3 DEF IsInjective
    <2> QED
      BY <1>6, <2>1, <2>3, <2>4, <2>5, <2>6, <2>7
  <1> QED
    BY <1>5, <1>6

\* A packet is given to the link, the first or another.
LEMMA PacketKeeps ==
  ASSUME FrameInv, NEW f0 \in Buffer, Oldest(Resume(Send(f0))),
         at' = [at EXCEPT ![Send(f0)] = "sending"], spi' = TRUE,
         rt' = WaitEvent(InitEvent(Popped(rt), cpx_done), cpx_done, Send(f0)),
         unsent' = IF at[Send(f0)] = "send" THEN Without(unsent, f0) ELSE unsent,
         UNCHANGED <<camera, dma, cluster, uart, camera_started, inference_args, failed, onboard>>
  PROVE  FrameInv'
PROOF
  <1>0. PICK c0 : c0 = Send(f0)
    OBVIOUS
  <1>1. /\ c0 \in Context /\ c0 # Camera
        /\ \A f \in Buffer : Send(f) = c0 <=> f = f0
        /\ UNCHANGED <<iteration, current, dma, cluster, uart, camera_started, inference_args, failed,
                       onboard>>
    BY <1>0, Contexts DEF camera
  <1>2. /\ SentWaiting(f0) /\ camera_started /\ ~rt.done[streamer_tx_done]
        /\ ~Queued(EventTask(streamer_tx_done))
        /\ \A f \in Buffer : f # f0 => at[Send(f)] = "done"
        /\ \A f \in Buffer : SentWaiting(f) => f = f0
        /\ ~Queued(EventTask(cpx_done)) /\ Waiters(rt, cpx_done) = {}
    BY SendAlone
  <1>3. cpx_done \in Event /\ streamer_tx_done \in Event /\ cpx_done # streamer_tx_done
    BY Events
  <1>4. Moves(c0, "sending", {}, {cpx_done}, {cpx_done})
    BY <1>0, <1>1, <1>2, <1>3, Arms
  <1>5. at[c0] \in {"send", "sending"}
    <2>1. at[c0] # "done"
      BY <1>0, <1>1, RunsAlone
    <2> QED
      BY <1>0, <2>1 DEF FrameInv, FramesTyped, ContextsTyped
  <1>6. /\ Known(rt') /\ EventsQuiet' /\ ContextsPlaced'
        /\ at'[c0] = "sending" /\ at' \in [Context -> Place]
        /\ \A c \in Context : c # c0 => at'[c] = at[c]
        /\ \A c \in Context : c # c0 =>
             /\ Queued(Resume(c))' <=> Queued(Resume(c))
             /\ \A e \in Event : Waits(c, e)' <=> Waits(c, e)
        /\ Waits(c0, cpx_done)'
        /\ \A e : Queued(EventTask(e))' <=> Queued(EventTask(e))
        /\ \A a, b : Before(rt, a, b) => b # Resume(c0) /\ (a # Resume(c0) => Before(rt', a, b))
        /\ \A e \in Event : e # cpx_done => (rt'.done[e] <=> rt.done[e])
    <2>1. "sending" \in Place /\ "sending" # "done" /\ UNCHANGED current
      BY <1>1 DEF Place
    <2>2. at'[c0] = "sending"
      BY <1>0, <1>1 DEF FrameInv, FramesTyped, ContextsTyped
    <2>3. ~rt'.done[cpx_done] /\ \A e \in Event : e # cpx_done => (rt'.done[e] <=> rt.done[e])
      BY <1>3, <1>4 DEF Moves
    <2>4. Awaits(c0, cpx_done)'
      BY <2>2 DEF Awaits
    <2> QED
      BY <1>1, <1>3, <1>4, <2>1, <2>3, <2>4, WaitMoves
  <1>7. /\ at'[Camera] = at[Camera] /\ at'[Inference] = at[Inference]
        /\ \A f \in Buffer : /\ at'[Consumer(f)] = at[Consumer(f)]
                             /\ SentWaiting(f)' <=> SentWaiting(f)
                             /\ f # f0 => at'[Send(f)] = at[Send(f)]
        /\ FirstCaptures' /\ CameraAlone' /\ CallbackFirst'
        /\ OneInference' /\ InputReturned' /\ AwaitSendNext'
    BY <1>0, <1>1, <1>6, SendLeaves
  <1>8. /\ unsent \in Seq(Buffer) /\ IsInjective(unsent)
        /\ \A f \in Buffer : f \in Range(unsent) <=> Unsent(f)
    BY DEF FrameInv, FramesTyped, ContextsTyped, UnsentKnown
  <1>9. at[c0] = "send" => f0 \in Range(unsent)
    BY <1>0, <1>8 DEF Unsent
  <1>10. at[c0] = "send" =>
           /\ unsent' \in Seq(Buffer) /\ IsInjective(unsent') /\ Range(unsent') = Range(unsent) \ {f0}
           /\ ~(Len(unsent') > 1)
    <2>1. ASSUME at[c0] = "send"
          PROVE  LET rest == Without(unsent, f0)
                 IN  /\ rest \in Seq(Buffer) /\ IsInjective(rest) /\ Range(rest) = Range(unsent) \ {f0}
                     /\ Len(rest) \in Nat /\ ~(Len(rest) > 1)
      BY <1>8, <1>9, <2>1, WithoutOne
    <2> QED
      BY <1>0, <2>1
  <1>11. at[c0] = "sending" => unsent' = unsent
    BY <1>0
  <1>12. FramesTyped'
    <2>1. unsent' \in Seq(Buffer)
      BY <1>5, <1>8, <1>10, <1>11
    <2> QED
      BY <1>0, <1>1, <1>6, <2>1, SendTyped
  <1>13. OneSend'
    <2>1. \A f \in Buffer : at'[Send(f)] # "done" => f = f0
      BY <1>2, <1>7
    <2>2. /\ ~Queued(EventTask(streamer_tx_done))' /\ ~Queued(EventTask(cpx_done))'
          /\ camera_started'
      BY <1>1, <1>2, <1>6
    <2>3. \A f \in Buffer : SentWaiting(f)' <=> f = f0
      BY <1>2, <1>7
    <2> QED
      BY <1>0, <1>6, <2>1, <2>2, <2>3 DEF OneSend
  <1>14. at[Consumer(f0)] = "sent" /\ (f0 = current => at[Camera] # "cropped")
    <2>1. at[Consumer(f0)] = "sent"
      BY <1>2 DEF SentWaiting
    <2> QED
      BY <2>1 DEF FrameInv, CameraAlone
  <1>15. ~Unsent(f0)' /\ \A f \in Buffer : f # f0 => (Unsent(f)' <=> Unsent(f))
    BY <1>0, <1>1, <1>6, <1>7, <1>14 DEF Unsent
  <1>16. UnsentKnown'
    <2>1. CASE at[c0] = "send"
      <3>1. \A f \in Buffer : f \in Range(unsent)' <=> Unsent(f)'
        BY <1>8, <1>10, <1>15, <2>1
      <3> QED
        BY <1>10, <2>1, <3>1 DEF UnsentKnown
    <2>2. CASE at[c0] = "sending"
      <3>1. ~Unsent(f0)
        BY <1>0, <1>14, <2>2 DEF Unsent
      <3>2. \A f \in Buffer : Unsent(f)' <=> Unsent(f)
        BY <1>15, <3>1
      <3>3. \A f \in Buffer : at[Send(f)] = "send" => at'[Send(f)] = "send"
        BY <1>0, <1>7, <2>2
      <3> QED
        BY <1>1, <1>11, <2>2, <3>2, <3>3, UnsentStays
    <2> QED
      BY <1>5, <2>1, <2>2
  <1> QED
    BY <1>1, <1>6, <1>7, <1>12, <1>13, <1>16 DEF FrameInv

LEMMA SendStartsKeeps ==
  ASSUME FrameInv, NEW f0 \in Buffer, Oldest(Resume(Send(f0))), SendStarts(Popped(rt), f0),
         UNCHANGED onboard
  PROVE  FrameInv'
PROOF
  BY PacketKeeps DEF SendStarts

LEMMA SendNextKeeps ==
  ASSUME FrameInv, NEW f0 \in Buffer, Oldest(Resume(Send(f0))), SendNext(Popped(rt), f0),
         UNCHANGED onboard
  PROVE  FrameInv'
PROOF
  <1>1. at' = [at EXCEPT ![Send(f0)] = "sending"] /\ at[Send(f0)] = "sending"
    BY DEF SendNext, FrameInv, FramesTyped, ContextsTyped
  <1> QED
    BY <1>1, PacketKeeps DEF SendNext

LEMMA SendReturnsKeeps ==
  ASSUME ~DoneAtPush, FrameInv, NEW f0 \in Buffer, Oldest(Resume(Send(f0))),
         SendReturns(Popped(rt), f0), UNCHANGED onboard
  PROVE  FrameInv'
PROOF
  <1>0. PICK c0 : c0 = Send(f0)
    OBVIOUS
  <1>1. /\ c0 \in Context /\ c0 # Camera
        /\ at[c0] = "sending" /\ at' = [at EXCEPT ![c0] = "done"]
        /\ rt' = PushEvent(Popped(rt), streamer_tx_done)
        /\ UNCHANGED <<iteration, current, dma, cluster, spi, uart, camera_started, inference_args,
                       unsent, failed, onboard>>
    BY <1>0, Contexts DEF SendReturns, camera, devices
  <1>2. /\ SentWaiting(f0) /\ camera_started /\ ~rt.done[streamer_tx_done]
        /\ ~Queued(EventTask(streamer_tx_done))
        /\ \A f \in Buffer : f # f0 => at[Send(f)] = "done"
        /\ ~spi /\ ~Queued(EventTask(cpx_done))
    BY SendAlone
  <1>3. cpx_done \in Event /\ streamer_tx_done \in Event /\ cpx_done # streamer_tx_done
    BY Events
  <1>4. Moves(c0, "done", {EventTask(streamer_tx_done)}, {}, {})
    BY <1>0, <1>1, <1>2, <1>3, Pushes
  <1>5. /\ Known(rt') /\ EventsQuiet' /\ ContextsPlaced'
        /\ at'[c0] = "done" /\ at' \in [Context -> Place]
        /\ \A c \in Context : c # c0 => at'[c] = at[c]
        /\ \A c \in Context : c # c0 =>
             /\ Queued(Resume(c))' <=> Queued(Resume(c))
             /\ \A e \in Event : Waits(c, e)' <=> Waits(c, e)
        /\ \A e : Queued(EventTask(e))' <=> Queued(EventTask(e)) \/ e = streamer_tx_done
        /\ \A a, b : Before(rt, a, b) => b # Resume(c0) /\ (a # Resume(c0) => Before(rt', a, b))
        /\ \A e \in Event : rt'.done[e] <=> rt.done[e]
    BY <1>1, <1>2, <1>3, <1>4, PushMoves
  <1>6. /\ at'[Camera] = at[Camera] /\ at'[Inference] = at[Inference]
        /\ \A f \in Buffer : /\ at'[Consumer(f)] = at[Consumer(f)]
                             /\ SentWaiting(f)' <=> SentWaiting(f)
                             /\ f # f0 => at'[Send(f)] = at[Send(f)]
        /\ FirstCaptures' /\ CameraAlone' /\ CallbackFirst'
        /\ OneInference' /\ InputReturned' /\ AwaitSendNext'
    BY <1>0, <1>1, <1>5, SendLeaves
  <1>7. FramesTyped'
    <2>1. unsent' \in Seq(Buffer) /\ spi' \in BOOLEAN
      BY <1>1 DEF FrameInv, FramesTyped, ContextsTyped, DevicesTyped
    <2> QED
      BY <1>0, <1>1, <1>5, <2>1, SendTyped
  <1>8. OneSend'
    <2>1. \A f \in Buffer : at'[Send(f)] = "done"
      BY <1>0, <1>2, <1>5, <1>6
    <2>2. ~spi' /\ ~Queued(EventTask(cpx_done))' /\ camera_started'
      BY <1>1, <1>2, <1>3, <1>5
    <2>3. SentWaiting(f0)' /\ \A f, g \in Buffer : SentWaiting(f)' /\ SentWaiting(g)' => f = g
      BY <1>2, <1>6 DEF FrameInv, OneSend
    <2> QED
      BY <2>1, <2>2, <2>3 DEF OneSend
  <1>9. UnsentKnown'
    <2>1. \A f \in Buffer : Unsent(f)' <=> Unsent(f)
      BY <1>0, <1>1, <1>5, <1>6 DEF Unsent
    <2>2. \A f \in Buffer : at[Send(f)] = "send" => at'[Send(f)] = "send"
      BY <1>0, <1>1, <1>6
    <2> QED
      BY <1>1, <2>1, <2>2, UnsentStays
  <1> QED
    BY <1>1, <1>5, <1>6, <1>7, <1>8, <1>9 DEF FrameInv
------------------------------------------------------------------------------
(* Each step keeps the invariant: inference_task *)

\* The inference that runs waits for nothing: the network and the UART are idle.
LEMMA InferenceAlone ==
  ASSUME FrameInv, Oldest(Resume(Inference))
  PROVE  /\ onboard /\ camera_started /\ ~rt.done[inference_done]
         /\ ~Queued(EventTask(inference_done))
         /\ ~uart /\ cluster.phase = "idle" /\ cluster.input = NoBuffer
         /\ ~Queued(EventTask(network_done)) /\ Waiters(rt, network_done) = {}
         /\ ~Queued(EventTask(frame_done))
         /\ at[Inference] = "input" => ~rt.done[frame_done]
         /\ at[Inference] # "input" => rt.done[frame_done]
         /\ ~rt.done[frame_done] => inference_args \in Buffer /\ HoldsInput(inference_args)
PROOF
  <1>1. Inference \in Context /\ network_done \in Event
    BY Contexts, Events
  <1>2. at[Inference] # "done" /\ \A e \in Event : ~Waits(Inference, e)
    BY <1>1, RunsAlone
  <1>3. /\ onboard /\ camera_started /\ ~rt.done[inference_done]
        /\ ~Queued(EventTask(inference_done))
    BY <1>2 DEF FrameInv, OneInference
  <1>4. ~uart /\ cluster.phase = "idle" /\ ~Queued(EventTask(network_done)) /\ ~Inferring
    BY <1>1, <1>2 DEF FrameInv, OneInference, Inferring
  <1>5. cluster.input = NoBuffer
    BY <1>4 DEF FrameInv, OneInference
  <1>6. ~Queued(EventTask(frame_done))
    BY <1>4 DEF FrameInv, InputReturned
  <1>7. Waiters(rt, network_done) = {}
    BY <1>1, <1>2, WhoWaits DEF Waits
  <1>8. at[Inference] = "input" => ~rt.done[frame_done]
    BY DEF FrameInv, InputReturned, InputUnread
  <1>9. at[Inference] # "input" => rt.done[frame_done]
    BY <1>3, <1>4, <1>6 DEF FrameInv, InputReturned, InputUnread
  <1>10. ~rt.done[frame_done] => inference_args \in Buffer /\ HoldsInput(inference_args)
    BY <1>3 DEF FrameInv, InputReturned
  <1> QED
    BY <1>3, <1>4, <1>5, <1>6, <1>7, <1>8, <1>9, <1>10

\* What a step of the inference leaves alone
LEMMA InferenceLeaves ==
  ASSUME FrameInv, at' \in [Context -> Place], at'[Inference] \in {"done", "input", "network", "uart"},
         \A c \in Context : c # Inference =>
           /\ at'[c] = at[c]
           /\ Queued(Resume(c))' <=> Queued(Resume(c))
           /\ \A e \in Event : Waits(c, e)' <=> Waits(c, e),
         \A e \in Event : e # inference_done => (Queued(EventTask(e))' <=> Queued(EventTask(e))),
         \A a, b : Before(rt, a, b) /\ a # Resume(Inference) => Before(rt', a, b),
         \A e \in Event : e # network_done => (rt'.done[e] <=> rt.done[e]),
         uart' \in BOOLEAN,
         cluster' \in [phase : {"idle", "layer 0", "layers"}, input : Buffer \cup {NoBuffer}],
         UNCHANGED <<iteration, current, dma, spi, unsent, camera_started, inference_args, onboard>>
  PROVE  /\ FramesTyped'
         /\ \A f \in Buffer : /\ at'[Consumer(f)] = at[Consumer(f)]
                              /\ HoldsInput(f)' <=> HoldsInput(f)
         /\ FirstCaptures' /\ CameraAlone' /\ CallbackFirst' /\ OneSend' /\ AwaitSendNext'
         /\ UnsentKnown'
PROOF
  <1>1. /\ at'[Camera] = at[Camera]
        /\ Queued(Resume(Camera))' <=> Queued(Resume(Camera))
        /\ \A e \in Event : Waits(Camera, e)' <=> Waits(Camera, e)
        /\ \A f \in Buffer :
             /\ at'[Consumer(f)] = at[Consumer(f)]
             /\ Queued(Resume(Consumer(f)))' <=> Queued(Resume(Consumer(f)))
             /\ \A e \in Event : Waits(Consumer(f), e)' <=> Waits(Consumer(f), e)
             /\ at'[Send(f)] = at[Send(f)]
             /\ \A e \in Event : Waits(Send(f), e)' <=> Waits(Send(f), e)
    BY Contexts
  <1>2. /\ {streamer_tx_done, inference_done, frame_done, network_done, cpx_done} \subseteq Event
        /\ \A f \in Buffer : Done(f) \in Event /\ Done(f) \notin {inference_done, network_done}
        /\ inference_done \notin {streamer_tx_done, frame_done, network_done, cpx_done}
        /\ network_done \notin {streamer_tx_done, frame_done, cpx_done}
        /\ current \in Buffer
    BY Events DEF FrameInv, FramesTyped, ContextsTyped
  <1>3. \A f \in Buffer : Resume(Consumer(f)) # Resume(Inference)
    BY Contexts, Tasks
  <1>4. \A f \in Buffer : (SentWaiting(f)' <=> SentWaiting(f)) /\ (HoldsInput(f)' <=> HoldsInput(f))
    BY <1>1, <1>2 DEF SentWaiting, HoldsInput
  <1>5. FirstCaptures' /\ CameraAlone'
    BY <1>1, <1>2, CameraStays
  <1>6. CallbackFirst'
    BY <1>1, <1>2, <1>3, CallbackStays
  <1>7. OneSend'
    <2>1. \A f \in Buffer :
            at'[Consumer(f)] \in {"await inference", "await send", "sent", "released"} =>
              camera_started
      BY <1>1 DEF FrameInv, OneSend
    <2> QED
      BY <1>1, <1>2, <1>4, <2>1, SendsStay
  <1>8. AwaitSendNext'
    <2>1. rt.done[inference_done] => rt'.done[inference_done]
      BY <1>2
    <2>2. \A f \in Buffer : Queued(EventTask(Done(f)))' <=> Queued(EventTask(Done(f)))
      BY <1>2
    <2>3. Queued(Resume(Camera))' => Queued(Resume(Camera))
      BY <1>1
    <2> SUFFICES ASSUME NEW g \in Buffer, at'[Consumer(g)] = "await send"
                 PROVE  /\ at[Consumer(g)] = "await send"
                        /\ \A b : Before(rt, Resume(Consumer(g)), b) =>
                                    Before(rt', Resume(Consumer(g)), b)
                        /\ Waits(Consumer(g), streamer_tx_done)' => Waits(Consumer(g), streamer_tx_done)
                        /\ \A f \in Buffer : f # g =>
                             /\ SentWaiting(f) => SentWaiting(f)'
                             /\ at'[Consumer(f)] = at[Consumer(f)]
                             /\ Queued(Resume(Consumer(f)))' => Queued(Resume(Consumer(f)))
      BY <1>1, <2>1, <2>2, <2>3, AwaitStays
    <2> QED
      BY <1>1, <1>2, <1>3, <1>4
  <1>9. UnsentKnown'
    <2>1. \A f \in Buffer : Unsent(f)' <=> Unsent(f)
      BY <1>1 DEF Unsent
    <2> QED
      BY <1>1, <2>1, UnsentStays
  <1>10. FramesTyped'
    <2>1. /\ \A f \in Buffer :
               /\ at'[Consumer(f)] \in {"done", "crop", "callback", "await inference", "await send",
                                        "sent", "released"}
               /\ at'[Send(f)] \in {"done", "send", "sending"}
          /\ unsent' \in Seq(Buffer)
      BY <1>1 DEF FrameInv, FramesTyped, ContextsTyped
    <2>2. {camera_started', spi', uart'} \subseteq BOOLEAN
      BY DEF FrameInv, FramesTyped, DevicesTyped
    <2> QED
      BY <1>1, <2>1, <2>2, TypedStays
  <1> QED
    BY <1>1, <1>4, <1>5, <1>6, <1>7, <1>8, <1>9, <1>10

LEMMA RunNetworkKeeps ==
  ASSUME FrameInv, Oldest(Resume(Inference)), RunNetwork(Popped(rt)), UNCHANGED onboard
  PROVE  FrameInv'
PROOF
  <1>0. PICK a0 : a0 = inference_args
    OBVIOUS
  <1>1. /\ Inference \in Context /\ Inference # Camera /\ network_done \in Event
        /\ inference_done \in Event /\ frame_done \in Event
        /\ network_done \notin {inference_done, frame_done}
        /\ at[Inference] = "input" /\ at' = [at EXCEPT ![Inference] = "network"]
        /\ rt' = WaitEvent(InitEvent(Popped(rt), network_done), network_done, Inference)
        /\ cluster' = [phase |-> "layer 0", input |-> a0] /\ inference_args' = a0
        /\ UNCHANGED <<iteration, current, dma, spi, uart, unsent, camera_started, inference_args,
                       failed, onboard>>
    BY <1>0, Contexts, Events DEF RunNetwork, camera
  <1>2. /\ onboard /\ camera_started /\ ~rt.done[inference_done]
        /\ ~Queued(EventTask(inference_done)) /\ ~uart
        /\ ~Queued(EventTask(network_done)) /\ Waiters(rt, network_done) = {}
        /\ ~Queued(EventTask(frame_done)) /\ ~rt.done[frame_done]
        /\ a0 \in Buffer /\ HoldsInput(a0)
    BY <1>0, <1>1, InferenceAlone
  <1>3. Moves(Inference, "network", {}, {network_done}, {network_done})
    BY <1>1, <1>2, Arms
  <1>4. /\ Known(rt') /\ EventsQuiet' /\ ContextsPlaced'
        /\ at'[Inference] = "network" /\ at' \in [Context -> Place]
        /\ \A c \in Context : c # Inference => at'[c] = at[c]
        /\ \A c \in Context : c # Inference =>
             /\ Queued(Resume(c))' <=> Queued(Resume(c))
             /\ \A e \in Event : Waits(c, e)' <=> Waits(c, e)
        /\ Waits(Inference, network_done)'
        /\ \A e : Queued(EventTask(e))' <=> Queued(EventTask(e))
        /\ \A a, b : Before(rt, a, b) => b # Resume(Inference) /\ (a # Resume(Inference) => Before(rt', a, b))
        /\ \A e \in Event : e # network_done => (rt'.done[e] <=> rt.done[e])
    <2>1. "network" \in Place /\ "network" # "done" /\ UNCHANGED current
      BY <1>1 DEF Place
    <2>2. at'[Inference] = "network"
      BY <1>1 DEF FrameInv, FramesTyped, ContextsTyped
    <2>3. ~rt'.done[network_done] /\ \A e \in Event : e # network_done => (rt'.done[e] <=> rt.done[e])
      BY <1>1, <1>3 DEF Moves
    <2>4. Awaits(Inference, network_done)'
      BY <2>2 DEF Awaits
    <2> QED
      BY <1>1, <1>3, <2>1, <2>3, <2>4, WaitMoves
  <1>5. uart' \in BOOLEAN
        /\ cluster' \in [phase : {"idle", "layer 0", "layers"}, input : Buffer \cup {NoBuffer}]
    BY <1>1, <1>2 DEF FrameInv, FramesTyped, DevicesTyped
  <1>6. /\ FramesTyped'
        /\ \A f \in Buffer : /\ at'[Consumer(f)] = at[Consumer(f)]
                             /\ HoldsInput(f)' <=> HoldsInput(f)
        /\ FirstCaptures' /\ CameraAlone' /\ CallbackFirst' /\ OneSend' /\ AwaitSendNext'
        /\ UnsentKnown'
    BY <1>1, <1>4, <1>5, InferenceLeaves
  <1>7. /\ onboard' /\ camera_started' /\ ~uart'
        /\ ~rt'.done[inference_done] /\ ~rt'.done[frame_done]
        /\ \A e \in {inference_done, frame_done, network_done} : ~Queued(EventTask(e))'
        /\ HoldsInput(a0)'
    <2>1. onboard'
      BY <1>2, SameOnboard
    <2>2. camera_started' /\ ~uart'
      BY <1>1, <1>2
    <2>3. ~rt'.done[inference_done] /\ ~rt'.done[frame_done]
      BY <1>1, <1>2, <1>4
    <2>4. \A e \in {inference_done, frame_done, network_done} : ~Queued(EventTask(e))'
      BY <1>2, <1>4
    <2> QED
      BY <1>2, <1>6, <2>1, <2>2, <2>3, <2>4
  <1>8. Inferring'
    BY <1>4 DEF Inferring
  <1>9. OneInference'
    BY <1>1, <1>7, <1>8 DEF OneInference
  <1>10. InputReturned'
    <2>1. InputUnread'
      BY <1>1 DEF InputUnread
    <2> QED
      BY <1>1, <1>2, <1>7, <2>1 DEF InputReturned
  <1> QED
    BY <1>1, <1>4, <1>6, <1>9, <1>10 DEF FrameInv

LEMMA SendInferenceKeeps ==
  ASSUME FrameInv, Oldest(Resume(Inference)), SendInference(Popped(rt)), UNCHANGED onboard
  PROVE  FrameInv'
PROOF
  <1>1. /\ Inference \in Context /\ Inference # Camera /\ network_done \in Event
        /\ inference_done \in Event /\ frame_done \in Event
        /\ network_done \notin {inference_done, frame_done}
        /\ at[Inference] = "network" /\ at' = [at EXCEPT ![Inference] = "uart"]
        /\ rt' = WaitEvent(InitEvent(Popped(rt), network_done), network_done, Inference)
        /\ uart' = TRUE
        /\ UNCHANGED <<iteration, current, dma, spi, cluster, unsent, camera_started, inference_args,
                       failed, onboard>>
    BY Contexts, Events DEF SendInference, camera
  <1>2. /\ onboard /\ camera_started /\ ~rt.done[inference_done]
        /\ ~Queued(EventTask(inference_done))
        /\ cluster.phase = "idle" /\ cluster.input = NoBuffer
        /\ ~Queued(EventTask(network_done)) /\ Waiters(rt, network_done) = {}
        /\ ~Queued(EventTask(frame_done)) /\ rt.done[frame_done]
    BY <1>1, InferenceAlone
  <1>3. Moves(Inference, "uart", {}, {network_done}, {network_done})
    BY <1>1, <1>2, Arms
  <1>4. /\ Known(rt') /\ EventsQuiet' /\ ContextsPlaced'
        /\ at'[Inference] = "uart" /\ at' \in [Context -> Place]
        /\ \A c \in Context : c # Inference => at'[c] = at[c]
        /\ \A c \in Context : c # Inference =>
             /\ Queued(Resume(c))' <=> Queued(Resume(c))
             /\ \A e \in Event : Waits(c, e)' <=> Waits(c, e)
        /\ Waits(Inference, network_done)'
        /\ \A e : Queued(EventTask(e))' <=> Queued(EventTask(e))
        /\ \A a, b : Before(rt, a, b) => b # Resume(Inference) /\ (a # Resume(Inference) => Before(rt', a, b))
        /\ \A e \in Event : e # network_done => (rt'.done[e] <=> rt.done[e])
    <2>1. "uart" \in Place /\ "uart" # "done" /\ UNCHANGED current
      BY <1>1 DEF Place
    <2>2. at'[Inference] = "uart"
      BY <1>1 DEF FrameInv, FramesTyped, ContextsTyped
    <2>3. ~rt'.done[network_done] /\ \A e \in Event : e # network_done => (rt'.done[e] <=> rt.done[e])
      BY <1>1, <1>3 DEF Moves
    <2>4. Awaits(Inference, network_done)'
      BY <2>2 DEF Awaits
    <2> QED
      BY <1>1, <1>3, <2>1, <2>3, <2>4, WaitMoves
  <1>5. uart' \in BOOLEAN
        /\ cluster' \in [phase : {"idle", "layer 0", "layers"}, input : Buffer \cup {NoBuffer}]
    BY <1>1 DEF FrameInv, FramesTyped, DevicesTyped
  <1>6. /\ FramesTyped'
        /\ \A f \in Buffer : at'[Consumer(f)] = at[Consumer(f)]
        /\ FirstCaptures' /\ CameraAlone' /\ CallbackFirst' /\ OneSend' /\ AwaitSendNext'
        /\ UnsentKnown'
    BY <1>1, <1>4, <1>5, InferenceLeaves
  <1>7. /\ onboard' /\ camera_started'
        /\ ~rt'.done[inference_done] /\ rt'.done[frame_done]
        /\ \A e \in {inference_done, frame_done, network_done} : ~Queued(EventTask(e))'
        /\ cluster'.phase = "idle" /\ cluster'.input = NoBuffer
    <2>1. onboard'
      BY <1>2, SameOnboard
    <2>2. camera_started' /\ cluster'.phase = "idle" /\ cluster'.input = NoBuffer
      BY <1>1, <1>2
    <2>3. ~rt'.done[inference_done] /\ rt'.done[frame_done]
      BY <1>1, <1>2, <1>4
    <2>4. \A e \in {inference_done, frame_done, network_done} : ~Queued(EventTask(e))'
      BY <1>2, <1>4
    <2> QED
      BY <2>1, <2>2, <2>3, <2>4
  <1>8. OneInference'
    BY <1>4, <1>7 DEF OneInference
  <1>9. InputReturned'
    BY <1>4, <1>7 DEF InputReturned, InputUnread
  <1> QED
    BY <1>1, <1>4, <1>6, <1>8, <1>9 DEF FrameInv

LEMMA InferenceReturnsKeeps ==
  ASSUME ~DoneAtPush, FrameInv, Oldest(Resume(Inference)), InferenceReturns(Popped(rt)),
         UNCHANGED onboard
  PROVE  FrameInv'
PROOF
  <1>1. /\ Inference \in Context /\ Inference # Camera /\ network_done \in Event
        /\ inference_done \in Event /\ frame_done \in Event
        /\ inference_done \notin {network_done, frame_done}
        /\ at[Inference] = "uart" /\ at' = [at EXCEPT ![Inference] = "done"]
        /\ rt' = PushEvent(Popped(rt), inference_done)
        /\ UNCHANGED <<iteration, current, dma, spi, uart, cluster, unsent, camera_started,
                       inference_args, failed, onboard>>
    BY Contexts, Events DEF InferenceReturns, camera, devices
  <1>2. /\ onboard /\ camera_started /\ ~rt.done[inference_done]
        /\ ~Queued(EventTask(inference_done)) /\ ~uart
        /\ cluster.phase = "idle" /\ cluster.input = NoBuffer
        /\ ~Queued(EventTask(network_done))
        /\ ~Queued(EventTask(frame_done)) /\ rt.done[frame_done]
    BY <1>1, InferenceAlone
  <1>3. Moves(Inference, "done", {EventTask(inference_done)}, {}, {})
    BY <1>1, <1>2, Pushes
  <1>4. /\ Known(rt') /\ EventsQuiet' /\ ContextsPlaced'
        /\ at'[Inference] = "done" /\ at' \in [Context -> Place]
        /\ \A c \in Context : c # Inference => at'[c] = at[c]
        /\ \A c \in Context : c # Inference =>
             /\ Queued(Resume(c))' <=> Queued(Resume(c))
             /\ \A e \in Event : Waits(c, e)' <=> Waits(c, e)
        /\ \A e : Queued(EventTask(e))' <=> Queued(EventTask(e)) \/ e = inference_done
        /\ \A a, b : Before(rt, a, b) => b # Resume(Inference) /\ (a # Resume(Inference) => Before(rt', a, b))
        /\ \A e \in Event : rt'.done[e] <=> rt.done[e]
    BY <1>1, <1>2, <1>3, PushMoves
  <1>5. uart' \in BOOLEAN
        /\ cluster' \in [phase : {"idle", "layer 0", "layers"}, input : Buffer \cup {NoBuffer}]
    BY <1>1 DEF FrameInv, FramesTyped, DevicesTyped
  <1>6. /\ FramesTyped'
        /\ \A f \in Buffer : at'[Consumer(f)] = at[Consumer(f)]
        /\ FirstCaptures' /\ CameraAlone' /\ CallbackFirst' /\ OneSend' /\ AwaitSendNext'
        /\ UnsentKnown'
    BY <1>1, <1>4, <1>5, InferenceLeaves
  <1>7. /\ onboard' /\ camera_started' /\ rt'.done[frame_done] /\ ~uart'
        /\ \A e \in {frame_done, network_done} : ~Queued(EventTask(e))'
        /\ cluster'.phase = "idle" /\ cluster'.input = NoBuffer
    <2>1. onboard'
      BY <1>2, SameOnboard
    <2>2. camera_started' /\ ~uart' /\ cluster'.phase = "idle" /\ cluster'.input = NoBuffer
      BY <1>1, <1>2
    <2>3. rt'.done[frame_done]
      BY <1>1, <1>2, <1>4
    <2>4. \A e \in {frame_done, network_done} : ~Queued(EventTask(e))'
      BY <1>1, <1>2, <1>4
    <2> QED
      BY <2>1, <2>2, <2>3, <2>4
  <1>8. OneInference'
    BY <1>4, <1>7 DEF OneInference
  <1>9. InputReturned'
    BY <1>4, <1>7 DEF InputReturned, InputUnread
  <1> QED
    BY <1>1, <1>4, <1>6, <1>8, <1>9 DEF FrameInv
------------------------------------------------------------------------------
(* Each step keeps the invariant: an event's task runs *)

\* The contexts that wait for e0 are resumed, behind all that is queued.
RanEvent(e0) ==
  /\ Known(rt')
  /\ \A c \in Context : Queued(Resume(c))' <=> Queued(Resume(c)) \/ Waits(c, e0)
  /\ \A e \in Event : /\ Queued(EventTask(e))' <=> Queued(EventTask(e)) /\ e # e0
                      /\ \A c : Waits(c, e)' <=> Waits(c, e) /\ e # e0
                      /\ rt'.done[e] <=> rt.done[e] \/ e = e0
  /\ \A a, b : Before(rt, a, b) => b # EventTask(e0) /\ (a # EventTask(e0) => Before(rt', a, b))
  /\ \A c, d \in Context :
       Queued(Resume(c)) /\ Waits(d, e0) => Before(rt', Resume(c), Resume(d))

LEMMA EventRuns ==
  ASSUME ~DoneAtPush, FrameInv, NEW e0 \in Event, Oldest(EventTask(e0)),
         rt' = RunEvent(Popped(rt), e0)
  PROVE  RanEvent(e0) /\ Queued(EventTask(e0)) /\ ~rt.done[e0]
PROOF
  <1>1. /\ Known(rt) /\ Known(Popped(rt)) /\ Queued(EventTask(e0))
        /\ Queue(Popped(rt)) = Queue(rt) \ {EventTask(e0)}
        /\ \A a : ~Before(rt, a, EventTask(e0))
        /\ \A e \in Event : Waiters(Popped(rt), e) = Waiters(rt, e)
        /\ Popped(rt).done = rt.done
    BY PoppedFirst DEF FrameInv
  <1>2. \A c \in Waiters(rt, e0) : c \in Context /\ Resume(c) \notin Queue(rt)
    BY WhoWaits DEF Waits, Queued
  <1>3. LET after == RunEvent(Popped(rt), e0)
        IN  /\ Known(after)
            /\ Queue(after) = Queue(Popped(rt)) \cup {Resume(c) : c \in Waiters(Popped(rt), e0)}
            /\ Later(Popped(rt), after)
            /\ \A f \in Event : Waiters(after, f) = IF f = e0 THEN {} ELSE Waiters(Popped(rt), f)
            /\ after.done = [Popped(rt).done EXCEPT ![e0] = TRUE]
    <2>1. \A c \in Waiters(Popped(rt), e0) : Resume(c) \notin Queue(Popped(rt))
      BY <1>1, <1>2
    <2> QED
      BY <1>1, <2>1, KnownRun
  <1> DEFINE new == {Resume(c) : c \in Waiters(rt, e0)}
  <1>4. /\ Known(rt') /\ Queue(rt') = Queue(Popped(rt)) \cup new /\ Later(Popped(rt), rt')
        /\ \A f \in Event : Waiters(rt', f) = IF f = e0 THEN {} ELSE Waiters(rt, f)
        /\ rt'.done = [rt.done EXCEPT ![e0] = TRUE]
    BY <1>1, <1>3
  <1>5. new \cap Queue(Popped(rt)) = {}
    BY <1>1, <1>2
  <1>6. Queues({EventTask(e0)}, new)
    BY <1>1, <1>4, <1>5, RunQueues
  <1>7. \A c \in Context : Queued(Resume(c))' <=> Queued(Resume(c)) \/ Waits(c, e0)
    <2>1. \A c : Resume(c) \in new <=> c \in Waiters(rt, e0)
      BY Tasks
    <2>2. \A c : Resume(c) # EventTask(e0)
      BY Tasks
    <2> HIDE DEF new
    <2> QED
      BY <1>6, <2>1, <2>2 DEF Queues, Queued, Waits
  <1>8. \A e \in Event : Queued(EventTask(e))' <=> Queued(EventTask(e)) /\ e # e0
    <2>1. \A e : EventTask(e) \notin new /\ (EventTask(e) = EventTask(e0) <=> e = e0)
      BY Tasks
    <2> HIDE DEF new
    <2> QED
      BY <1>6, <2>1 DEF Queues, Queued
  <1>9. \A e \in Event : \A c : Waits(c, e)' <=> Waits(c, e) /\ e # e0
    BY <1>4 DEF Waits
  <1>10. \A e \in Event : rt'.done[e] <=> rt.done[e] \/ e = e0
    <2>1. DOMAIN rt.done = Event
      BY <1>1 DEF Known, RunTime
    <2> QED
      BY <1>4, <2>1
  <1>11. \A a, b : Before(rt, a, b) => b # EventTask(e0) /\ (a # EventTask(e0) => Before(rt', a, b))
    BY <1>6 DEF Queues
  <1>12. \A c, d \in Context :
           Queued(Resume(c)) /\ Waits(d, e0) => Before(rt', Resume(c), Resume(d))
    <2>1. \A c : Resume(c) # EventTask(e0)
      BY Tasks
    <2> QED
      BY <1>6, <2>1 DEF Queues, Queued, Waits
  <1>13. ~rt.done[e0]
    BY <1>1 DEF FrameInv, EventsQuiet, Quiet
  <1> QED
    BY <1>1, <1>4, <1>7, <1>8, <1>9, <1>10, <1>11, <1>12, <1>13 DEF RanEvent

EventLeaves ==
  UNCHANGED <<at, iteration, current, dma, cluster, spi, uart, camera_started, inference_args,
              unsent, onboard, failed>>

LEMMA EventPlaces ==
  ASSUME FrameInv, NEW e0 \in Event, RanEvent(e0), EventLeaves
  PROVE  FramesTyped' /\ EventsQuiet' /\ ContextsPlaced' /\ UnsentKnown'
PROOF
  <1>1. FramesTyped'
    <2>1. ContextsTyped'
      BY DEF FrameInv, FramesTyped, ContextsTyped, EventLeaves
    <2>2. DevicesTyped'
      BY DEF FrameInv, FramesTyped, DevicesTyped, EventLeaves
    <2> QED
      BY <2>1, <2>2 DEF FramesTyped
  <1>2. EventsQuiet'
    <2> SUFFICES ASSUME NEW e \in Event, rt'.done[e]
                 PROVE  ~Queued(EventTask(e))' /\ Waiters(rt', e) = {}
      BY DEF EventsQuiet, Quiet
    <2>1. e = e0 \/ (~Queued(EventTask(e)) /\ \A c : ~Waits(c, e))
      BY DEF RanEvent, FrameInv, EventsQuiet, Quiet, Waits
    <2>2. ~Queued(EventTask(e))' /\ \A c : ~Waits(c, e)'
      BY <2>1 DEF RanEvent
    <2> QED
      BY <2>2 DEF Waits
  <1>3. ContextsPlaced'
    <2> SUFFICES ASSUME NEW c \in Context
                 PROVE  Placed(c)'
      BY DEF ContextsPlaced
    <2>1. /\ at[c] = "done" => ~Queued(Resume(c))
          /\ \A e \in Event : Waits(c, e) => Awaits(c, e) /\ ~Queued(Resume(c))
          /\ at[c] # "done" => Queued(Resume(c)) \/ \E e \in Event : Waits(c, e)
      BY DEF FrameInv, ContextsPlaced, Placed
    <2>2. \A e \in Event : Waits(c, e) => at[c] # "done"
      BY <2>1 DEF Awaits
    <2>3. \A e \in Event : Waits(c, e) /\ Waits(c, e0) => e = e0
      <3>1. \A e \in Event : Waits(c, e) => Awaits(c, e)
        BY <2>1
      <3>2. \A e, f \in Event : Awaits(c, e) /\ Awaits(c, f) => e = f
        BY DEF Awaits
      <3> QED
        BY <3>1, <3>2
    <2>4. at'[c] = at[c] /\ \A e : Awaits(c, e)' <=> Awaits(c, e)
      BY DEF EventLeaves, Awaits
    <2>5. /\ Queued(Resume(c))' <=> Queued(Resume(c)) \/ Waits(c, e0)
          /\ \A e \in Event : Waits(c, e)' <=> Waits(c, e) /\ e # e0
      BY DEF RanEvent
    <2>6. \A e \in Event : Waits(c, e)' => Awaits(c, e)' /\ ~Queued(Resume(c))'
      BY <2>1, <2>3, <2>4, <2>5
    <2>7. at'[c] # "done" => Queued(Resume(c))' \/ \E e \in Event : Waits(c, e)'
      BY <2>1, <2>4, <2>5
    <2>8. at'[c] = "done" => ~Queued(Resume(c))'
      BY <2>1, <2>2, <2>4, <2>5
    <2> QED
      BY <2>6, <2>7, <2>8 DEF Placed
  <1>4. UnsentKnown'
    <2>1. \A f \in Buffer : Unsent(f)' <=> Unsent(f)
      BY DEF Unsent, EventLeaves
    <2>2. unsent' = unsent /\ onboard' = onboard /\ at' = at
      BY DEF EventLeaves
    <2> QED
      BY <2>1, <2>2, UnsentStays
  <1> QED
    BY <1>1, <1>2, <1>3, <1>4

LEMMA EventCamera ==
  ASSUME FrameInv, NEW e0 \in Event, RanEvent(e0), Queued(EventTask(e0)), EventLeaves
  PROVE  FirstCaptures' /\ CameraAlone' /\ CallbackFirst'
PROOF
  <1>0. PICK f0, d0 : f0 = current /\ d0 = Done(f0)
    OBVIOUS
  <1>1. /\ f0 \in Buffer /\ d0 \in Event /\ current' = f0
        /\ at' = at /\ iteration' = iteration /\ dma' = dma
    BY <1>0, Events DEF EventLeaves, FrameInv, FramesTyped, ContextsTyped
  <1>2. \A f \in Buffer : /\ Done(f) \in Event
                          /\ Queued(EventTask(Done(f)))' <=> Queued(EventTask(Done(f))) /\ Done(f) # e0
                          /\ rt'.done[Done(f)] <=> rt.done[Done(f)] \/ Done(f) = e0
    BY Events DEF RanEvent
  <1>3. Waits(Camera, d0)' <=> Waits(Camera, d0) /\ d0 # e0
    BY <1>1 DEF RanEvent
  <1>4. Queued(Resume(Camera))' <=> Queued(Resume(Camera)) \/ Waits(Camera, e0)
    BY Contexts DEF RanEvent
  <1>5. Waits(Camera, e0) => e0 = d0
    <2>1. Waits(Camera, e0) => Awaits(Camera, e0)
      BY WhoWaits
    <2>2. at[Camera] \in {"start", "free", "captured", "cropped"}
      BY DEF FrameInv, FramesTyped, ContextsTyped
    <2> QED
      BY <1>0, <2>1, <2>2 DEF Awaits
  <1>6. FirstCaptures'
    BY <1>1, <1>2 DEF FrameInv, FirstCaptures, EventLeaves
  <1>7. /\ \A f \in Buffer :
             at[Consumer(f)] # "done" => ~rt.done[Done(f)] /\ ~Queued(EventTask(Done(f)))
        /\ at[Camera] = "captured" => at[Consumer(f0)] = "done"
        /\ at[Camera] = "cropped" => at[Consumer(f0)] \in {"crop", "done"}
        /\ \A f \in Buffer : at[Consumer(f)] = "crop" => f = f0 /\ at[Camera] = "cropped"
        /\ dma # NoBuffer => dma = f0 /\ at[Camera] = "captured" /\ Waits(Camera, d0)
                             /\ ~Queued(EventTask(d0))
        /\ at[Camera] # "start" /\ Queued(Resume(Camera)) =>
             at[Consumer(f0)] = "done" /\ ~Queued(EventTask(d0))
    BY <1>0 DEF FrameInv, CameraAlone
  <1>8. \A f \in Buffer :
          at[Consumer(f)] # "done" => ~rt'.done[Done(f)] /\ ~Queued(EventTask(Done(f)))'
    BY <1>2, <1>7
  <1>9. dma # NoBuffer => Waits(Camera, d0)' /\ ~Queued(EventTask(d0))'
    BY <1>0, <1>1, <1>2, <1>3, <1>7
  <1>10. at[Camera] # "start" /\ Queued(Resume(Camera))' =>
           at[Consumer(f0)] = "done" /\ ~Queued(EventTask(d0))'
    <2>1. CASE Queued(Resume(Camera))
      BY <1>0, <1>1, <1>2, <1>7, <2>1
    <2>2. CASE Waits(Camera, e0)
      <3>1. e0 = d0 /\ Queued(EventTask(d0))
        BY <1>5, <2>2
      <3>2. at[Consumer(f0)] = "done"
        BY <1>0, <1>1, <1>7, <3>1
      <3> QED
        BY <1>0, <1>1, <1>2, <3>1, <3>2
    <2> QED
      BY <1>4, <2>1, <2>2
  <1>11. CameraAlone'
    BY <1>0, <1>1, <1>7, <1>8, <1>9, <1>10 DEF CameraAlone
  <1>12. ASSUME NEW f \in Buffer, at[Consumer(f)] = "callback"
         PROVE  /\ f # f0 /\ at[Camera] \in {"free", "captured"}
                /\ Queued(Resume(Camera))' => Before(rt', Resume(Consumer(f)), Resume(Camera))
                /\ at[Camera] = "captured" /\ Queued(EventTask(d0))' =>
                     Before(rt', Resume(Consumer(f)), EventTask(d0))
    <2>1. /\ f # f0 /\ at[Camera] \in {"free", "captured"}
          /\ Queued(Resume(Camera)) => Before(rt, Resume(Consumer(f)), Resume(Camera))
          /\ at[Camera] = "captured" /\ Queued(EventTask(d0)) =>
               Before(rt, Resume(Consumer(f)), EventTask(d0))
      BY <1>0, <1>12 DEF FrameInv, CallbackFirst
    <2>2. Queued(Resume(Consumer(f)))
      <3>1. Consumer(f) \in Context
        BY Contexts
      <3>2. Queued(Resume(Consumer(f))) \/ \E e \in Event : Awaits(Consumer(f), e)
        BY <1>12, <3>1 DEF FrameInv, ContextsPlaced, Placed
      <3> QED
        BY <1>12, <3>2 DEF Awaits
    <2>3. \A b : Before(rt, Resume(Consumer(f)), b) => Before(rt', Resume(Consumer(f)), b)
      <3>1. Resume(Consumer(f)) # EventTask(e0)
        BY Tasks
      <3> QED
        BY <3>1 DEF RanEvent
    <2>4. Queued(Resume(Camera))' => Before(rt', Resume(Consumer(f)), Resume(Camera))
      <3>1. Consumer(f) \in Context /\ Camera \in Context
        BY Contexts
      <3>2. Waits(Camera, e0) => Before(rt', Resume(Consumer(f)), Resume(Camera))
        BY <2>2, <3>1 DEF RanEvent
      <3> QED
        BY <1>4, <2>1, <2>3, <3>2
    <2>5. Queued(EventTask(d0))' => Queued(EventTask(d0))
      BY <1>1, <1>0, <1>2
    <2> QED
      BY <2>1, <2>3, <2>4, <2>5
  <1>13. CallbackFirst'
    BY <1>0, <1>1, <1>12 DEF CallbackFirst
  <1> QED
    BY <1>6, <1>11, <1>13

LEMMA EventSends ==
  ASSUME FrameInv, NEW e0 \in Event, RanEvent(e0), Queued(EventTask(e0)), EventLeaves
  PROVE  OneSend'
PROOF
  <1>1. {streamer_tx_done, cpx_done} \subseteq Event
    BY Events
  <1>2. /\ \A e \in {streamer_tx_done, cpx_done} :
             /\ Queued(EventTask(e))' <=> Queued(EventTask(e)) /\ e # e0
             /\ \A c : Waits(c, e)' <=> Waits(c, e) /\ e # e0
             /\ rt'.done[e] <=> rt.done[e] \/ e = e0
        /\ at' = at /\ spi' = spi /\ camera_started' = camera_started
    BY <1>1 DEF RanEvent, EventLeaves
  <1>3. \A f \in Buffer : SentWaiting(f)' <=> SentWaiting(f) /\ streamer_tx_done # e0
    BY <1>2 DEF SentWaiting
  <1>4. \A f \in Buffer :
          at[Send(f)] # "done" => SentWaiting(f)' /\ ~Queued(EventTask(streamer_tx_done))'
    BY <1>2, <1>3 DEF FrameInv, OneSend
  <1>5. \A f, g \in Buffer : SentWaiting(f)' /\ SentWaiting(g)' => f = g
    BY <1>3 DEF FrameInv, OneSend
  <1>6. camera_started /\ ~rt'.done[streamer_tx_done] => \E f \in Buffer : SentWaiting(f)'
    BY <1>2, <1>3 DEF FrameInv, OneSend
  <1>7. spi \/ Queued(EventTask(cpx_done))' => \E f \in Buffer : Waits(Send(f), cpx_done)'
    BY <1>2 DEF FrameInv, OneSend
  <1>8. ~(spi /\ Queued(EventTask(cpx_done))')
    BY <1>2 DEF FrameInv, OneSend
  <1>9. /\ \A f \in Buffer :
             at[Consumer(f)] \in {"await inference", "await send", "sent", "released"} => camera_started
        /\ Queued(EventTask(streamer_tx_done))' => camera_started
    BY <1>2 DEF FrameInv, OneSend
  <1> QED
    BY <1>2, <1>4, <1>5, <1>6, <1>7, <1>8, <1>9 DEF OneSend

LEMMA EventInference ==
  ASSUME FrameInv, NEW e0 \in Event, RanEvent(e0), Queued(EventTask(e0)), EventLeaves
  PROVE  OneInference' /\ InputReturned'
PROOF
  <1>0. PICK a0 : a0 = inference_args
    OBVIOUS
  <1>1. {inference_done, frame_done, network_done} \subseteq Event
    BY Events
  <1>2. /\ \A e \in {inference_done, frame_done, network_done} :
             /\ Queued(EventTask(e))' <=> Queued(EventTask(e)) /\ e # e0
             /\ \A c : Waits(c, e)' <=> Waits(c, e) /\ e # e0
             /\ rt'.done[e] <=> rt.done[e] \/ e = e0
        /\ at' = at /\ uart' = uart /\ cluster' = cluster /\ camera_started' = camera_started
        /\ inference_args' = a0 /\ onboard' = onboard
    BY <1>0, <1>1 DEF RanEvent, EventLeaves
  <1>3. (Inferring' <=> Inferring /\ network_done # e0) /\ (InputUnread' <=> InputUnread)
    BY <1>2 DEF Inferring, InputUnread
  <1>4. HoldsInput(a0) /\ frame_done # e0 => HoldsInput(a0)'
    BY <1>2 DEF HoldsInput
  <1>5. ~Before(rt, EventTask(frame_done), EventTask(e0))
    BY DEF RanEvent
  <1>6. Before(rt, EventTask(frame_done), EventTask(network_done)) /\ frame_done # e0 =>
          Before(rt', EventTask(frame_done), EventTask(network_done))
    <2>1. frame_done # e0 => EventTask(frame_done) # EventTask(e0)
      BY Tasks
    <2> QED
      BY <2>1 DEF RanEvent
  <1>7. OneInference'
    <2>1. /\ at[Inference] # "done" =>
               onboard /\ camera_started /\ ~rt'.done[inference_done]
               /\ ~Queued(EventTask(inference_done))'
          /\ \A f \in Buffer : at[Consumer(f)] \in {"await inference", "released"} => onboard
          /\ Queued(EventTask(inference_done))' => camera_started
      BY <1>2 DEF FrameInv, OneInference
    <2>2. /\ uart => at[Inference] = "uart" /\ Waits(Inference, network_done)'
          /\ cluster.phase # "idle" => Inferring'
          /\ Queued(EventTask(network_done))' =>
               Waits(Inference, network_done)' /\ ~uart /\ cluster.phase = "idle"
      BY <1>2, <1>3 DEF FrameInv, OneInference
    <2>3. cluster.input # NoBuffer => cluster.phase = "layer 0" /\ cluster.input = a0
      BY <1>0 DEF FrameInv, OneInference
    <2>4. onboard => onboard'
      BY SameOnboard DEF EventLeaves
    <2>5. UNCHANGED <<at, uart, cluster, camera_started>> /\ inference_args' = a0
      BY <1>2
    <2> QED
      BY <2>1, <2>2, <2>3, <2>4, <2>5 DEF OneInference
  <1>8. Queued(EventTask(frame_done))' =>
          /\ Inferring'
          /\ cluster.phase = "layers" \/ Before(rt', EventTask(frame_done), EventTask(network_done))
    <2> SUFFICES ASSUME Queued(EventTask(frame_done))'
                 PROVE  /\ Inferring'
                        /\ \/ cluster.phase = "layers"
                           \/ Before(rt', EventTask(frame_done), EventTask(network_done))
      OBVIOUS
    <2>1. /\ frame_done # e0 /\ Inferring
          /\ cluster.phase = "layers" \/ Before(rt, EventTask(frame_done), EventTask(network_done))
      BY <1>2 DEF FrameInv, InputReturned
    <2>2. network_done # e0
      BY <1>5, <2>1 DEF FrameInv, OneInference
    <2> QED
      BY <1>3, <1>6, <2>1, <2>2
  <1>9. InputUnread => ~rt'.done[frame_done] /\ ~Queued(EventTask(frame_done))'
    BY <1>2 DEF FrameInv, InputReturned
  <1>10. onboard /\ camera_started /\ ~rt'.done[frame_done] =>
           /\ InputUnread \/ Queued(EventTask(frame_done))'
           /\ a0 \in Buffer /\ HoldsInput(a0)'
    BY <1>0, <1>2, <1>4 DEF FrameInv, InputReturned
  <1>11. InputReturned'
    BY <1>2, <1>3, <1>8, <1>9, <1>10 DEF InputReturned
  <1> QED
    BY <1>7, <1>11

LEMMA EventAwaits ==
  ASSUME FrameInv, NEW e0 \in Event, RanEvent(e0), Queued(EventTask(e0)), EventLeaves
  PROVE  AwaitSendNext'
PROOF
  <1>1. /\ at' = at /\ current' = current /\ onboard' = onboard
        /\ streamer_tx_done \in Event /\ inference_done \in Event
    BY Events DEF EventLeaves
  <1>2. Camera \in Context /\ current \in Buffer
    BY Contexts DEF FrameInv, FramesTyped, ContextsTyped
  <1> SUFFICES ASSUME NEW f \in Buffer, NEW g \in Buffer, f # g, at[Consumer(g)] = "await send"
               PROVE  /\ Waits(Consumer(g), streamer_tx_done)' => SentWaiting(f)'
                      /\ onboard =>
                           /\ rt'.done[inference_done] /\ at[Consumer(f)] \in {"sent", "released"}
                           /\ at[Consumer(f)] = "released" /\ Queued(Resume(Consumer(f)))' =>
                                Before(rt', Resume(Consumer(g)), Resume(Consumer(f)))
                      /\ ~onboard =>
                           /\ f = current /\ at[Camera] = "free" /\ ~Queued(Resume(Camera))'
                           /\ Queued(EventTask(Done(f)))' =>
                                Before(rt', Resume(Consumer(g)), EventTask(Done(f)))
    BY <1>1 DEF AwaitSendNext
  <1>3. /\ Waits(Consumer(g), streamer_tx_done) => SentWaiting(f)
        /\ onboard =>
             /\ rt.done[inference_done] /\ at[Consumer(f)] \in {"sent", "released"}
             /\ at[Consumer(f)] = "released" /\ Queued(Resume(Consumer(f))) =>
                  Before(rt, Resume(Consumer(g)), Resume(Consumer(f)))
        /\ ~onboard =>
             /\ f = current /\ at[Camera] = "free" /\ ~Queued(Resume(Camera))
             /\ Queued(EventTask(Done(f))) => Before(rt, Resume(Consumer(g)), EventTask(Done(f)))
    BY DEF FrameInv, AwaitSendNext
  <1>4. /\ Consumer(f) \in Context /\ Consumer(g) \in Context /\ Done(f) \in Event
        /\ Resume(Consumer(g)) # EventTask(e0)
    BY Contexts, Events, Tasks
  <1>5. Waits(Consumer(g), streamer_tx_done)' => SentWaiting(f)'
    BY <1>1, <1>3 DEF RanEvent, SentWaiting
  <1>6. onboard => rt'.done[inference_done] /\ at[Consumer(f)] \in {"sent", "released"}
    BY <1>1, <1>3 DEF RanEvent
  <1>7. ASSUME onboard, at[Consumer(f)] = "released", Queued(Resume(Consumer(f)))'
        PROVE  Before(rt', Resume(Consumer(g)), Resume(Consumer(f)))
    <2>1. CASE Queued(Resume(Consumer(f)))
      BY <1>3, <1>4, <1>7, <2>1 DEF RanEvent
    <2>2. CASE Waits(Consumer(f), e0)
      <3>1. ~Waits(Consumer(g), streamer_tx_done)
        BY <1>3, <1>7 DEF SentWaiting
      <3>2. Queued(Resume(Consumer(g))) \/ \E e \in Event : Waits(Consumer(g), e) /\ Awaits(Consumer(g), e)
        BY <1>4 DEF FrameInv, ContextsPlaced, Placed
      <3>3. Queued(Resume(Consumer(g)))
        BY <3>1, <3>2 DEF Awaits
      <3> QED
        BY <1>4, <2>2, <3>3 DEF RanEvent
    <2> QED
      BY <1>4, <1>7, <2>1, <2>2 DEF RanEvent
  <1>8. ASSUME ~onboard
        PROVE  /\ f = current /\ at[Camera] = "free" /\ ~Queued(Resume(Camera))'
               /\ Queued(EventTask(Done(f)))' =>
                    Before(rt', Resume(Consumer(g)), EventTask(Done(f)))
    <2>1. /\ f = current /\ at[Camera] = "free" /\ ~Queued(Resume(Camera))
          /\ Queued(EventTask(Done(f))) => Before(rt, Resume(Consumer(g)), EventTask(Done(f)))
      BY <1>3, <1>8
    <2>2. e0 # Done(f)
      BY <2>1 DEF RanEvent
    <2>3. ~Waits(Camera, e0)
      <3>1. Waits(Camera, e0) => Awaits(Camera, e0)
        BY WhoWaits
      <3> QED
        BY <2>1, <2>2, <3>1 DEF Awaits
    <2>4. ~Queued(Resume(Camera))'
      BY <1>2, <2>1, <2>3 DEF RanEvent
    <2>5. Queued(EventTask(Done(f)))' => Before(rt', Resume(Consumer(g)), EventTask(Done(f)))
      BY <1>4, <2>1 DEF RanEvent
    <2> QED
      BY <2>1, <2>4, <2>5
  <1> QED
    BY <1>5, <1>6, <1>7, <1>8

LEMMA RunEventKeeps ==
  ASSUME ~DoneAtPush, FrameInv, NEW e0 \in Event, Oldest(EventTask(e0)),
         rt' = RunEvent(Popped(rt), e0),
         UNCHANGED <<at, left, camera, devices, camera_started, inference_args, unsent, failed>>,
         UNCHANGED onboard
  PROVE  FrameInv'
PROOF
  <1>1. RanEvent(e0) /\ Queued(EventTask(e0))
    BY EventRuns
  <1>2. EventLeaves
    BY DEF EventLeaves, camera, devices
  <1>3. ~failed' /\ Known(rt')
    BY <1>1, <1>2 DEF FrameInv, RanEvent, EventLeaves
  <1> QED
    BY <1>1, <1>2, <1>3, EventPlaces, EventCamera, EventSends, EventInference, EventAwaits DEF FrameInv
------------------------------------------------------------------------------
(* Each step keeps the invariant: the devices *)

\* A device is done: the task of e0 joins the end of the queue.
Finished(e0) ==
  /\ Known(rt')
  /\ \A c \in Context : Queued(Resume(c))' <=> Queued(Resume(c))
  /\ \A e \in Event : /\ Queued(EventTask(e))' <=> Queued(EventTask(e)) \/ e = e0
                      /\ \A c : Waits(c, e)' <=> Waits(c, e)
                      /\ rt'.done[e] <=> rt.done[e]
  /\ \A a, b : Before(rt, a, b) => Before(rt', a, b)
  /\ \A a : Queued(a) => Before(rt', a, EventTask(e0))
  /\ EventsQuiet' /\ ContextsPlaced'

DeviceLeaves ==
  UNCHANGED <<at, iteration, current, camera_started, inference_args, unsent, onboard, failed>>

LEMMA DeviceFinishes ==
  ASSUME ~DoneAtPush, FrameInv, NEW e0 \in Event, ~Queued(EventTask(e0)), ~rt.done[e0],
         rt' = PushEvent(rt, e0), DeviceLeaves
  PROVE  Finished(e0)
PROOF
  <1>1. Known(rt) /\ EventTask(e0) \notin Queue(rt)
    BY DEF FrameInv, Queued
  <1>2. LET after == PushEvent(rt, e0)
        IN  /\ Known(after)
            /\ Queue(after) = Queue(rt) \cup {EventTask(e0)} /\ Later(rt, after)
            /\ \A f \in Event : Waiters(after, f) = Waiters(rt, f)
            /\ after.done = rt.done
    BY <1>1, KnownPushEvent
  <1>3. /\ Known(rt')
        /\ Queue(rt') = Queue(rt) \cup {EventTask(e0)} /\ Later(rt, rt')
        /\ \A f \in Event : Waiters(rt', f) = Waiters(rt, f)
        /\ rt'.done = rt.done
    BY <1>2
  <1>4. Queues({}, {EventTask(e0)})
    BY <1>1, <1>3, DeviceQueues
  <1>5. \A c \in Context : Queued(Resume(c))' <=> Queued(Resume(c))
    BY <1>3, Tasks DEF Queued
  <1>6. \A e \in Event : /\ Queued(EventTask(e))' <=> Queued(EventTask(e)) \/ e = e0
                         /\ \A c : Waits(c, e)' <=> Waits(c, e)
                         /\ rt'.done[e] <=> rt.done[e]
    BY <1>3, Tasks DEF Queued, Waits
  <1>7. /\ \A a, b : Before(rt, a, b) => Before(rt', a, b)
        /\ \A a : Queued(a) => Before(rt', a, EventTask(e0))
    BY <1>4 DEF Queues, Queued
  <1>8. EventsQuiet'
    <2> SUFFICES ASSUME NEW e \in Event, rt'.done[e]
                 PROVE  ~Queued(EventTask(e))' /\ Waiters(rt', e) = {}
      BY DEF EventsQuiet, Quiet
    <2>1. rt.done[e] /\ e # e0
      BY <1>1, <1>6
    <2>2. ~Queued(EventTask(e)) /\ Waiters(rt, e) = {}
      BY <2>1 DEF FrameInv, EventsQuiet, Quiet
    <2> QED
      BY <1>3, <1>6, <2>1, <2>2
  <1>9. ContextsPlaced'
    <2> SUFFICES ASSUME NEW c \in Context
                 PROVE  Placed(c)'
      BY DEF ContextsPlaced
    <2>1. at'[c] = at[c] /\ \A e : Awaits(c, e)' <=> Awaits(c, e)
      BY DEF DeviceLeaves, Awaits
    <2>2. /\ at[c] = "done" => ~Queued(Resume(c))
          /\ \A e \in Event : Waits(c, e) => Awaits(c, e) /\ ~Queued(Resume(c))
          /\ at[c] # "done" => Queued(Resume(c)) \/ \E e \in Event : Waits(c, e)
      BY DEF FrameInv, ContextsPlaced, Placed
    <2> QED
      BY <1>5, <1>6, <2>1, <2>2 DEF Placed
  <1> QED
    BY <1>1, <1>3, <1>5, <1>6, <1>7, <1>8, <1>9 DEF Finished

\* What no device disturbs
LEMMA DevicePlaces ==
  ASSUME FrameInv, NEW e0 \in Event, Finished(e0), DeviceLeaves
  PROVE  /\ ~failed' /\ Known(rt') /\ EventsQuiet' /\ ContextsPlaced'
         /\ ContextsTyped' /\ UnsentKnown'
         /\ \A f \in Buffer : /\ SentWaiting(f)' <=> SentWaiting(f)
                              /\ HoldsInput(f)' <=> HoldsInput(f)
         /\ Inferring' <=> Inferring
PROOF
  <1>1. ~failed' /\ ContextsTyped'
    BY DEF FrameInv, FramesTyped, ContextsTyped, DeviceLeaves
  <1>2. UnsentKnown'
    <2>1. \A f \in Buffer : Unsent(f)' <=> Unsent(f)
      BY DEF Unsent, DeviceLeaves
    <2>2. unsent' = unsent /\ onboard' = onboard /\ at' = at
      BY DEF DeviceLeaves
    <2> QED
      BY <2>1, <2>2, UnsentStays
  <1>3. {streamer_tx_done, frame_done, network_done} \subseteq Event /\ at' = at
    BY Events DEF DeviceLeaves
  <1>4. \A c : /\ Waits(c, streamer_tx_done)' <=> Waits(c, streamer_tx_done)
               /\ Waits(c, frame_done)' <=> Waits(c, frame_done)
               /\ Waits(c, network_done)' <=> Waits(c, network_done)
    BY <1>3 DEF Finished
  <1>5. \A f \in Buffer : (SentWaiting(f)' <=> SentWaiting(f)) /\ (HoldsInput(f)' <=> HoldsInput(f))
    BY <1>3, <1>4 DEF SentWaiting, HoldsInput
  <1>6. Inferring' <=> Inferring
    BY <1>3, <1>4 DEF Inferring
  <1> QED
    BY <1>1, <1>2, <1>5, <1>6 DEF Finished

\* What only the camera disturbs
LEMMA DeviceCamera ==
  ASSUME FrameInv, NEW e0 \in Event, Finished(e0), DeviceLeaves, UNCHANGED dma,
         \A f \in Buffer : e0 # Done(f)
  PROVE  FirstCaptures' /\ CameraAlone' /\ CallbackFirst' /\ AwaitSendNext'
PROOF
  <1>1. /\ Camera \in Context /\ current \in Buffer
        /\ at' = at /\ current' = current /\ iteration' = iteration /\ onboard' = onboard
        /\ streamer_tx_done \in Event /\ inference_done \in Event
    BY Contexts, Events DEF FrameInv, FramesTyped, ContextsTyped, DeviceLeaves
  <1>2. /\ Queued(Resume(Camera))' <=> Queued(Resume(Camera))
        /\ \A f \in Buffer : /\ Queued(EventTask(Done(f)))' <=> Queued(EventTask(Done(f)))
                             /\ Waits(Camera, Done(f))' <=> Waits(Camera, Done(f))
                             /\ rt'.done[Done(f)] <=> rt.done[Done(f)]
        /\ \A f \in Buffer : Queued(Resume(Consumer(f)))' <=> Queued(Resume(Consumer(f)))
        /\ \A a, b : Before(rt, a, b) => Before(rt', a, b)
        /\ \A f \in Buffer : Waits(Consumer(f), streamer_tx_done)' <=> Waits(Consumer(f), streamer_tx_done)
        /\ rt'.done[inference_done] <=> rt.done[inference_done]
    BY <1>1, Contexts, Events DEF Finished
  <1>3. FirstCaptures' /\ CameraAlone'
    BY <1>1, <1>2, CameraStays
  <1>4. CallbackFirst'
    BY <1>1, <1>2, CallbackStays
  <1>5. \A f \in Buffer : SentWaiting(f) => SentWaiting(f)'
    BY <1>1, <1>2 DEF SentWaiting
  <1>6. AwaitSendNext'
    <2>1. rt.done[inference_done] => rt'.done[inference_done]
      BY <1>2
    <2>2. Queued(Resume(Camera))' => Queued(Resume(Camera))
      BY <1>2
    <2> SUFFICES ASSUME NEW g \in Buffer, at'[Consumer(g)] = "await send"
                 PROVE  /\ at[Consumer(g)] = "await send"
                        /\ \A b : Before(rt, Resume(Consumer(g)), b) =>
                                    Before(rt', Resume(Consumer(g)), b)
                        /\ Waits(Consumer(g), streamer_tx_done)' => Waits(Consumer(g), streamer_tx_done)
                        /\ \A f \in Buffer : f # g =>
                             /\ SentWaiting(f) => SentWaiting(f)'
                             /\ at'[Consumer(f)] = at[Consumer(f)]
                             /\ Queued(Resume(Consumer(f)))' => Queued(Resume(Consumer(f)))
                             /\ Queued(EventTask(Done(f)))' => Queued(EventTask(Done(f)))
      BY <1>1, <2>1, <2>2, AwaitStays
    <2> QED
      BY <1>1, <1>2, <1>5
  <1> QED
    BY <1>3, <1>4, <1>6

LEMMA DeviceInference ==
  ASSUME FrameInv, NEW e0 \in Event, Finished(e0), DeviceLeaves, UNCHANGED <<cluster, uart>>,
         e0 \notin {inference_done, frame_done, network_done}
  PROVE  OneInference' /\ InputReturned'
PROOF
  <1>1. /\ {inference_done, frame_done, network_done} \subseteq Event
        /\ at' = at /\ UNCHANGED <<cluster, uart, inference_args, onboard, camera_started>>
        /\ Inferring' <=> Inferring
        /\ \A f \in Buffer : HoldsInput(f)' <=> HoldsInput(f)
    BY Events, DevicePlaces DEF DeviceLeaves
  <1>2. \A e \in {inference_done, frame_done, network_done} :
          /\ Queued(EventTask(e))' <=> Queued(EventTask(e))
          /\ \A c : Waits(c, e)' <=> Waits(c, e)
          /\ rt'.done[e] <=> rt.done[e]
    BY <1>1 DEF Finished
  <1>3. \A f \in Buffer : /\ at'[Consumer(f)] \in {"await inference", "released"} => onboard
                          /\ HoldsInput(f) /\ ~rt.done[frame_done] /\ onboard => HoldsInput(f)'
    BY <1>1 DEF FrameInv, OneInference
  <1>4. Before(rt, EventTask(frame_done), EventTask(network_done)) =>
          Before(rt', EventTask(frame_done), EventTask(network_done))
    BY DEF Finished
  <1>5. UNCHANGED <<uart, cluster, inference_args, onboard, camera_started>>
    BY <1>1
  <1>6. at'[Inference] = at[Inference]
    BY <1>1
  <1> QED
    BY <1>2, <1>3, <1>4, <1>5, <1>6, InferenceStays

LEMMA DeviceSends ==
  ASSUME FrameInv, NEW e0 \in Event, Finished(e0), DeviceLeaves, UNCHANGED spi,
         e0 \notin {streamer_tx_done, cpx_done}
  PROVE  OneSend'
PROOF
  <1>1. /\ {streamer_tx_done, cpx_done} \subseteq Event
        /\ at' = at /\ UNCHANGED <<spi, camera_started>>
        /\ \A f \in Buffer : SentWaiting(f)' <=> SentWaiting(f)
    BY Events, DevicePlaces DEF DeviceLeaves
  <1>2. \A e \in {streamer_tx_done, cpx_done} :
          /\ Queued(EventTask(e))' <=> Queued(EventTask(e))
          /\ \A c : Waits(c, e)' <=> Waits(c, e)
          /\ rt'.done[e] <=> rt.done[e]
    BY <1>1 DEF Finished
  <1>3. \A f \in Buffer :
          at'[Consumer(f)] \in {"await inference", "await send", "sent", "released"} => camera_started
    BY <1>1 DEF FrameInv, OneSend
  <1> QED
    BY <1>1, <1>2, <1>3, SendsStay

LEMMA FrameCapturedKeeps ==
  ASSUME ~DoneAtPush, FrameInv, FrameCaptured, DeviceLeaves
  PROVE  FrameInv'
PROOF
  <1>0. PICK f0, e0 : f0 = current /\ e0 = Done(f0)
    OBVIOUS
  <1>1. /\ f0 \in Buffer /\ e0 \in Event
        /\ dma = f0 /\ at[Camera] = "captured" /\ Waits(Camera, e0) /\ ~Queued(EventTask(e0))
    BY <1>0, Events DEF FrameCaptured, FrameInv, CameraAlone, FramesTyped, ContextsTyped
  <1>2. dma' = NoBuffer /\ rt' = PushEvent(rt, e0) /\ UNCHANGED <<cluster, spi, uart>>
    BY <1>0, <1>1 DEF FrameCaptured
  <1>3. Finished(e0)
    <2>1. ~rt.done[e0]
      BY <1>1, WhoWaits
    <2> QED
      BY <1>1, <1>2, <2>1, DeviceFinishes
  <1>4. /\ ~failed' /\ Known(rt') /\ EventsQuiet' /\ ContextsPlaced'
        /\ ContextsTyped' /\ UnsentKnown'
        /\ \A f \in Buffer : SentWaiting(f)' <=> SentWaiting(f)
    BY <1>1, <1>3, DevicePlaces
  <1>5. /\ e0 \notin {streamer_tx_done, inference_done, frame_done, network_done, cpx_done}
        /\ \A f \in Buffer : Done(f) = e0 <=> f = f0
    BY <1>0, Events
  <1>6. OneSend' /\ OneInference' /\ InputReturned'
    BY <1>1, <1>2, <1>3, <1>5, DeviceSends, DeviceInference
  <1>7. FramesTyped'
    <2>1. DevicesTyped'
      BY <1>2 DEF FrameInv, FramesTyped, DevicesTyped, DeviceLeaves
    <2> QED
      BY <1>4, <2>1 DEF FramesTyped
  <1>8. /\ at' = at /\ current' = f0 /\ iteration' = iteration /\ onboard' = onboard
        /\ Camera \in Context /\ streamer_tx_done \in Event /\ inference_done \in Event
    BY <1>0, Contexts, Events DEF DeviceLeaves
  <1>9. /\ ~Queued(Resume(Camera)) /\ ~Queued(Resume(Camera))'
        /\ \A f \in Buffer : /\ Queued(EventTask(Done(f)))' <=> Queued(EventTask(Done(f))) \/ f = f0
                             /\ rt'.done[Done(f)] <=> rt.done[Done(f)]
    <2>1. ~Queued(Resume(Camera))
      BY <1>1, WhoWaits
    <2>2. \A f \in Buffer : Done(f) \in Event
      BY Events
    <2> QED
      BY <1>3, <1>5, <1>8, <2>1, <2>2 DEF Finished
  <1>10. FirstCaptures'
    <2>1. /\ at[Camera] = "start" <=> iteration = 0
          /\ iteration < CAMERA_BUFFERS => f0 = 0 /\ at[Camera] # "free"
          /\ \A f \in Buffer : f >= iteration => at[Consumer(f)] = "done" /\ ~Queued(EventTask(Done(f)))
      BY <1>0 DEF FrameInv, FirstCaptures
    <2>2. ~(f0 >= iteration)
      <3>1. iteration # 0
        BY <1>1, <2>1
      <3> QED
        BY <1>0, <2>1, <3>1, Counts, Buffers
    <2>3. \A f \in Buffer : f >= iteration => at[Consumer(f)] = "done" /\ ~Queued(EventTask(Done(f)))'
      BY <1>9, <2>1, <2>2
    <2> QED
      BY <1>8, <2>1, <2>3 DEF FirstCaptures
  <1>11. CameraAlone'
    <2>1. /\ \A f \in Buffer :
               at[Consumer(f)] # "done" => ~rt.done[Done(f)] /\ ~Queued(EventTask(Done(f)))
          /\ at[Consumer(f0)] = "done"
          /\ \A f \in Buffer : at[Consumer(f)] # "crop"
      BY <1>0, <1>1 DEF FrameInv, CameraAlone
    <2>2. \A f \in Buffer :
            at[Consumer(f)] # "done" => ~rt'.done[Done(f)] /\ ~Queued(EventTask(Done(f)))'
      BY <1>9, <2>1
    <2> QED
      BY <1>1, <1>2, <1>8, <1>9, <2>1, <2>2 DEF CameraAlone
  <1>12. CallbackFirst'
    <2> SUFFICES ASSUME NEW f \in Buffer, at[Consumer(f)] = "callback"
                 PROVE  f # f0 /\ Before(rt', Resume(Consumer(f)), EventTask(e0))
      BY <1>0, <1>1, <1>8, <1>9 DEF CallbackFirst
    <2>1. f # f0
      BY <1>0 DEF FrameInv, CallbackFirst
    <2>2. Consumer(f) \in Context
      BY Contexts
    <2>3. Queued(Resume(Consumer(f))) \/ \E e \in Event : Awaits(Consumer(f), e)
      BY <2>2 DEF FrameInv, ContextsPlaced, Placed
    <2>4. Queued(Resume(Consumer(f)))
      BY <2>3 DEF Awaits
    <2> QED
      BY <1>3, <2>1, <2>4 DEF Finished
  <1>13. AwaitSendNext'
    <2>1. /\ \A a, b : Before(rt, a, b) => Before(rt', a, b)
          /\ \A f \in Buffer : Queued(Resume(Consumer(f)))' <=> Queued(Resume(Consumer(f)))
          /\ \A f \in Buffer :
               Waits(Consumer(f), streamer_tx_done)' <=> Waits(Consumer(f), streamer_tx_done)
          /\ rt'.done[inference_done] <=> rt.done[inference_done]
      BY <1>3, <1>8, Contexts DEF Finished
    <2>2. onboard \/ \A f, g \in Buffer : f # g => at[Consumer(g)] # "await send"
      BY <1>1 DEF FrameInv, AwaitSendNext
    <2>3. ASSUME NEW f \in Buffer, NEW g \in Buffer, f # g, at[Consumer(g)] = "await send"
          PROVE  /\ Waits(Consumer(g), streamer_tx_done) => SentWaiting(f)
                 /\ onboard
                 /\ rt.done[inference_done] /\ at[Consumer(f)] \in {"sent", "released"}
                 /\ at[Consumer(f)] = "released" /\ Queued(Resume(Consumer(f))) =>
                      Before(rt, Resume(Consumer(g)), Resume(Consumer(f)))
      BY <2>2, <2>3 DEF FrameInv, AwaitSendNext
    <2>4. UNCHANGED <<current, onboard>> /\ at'[Camera] = at[Camera]
      BY <1>0, <1>8
    <2>5. Queued(Resume(Camera))' => Queued(Resume(Camera))
      BY <1>9
    <2> QED
      BY <1>4, <1>8, <2>1, <2>3, <2>4, <2>5, AwaitPairs
  <1> QED
    BY <1>4, <1>6, <1>7, <1>10, <1>11, <1>12, <1>13 DEF FrameInv

\* The cluster or the UART is done: what that leaves alone
LEMMA InferenceFinishes ==
  ASSUME FrameInv, NEW e0 \in {frame_done, network_done}, Finished(e0), DeviceLeaves,
         UNCHANGED <<dma, spi>>, uart' \in BOOLEAN,
         cluster' \in [phase : {"idle", "layer 0", "layers"}, input : Buffer \cup {NoBuffer}]
  PROVE  /\ ~failed' /\ FramesTyped' /\ Known(rt') /\ EventsQuiet' /\ ContextsPlaced'
         /\ FirstCaptures' /\ CameraAlone' /\ CallbackFirst' /\ OneSend' /\ AwaitSendNext'
         /\ UnsentKnown'
         /\ \A f \in Buffer : HoldsInput(f)' <=> HoldsInput(f)
         /\ Inferring' <=> Inferring
         /\ \A e \in {inference_done, frame_done, network_done} :
              /\ Queued(EventTask(e))' <=> Queued(EventTask(e)) \/ e = e0
              /\ \A c : Waits(c, e)' <=> Waits(c, e)
              /\ rt'.done[e] <=> rt.done[e]
         /\ at' = at /\ camera_started' = camera_started /\ (onboard <=> onboard')
         /\ \A f \in Buffer : at[Consumer(f)] \in {"await inference", "released"} => onboard
         /\ at[Inference] # "done" =>
              onboard /\ camera_started /\ ~rt.done[inference_done] /\ ~Queued(EventTask(inference_done))
PROOF
  <1>1. /\ e0 \in Event /\ e0 \notin {streamer_tx_done, cpx_done, inference_done}
        /\ \A f \in Buffer : e0 # Done(f)
        /\ {inference_done, frame_done, network_done} \subseteq Event
    BY Events
  <1>2. /\ ~failed' /\ Known(rt') /\ EventsQuiet' /\ ContextsPlaced'
        /\ ContextsTyped' /\ UnsentKnown'
        /\ \A f \in Buffer : HoldsInput(f)' <=> HoldsInput(f)
        /\ Inferring' <=> Inferring
    BY <1>1, DevicePlaces
  <1>3. DevicesTyped'
    BY DEF FrameInv, FramesTyped, DevicesTyped, DeviceLeaves
  <1>4. FirstCaptures' /\ CameraAlone' /\ CallbackFirst' /\ AwaitSendNext' /\ OneSend'
    BY <1>1, DeviceCamera, DeviceSends
  <1>5. \A e \in {inference_done, frame_done, network_done} :
          /\ Queued(EventTask(e))' <=> Queued(EventTask(e)) \/ e = e0
          /\ \A c : Waits(c, e)' <=> Waits(c, e)
          /\ rt'.done[e] <=> rt.done[e]
    BY <1>1 DEF Finished
  <1>6. at' = at /\ camera_started' = camera_started /\ (onboard <=> onboard')
    <2>1. UNCHANGED onboard /\ at' = at /\ camera_started' = camera_started
      BY DEF DeviceLeaves
    <2> QED
      BY <2>1, SameOnboard
  <1>7. /\ \A f \in Buffer : at[Consumer(f)] \in {"await inference", "released"} => onboard
        /\ at[Inference] # "done" =>
             onboard /\ camera_started /\ ~rt.done[inference_done] /\ ~Queued(EventTask(inference_done))
    BY DEF FrameInv, OneInference
  <1> QED
    BY <1>2, <1>3, <1>4, <1>5, <1>6, <1>7 DEF FramesTyped

LEMMA InputDoneKeeps ==
  ASSUME ~DoneAtPush, FrameInv, InputDone, DeviceLeaves
  PROVE  FrameInv'
PROOF
  <1>0. PICK a0 : a0 = inference_args
    OBVIOUS
  <1>1. /\ cluster.phase = "layer 0" /\ rt' = PushEvent(rt, frame_done)
        /\ cluster' = [phase |-> "layers", input |-> NoBuffer]
        /\ UNCHANGED <<dma, spi, uart>> /\ inference_args' = a0
    BY <1>0 DEF InputDone, DeviceLeaves
  <1>2. /\ at[Inference] = "network" /\ Waits(Inference, network_done) /\ ~uart /\ Inferring
        /\ ~Queued(EventTask(network_done))
        /\ ~rt.done[frame_done] /\ ~Queued(EventTask(frame_done))
    <2>1. Inferring
      BY <1>1 DEF FrameInv, OneInference
    <2>2. at[Inference] = "network" /\ Waits(Inference, network_done)
      BY <2>1 DEF Inferring
    <2>3. ~uart /\ ~Queued(EventTask(network_done))
      BY <1>1, <2>2 DEF FrameInv, OneInference
    <2>4. ~rt.done[frame_done] /\ ~Queued(EventTask(frame_done))
      BY <1>1 DEF FrameInv, InputReturned, InputUnread
    <2> QED
      BY <2>1, <2>2, <2>3, <2>4
  <1>3. Finished(frame_done)
    BY <1>1, <1>2, Events, DeviceFinishes
  <1>4. uart' \in BOOLEAN
        /\ cluster' \in [phase : {"idle", "layer 0", "layers"}, input : Buffer \cup {NoBuffer}]
    BY <1>1 DEF FrameInv, FramesTyped, DevicesTyped
  <1>5. /\ ~failed' /\ FramesTyped' /\ Known(rt') /\ EventsQuiet' /\ ContextsPlaced'
        /\ FirstCaptures' /\ CameraAlone' /\ CallbackFirst' /\ OneSend' /\ AwaitSendNext'
        /\ UnsentKnown'
        /\ \A f \in Buffer : HoldsInput(f)' <=> HoldsInput(f)
        /\ Inferring' <=> Inferring
        /\ \A e \in {inference_done, frame_done, network_done} :
             /\ Queued(EventTask(e))' <=> Queued(EventTask(e)) \/ e = frame_done
             /\ \A c : Waits(c, e)' <=> Waits(c, e)
             /\ rt'.done[e] <=> rt.done[e]
        /\ at' = at /\ camera_started' = camera_started /\ (onboard <=> onboard')
        /\ \A f \in Buffer : at[Consumer(f)] \in {"await inference", "released"} => onboard
        /\ at[Inference] # "done" =>
             onboard /\ camera_started /\ ~rt.done[inference_done] /\ ~Queued(EventTask(inference_done))
    BY <1>1, <1>3, <1>4, InferenceFinishes
  <1>6. onboard /\ camera_started /\ ~rt.done[inference_done] /\ ~Queued(EventTask(inference_done))
    BY <1>2, <1>5
  <1>7. a0 \in Buffer /\ HoldsInput(a0)'
    BY <1>0, <1>2, <1>5, <1>6 DEF FrameInv, InputReturned
  <1>8. frame_done # network_done /\ frame_done # inference_done
    BY Events
  <1>9. OneInference'
    BY <1>1, <1>2, <1>5, <1>6, <1>8 DEF OneInference
  <1>10. InputReturned'
    BY <1>1, <1>2, <1>5, <1>7 DEF InputReturned, InputUnread
  <1> QED
    BY <1>5, <1>9, <1>10 DEF FrameInv

LEMMA NetworkDoneKeeps ==
  ASSUME ~DoneAtPush, FrameInv, NetworkDone, DeviceLeaves
  PROVE  FrameInv'
PROOF
  <1>0. PICK a0 : a0 = inference_args
    OBVIOUS
  <1>1. /\ cluster.phase = "layers" /\ rt' = PushEvent(rt, network_done)
        /\ cluster' = Idle /\ UNCHANGED <<dma, spi, uart>> /\ inference_args' = a0
    BY <1>0 DEF NetworkDone, DeviceLeaves
  <1>2. /\ at[Inference] = "network" /\ Waits(Inference, network_done) /\ ~uart /\ Inferring
        /\ ~Queued(EventTask(network_done)) /\ ~rt.done[network_done]
    <2>1. Inferring
      BY <1>1 DEF FrameInv, OneInference
    <2>2. at[Inference] = "network" /\ Waits(Inference, network_done)
      BY <2>1 DEF Inferring
    <2>3. ~uart /\ ~Queued(EventTask(network_done))
      BY <1>1, <2>2 DEF FrameInv, OneInference
    <2>4. ~rt.done[network_done]
      BY <2>2, Events, WhoWaits
    <2> QED
      BY <2>1, <2>2, <2>3, <2>4
  <1>3. Finished(network_done)
    BY <1>1, <1>2, Events, DeviceFinishes
  <1>4. uart' \in BOOLEAN /\ cluster'.phase = "idle" /\ cluster'.input = NoBuffer
        /\ cluster' \in [phase : {"idle", "layer 0", "layers"}, input : Buffer \cup {NoBuffer}]
    BY <1>1 DEF Idle, FrameInv, FramesTyped, DevicesTyped
  <1>5. /\ ~failed' /\ FramesTyped' /\ Known(rt') /\ EventsQuiet' /\ ContextsPlaced'
        /\ FirstCaptures' /\ CameraAlone' /\ CallbackFirst' /\ OneSend' /\ AwaitSendNext'
        /\ UnsentKnown'
        /\ \A f \in Buffer : HoldsInput(f)' <=> HoldsInput(f)
        /\ Inferring' <=> Inferring
        /\ \A e \in {inference_done, frame_done, network_done} :
             /\ Queued(EventTask(e))' <=> Queued(EventTask(e)) \/ e = network_done
             /\ \A c : Waits(c, e)' <=> Waits(c, e)
             /\ rt'.done[e] <=> rt.done[e]
        /\ at' = at /\ camera_started' = camera_started /\ (onboard <=> onboard')
        /\ \A f \in Buffer : at[Consumer(f)] \in {"await inference", "released"} => onboard
        /\ at[Inference] # "done" =>
             onboard /\ camera_started /\ ~rt.done[inference_done] /\ ~Queued(EventTask(inference_done))
    BY <1>1, <1>3, <1>4, InferenceFinishes
  <1>6. onboard /\ camera_started /\ ~rt.done[inference_done] /\ ~Queued(EventTask(inference_done))
    BY <1>2, <1>5
  <1>7. frame_done # network_done /\ network_done # inference_done
    BY Events
  <1>8. ~rt.done[frame_done] => Queued(EventTask(frame_done)) /\ a0 \in Buffer /\ HoldsInput(a0)
    BY <1>0, <1>1, <1>2, <1>6 DEF FrameInv, InputReturned, InputUnread
  <1>9. Queued(EventTask(frame_done))' => Before(rt', EventTask(frame_done), EventTask(network_done))
    BY <1>3, <1>5, <1>7 DEF Finished
  <1>10. OneInference'
    BY <1>1, <1>2, <1>4, <1>5, <1>6, <1>7 DEF OneInference
  <1>11. InputReturned'
    <2>1. ~InputUnread'
      BY <1>2, <1>4, <1>5 DEF InputUnread
    <2>2. Queued(EventTask(frame_done))' =>
            Inferring' /\ Before(rt', EventTask(frame_done), EventTask(network_done))
      BY <1>2, <1>5, <1>9
    <2>3. ~rt'.done[frame_done] => Queued(EventTask(frame_done))' /\ a0 \in Buffer /\ HoldsInput(a0)'
      BY <1>5, <1>8
    <2> QED
      BY <1>1, <2>1, <2>2, <2>3 DEF InputReturned
  <1> QED
    BY <1>5, <1>10, <1>11 DEF FrameInv

LEMMA MessageSentKeeps ==
  ASSUME ~DoneAtPush, FrameInv, MessageSent, DeviceLeaves
  PROVE  FrameInv'
PROOF
  <1>0. PICK a0 : a0 = inference_args
    OBVIOUS
  <1>1. /\ uart /\ uart' = FALSE /\ rt' = PushEvent(rt, network_done)
        /\ UNCHANGED <<dma, spi, cluster>> /\ inference_args' = a0
    BY <1>0 DEF MessageSent, DeviceLeaves
  <1>2. /\ at[Inference] = "uart" /\ Waits(Inference, network_done) /\ ~Inferring
        /\ cluster.phase = "idle" /\ cluster.input = NoBuffer
        /\ ~Queued(EventTask(network_done)) /\ ~rt.done[network_done]
    <2>1. at[Inference] = "uart" /\ Waits(Inference, network_done)
      BY <1>1 DEF FrameInv, OneInference
    <2>2. ~Inferring
      BY <2>1 DEF Inferring
    <2>3. cluster.phase = "idle" /\ ~Queued(EventTask(network_done))
      BY <1>1, <2>2 DEF FrameInv, OneInference
    <2>4. cluster.input = NoBuffer
      BY <2>3 DEF FrameInv, OneInference
    <2>5. ~rt.done[network_done]
      BY <2>1, Events, WhoWaits
    <2> QED
      BY <2>1, <2>2, <2>3, <2>4, <2>5
  <1>3. Finished(network_done)
    BY <1>1, <1>2, Events, DeviceFinishes
  <1>4. uart' \in BOOLEAN
        /\ cluster' \in [phase : {"idle", "layer 0", "layers"}, input : Buffer \cup {NoBuffer}]
    BY <1>1 DEF FrameInv, FramesTyped, DevicesTyped
  <1>5. /\ ~failed' /\ FramesTyped' /\ Known(rt') /\ EventsQuiet' /\ ContextsPlaced'
        /\ FirstCaptures' /\ CameraAlone' /\ CallbackFirst' /\ OneSend' /\ AwaitSendNext'
        /\ UnsentKnown'
        /\ \A f \in Buffer : HoldsInput(f)' <=> HoldsInput(f)
        /\ Inferring' <=> Inferring
        /\ \A e \in {inference_done, frame_done, network_done} :
             /\ Queued(EventTask(e))' <=> Queued(EventTask(e)) \/ e = network_done
             /\ \A c : Waits(c, e)' <=> Waits(c, e)
             /\ rt'.done[e] <=> rt.done[e]
        /\ at' = at /\ camera_started' = camera_started /\ (onboard <=> onboard')
        /\ \A f \in Buffer : at[Consumer(f)] \in {"await inference", "released"} => onboard
        /\ at[Inference] # "done" =>
             onboard /\ camera_started /\ ~rt.done[inference_done] /\ ~Queued(EventTask(inference_done))
    BY <1>1, <1>3, <1>4, InferenceFinishes
  <1>6. onboard /\ camera_started /\ ~rt.done[inference_done] /\ ~Queued(EventTask(inference_done))
    BY <1>2, <1>5
  <1>7. frame_done # network_done /\ network_done # inference_done
    BY Events
  <1>8. ~Queued(EventTask(frame_done)) /\ rt.done[frame_done]
    BY <1>2, <1>6 DEF FrameInv, InputReturned, InputUnread
  <1>9. OneInference'
    BY <1>1, <1>2, <1>5, <1>6, <1>7 DEF OneInference
  <1>10. InputReturned'
    BY <1>1, <1>2, <1>5, <1>7, <1>8 DEF InputReturned, InputUnread
  <1> QED
    BY <1>5, <1>9, <1>10 DEF FrameInv

LEMMA PacketSentKeeps ==
  ASSUME ~DoneAtPush, FrameInv, PacketSent, DeviceLeaves
  PROVE  FrameInv'
PROOF
  <1>1. /\ spi /\ spi' = FALSE /\ rt' = PushEvent(rt, cpx_done)
        /\ UNCHANGED <<dma, cluster, uart>>
    BY DEF PacketSent
  <1>2. /\ cpx_done \in Event /\ cpx_done \notin {inference_done, frame_done, network_done}
        /\ streamer_tx_done \in Event /\ cpx_done # streamer_tx_done
        /\ \A f \in Buffer : cpx_done # Done(f)
    BY Events
  <1>3. /\ ~Queued(EventTask(cpx_done)) /\ ~rt.done[cpx_done]
        /\ \E f \in Buffer : Waits(Send(f), cpx_done)
    <2>1. ~Queued(EventTask(cpx_done)) /\ \E f \in Buffer : Waits(Send(f), cpx_done)
      BY <1>1 DEF FrameInv, OneSend
    <2> QED
      BY <1>2, <2>1, WhoWaits
  <1>4. Finished(cpx_done)
    BY <1>1, <1>2, <1>3, DeviceFinishes
  <1>5. /\ ~failed' /\ Known(rt') /\ EventsQuiet' /\ ContextsPlaced'
        /\ ContextsTyped' /\ UnsentKnown'
        /\ \A f \in Buffer : SentWaiting(f)' <=> SentWaiting(f)
    BY <1>2, <1>4, DevicePlaces
  <1>6. FirstCaptures' /\ CameraAlone' /\ CallbackFirst' /\ AwaitSendNext'
    BY <1>1, <1>2, <1>4, DeviceCamera
  <1>7. OneInference' /\ InputReturned'
    BY <1>1, <1>2, <1>4, DeviceInference
  <1>8. FramesTyped'
    <2>1. DevicesTyped'
      BY <1>1 DEF FrameInv, FramesTyped, DevicesTyped, DeviceLeaves
    <2> QED
      BY <1>5, <2>1 DEF FramesTyped
  <1>9. OneSend'
    <2>1. /\ at' = at /\ camera_started' = camera_started
          /\ Queued(EventTask(streamer_tx_done))' <=> Queued(EventTask(streamer_tx_done))
          /\ rt'.done[streamer_tx_done] <=> rt.done[streamer_tx_done]
          /\ \E f \in Buffer : Waits(Send(f), cpx_done)'
      BY <1>2, <1>3, <1>4 DEF Finished, DeviceLeaves
    <2> QED
      BY <1>1, <1>5, <2>1 DEF FrameInv, OneSend
  <1> QED
    BY <1>5, <1>6, <1>7, <1>8, <1>9 DEF FrameInv
------------------------------------------------------------------------------
(* The invariant *)

LEMMA FrameInvInit ==
  ASSUME Init
  PROVE  FrameInv
PROOF
  <1>1. LET k == Started(Event, {})
        IN  /\ Known(k) /\ Queue(k) = {} /\ \A e \in Event : Waiters(k, e) = {}
            /\ \A e \in Event : ~k.done[e]
    BY StartedKnown
  <1>2. LET k == Started(Event, {})
            after == PushTask(k, Resume(Camera))
        IN  /\ Known(after)
            /\ Queue(after) = Queue(k) \cup {Resume(Camera)}
            /\ \A e \in Event : Waiters(after, e) = Waiters(k, e)
            /\ after.done = k.done
    BY <1>1, Contexts, Tasks, KnownPushed
  <1>3. /\ Known(rt) /\ Queue(rt) = {Resume(Camera)}
        /\ \A e \in Event : Waiters(rt, e) = {} /\ ~rt.done[e]
    BY <1>1, <1>2 DEF Init, PushResume
  <1>4. /\ \A c \in Context : Queued(Resume(c)) <=> c = Camera
        /\ \A e : ~Queued(EventTask(e))
        /\ \A c, e : e \in Event => ~Waits(c, e)
    BY <1>3, Tasks DEF Queued, Waits
  <1>5. /\ \A c \in Context : at[c] = IF c = Camera THEN "start" ELSE "done"
        /\ \A f \in Buffer : at[Consumer(f)] = "done" /\ at[Send(f)] = "done"
        /\ at[Camera] = "start" /\ at[Inference] = "done"
    BY Contexts DEF Init
  <1>6. /\ iteration = 0 /\ current = 0 /\ dma = NoBuffer /\ cluster = Idle /\ ~spi /\ ~uart
        /\ spi = FALSE /\ uart = FALSE /\ camera_started = FALSE
        /\ ~camera_started /\ unsent = << >> /\ onboard \in BOOLEAN /\ ~failed
    BY FrameAssumption DEF Init
  <1>7. FramesTyped
    <2>1. ContextsTyped
      <3>1. at \in [Context -> Place]
        BY DEF Init, Place
      <3>2. 0 \in 0 .. CAMERA_BUFFERS /\ 0 \in Buffer
        BY Buffers
      <3>3. << >> \in Seq(Buffer)
        BY EmptyOnce
      <3> QED
        BY <1>5, <1>6, <3>1, <3>2, <3>3 DEF ContextsTyped
    <2>2. DevicesTyped
      BY <1>6 DEF DevicesTyped, Idle
    <2> QED
      BY <2>1, <2>2 DEF FramesTyped
  <1>8. EventsQuiet
    BY <1>3 DEF EventsQuiet
  <1>9. ContextsPlaced
    BY <1>4, <1>5 DEF ContextsPlaced, Placed
  <1>10. FirstCaptures
    BY <1>4, <1>5, <1>6, Buffers DEF FirstCaptures
  <1>11. CameraAlone
    BY <1>5, <1>6 DEF CameraAlone
  <1>12. CallbackFirst /\ AwaitSendNext
    BY <1>5 DEF CallbackFirst, AwaitSendNext
  <1>13. OneSend
    BY <1>4, <1>5, <1>6 DEF OneSend, SentWaiting
  <1>14. OneInference /\ InputReturned
    BY <1>4, <1>5, <1>6 DEF OneInference, InputReturned, InputUnread, Idle
  <1>15. UnsentKnown
    <2>1. Range(unsent) = {} /\ IsInjective(unsent) /\ Len(unsent) = 0
      BY <1>6, EmptyOnce
    <2>2. \A f \in Buffer : ~Unsent(f)
      BY <1>5 DEF Unsent
    <2> QED
      BY <2>1, <2>2 DEF UnsentKnown
  <1> QED
    BY <1>3, <1>6, <1>7, <1>8, <1>9, <1>10, <1>11, <1>12, <1>13, <1>14, <1>15 DEF FrameInv

LEMMA FrameInvStutters ==
  ASSUME FrameInv, UNCHANGED vars
  PROVE  FrameInv'
PROOF
  <1>1. UNCHANGED <<rt, at, iteration, current, dma, cluster, spi, uart, camera_started,
                    inference_args, unsent, onboard, failed>>
    BY DEF vars, camera, devices
  <1>2. FramesTyped' /\ Known(rt')
    BY <1>1 DEF FrameInv, FramesTyped, ContextsTyped, DevicesTyped
  <1>3. /\ \A t : Queued(t)' <=> Queued(t)
        /\ \A c, e : (Waits(c, e)' <=> Waits(c, e)) /\ (Awaits(c, e)' <=> Awaits(c, e))
        /\ \A f : (SentWaiting(f)' <=> SentWaiting(f)) /\ (Unsent(f)' <=> Unsent(f))
        /\ \A f : HoldsInput(f)' <=> HoldsInput(f)
        /\ (Inferring' <=> Inferring) /\ (InputUnread' <=> InputUnread)
    BY <1>1 DEF Queued, Waits, Awaits, SentWaiting, Unsent, HoldsInput, Inferring, InputUnread
  <1>4. EventsQuiet' /\ ContextsPlaced'
    <2>1. EventsQuiet'
      BY <1>1, <1>3 DEF FrameInv, EventsQuiet, Quiet
    <2>2. \A c : Placed(c) => Placed(c)'
      BY <1>1, <1>3 DEF Placed
    <2> QED
      BY <2>1, <2>2 DEF FrameInv, ContextsPlaced
  <1>5. FirstCaptures' /\ CameraAlone' /\ CallbackFirst'
    <2>1. FirstCaptures' /\ CameraAlone'
      BY <1>1, <1>3 DEF FrameInv, FirstCaptures, CameraAlone
    <2>2. CallbackFirst'
      BY <1>1, <1>3 DEF FrameInv, CallbackFirst
    <2> QED
      BY <2>1, <2>2
  <1>6. OneSend'
    BY <1>1, <1>3 DEF FrameInv, OneSend
  <1>7. OneInference'
    BY <1>1, <1>3 DEF FrameInv, OneInference
  <1>8. InputReturned'
    BY <1>1, <1>3 DEF FrameInv, InputReturned
  <1>9. AwaitSendNext'
    BY <1>1, <1>3 DEF FrameInv, AwaitSendNext
  <1>10. UnsentKnown'
    BY <1>1, <1>3 DEF FrameInv, UnsentKnown
  <1> QED
    BY <1>1, <1>2, <1>4, <1>5, <1>6, <1>7, <1>8, <1>9, <1>10 DEF FrameInv

LEMMA FrameInvStep ==
  ASSUME ~DoneAtPush, FrameInv, [Next]_vars
  PROVE  FrameInv'
PROOF
  <1>1. CASE UNCHANGED vars
    BY <1>1, FrameInvStutters
  <1>2. CASE Next /\ RunTask
    <2>1. Oldest(Head(rt.tasks)) /\ UNCHANGED onboard
      BY <1>2 DEF Next, RunTask, Oldest
    <2>2. CASE \E e \in Event :
                 /\ Head(rt.tasks) = EventTask(e)
                 /\ rt' = RunEvent(Popped(rt), e)
                 /\ UNCHANGED <<at, left, camera, devices, camera_started, inference_args, unsent,
                                failed>>
      BY <2>1, <2>2, RunEventKeeps
    <2>3. CASE Head(rt.tasks) = Resume(Camera) /\ CameraTask(Popped(rt))
      BY <2>1, <2>3, CameraStartsKeeps, BufferFreeKeeps, CropFrameKeeps, ConsumeFrameKeeps
         DEF CameraTask
    <2>4. ASSUME NEW f \in Buffer, Head(rt.tasks) = Resume(Consumer(f)), Consume(Popped(rt), f)
          PROVE  FrameInv'
      <3>1. CASE CropTask(Popped(rt), f) \/ CropReturns(Popped(rt), f)
        BY <2>1, <2>4, <3>1, CropTaskKeeps, CropReturnsKeeps
      <3>2. CASE CallbackBegins(Popped(rt), f)
        BY <2>1, <2>4, <3>2, AwaitPreviousKeeps, StartBothKeeps DEF CallbackBegins
      <3>3. CASE FrameSent(Popped(rt), f) \/ CallbackReturns(Popped(rt), f)
        BY <2>1, <2>4, <3>3, FrameSentKeeps, CallbackReturnsKeeps
      <3> QED
        BY <2>4, <3>1, <3>2, <3>3 DEF Consume
    <2>5. ASSUME NEW f \in Buffer, Head(rt.tasks) = Resume(Send(f)), SendFrame(Popped(rt), f)
          PROVE  FrameInv'
      BY <2>1, <2>5, SendStartsKeeps, SendNextKeeps, SendReturnsKeeps DEF SendFrame
    <2>6. CASE Head(rt.tasks) = Resume(Inference) /\ Infer(Popped(rt))
      BY <2>1, <2>6, RunNetworkKeeps, SendInferenceKeeps, InferenceReturnsKeeps DEF Infer
    <2> QED
      BY <1>2, <2>2, <2>3, <2>4, <2>5, <2>6 DEF RunTask
  <1>3. CASE Next /\ Device
    <2>1. DeviceLeaves
      BY <1>3 DEF Next, Device, DeviceLeaves, camera
    <2> QED
      BY <1>3, <2>1, FrameCapturedKeeps, InputDoneKeeps, NetworkDoneKeeps, PacketSentKeeps,
         MessageSentKeeps DEF Device
  <1> QED
    BY <1>1, <1>2, <1>3 DEF Next

\* Every coroutine of the applications, every event and every device is where
\* camera_task, camera_callback, streamer_send_task and inference_task have it.
THEOREM FrameInvariant ==
  ASSUME ~DoneAtPush
  PROVE  Spec => []FrameInv
PROOF
  <1>1. Init => FrameInv
    BY FrameInvInit
  <1>2. FrameInv /\ [Next]_vars => FrameInv'
    BY FrameInvStep
  <1> QED
    BY <1>1, <1>2, PTL DEF Spec

\* The buffer that the network or inference_task has yet to read is held by its callback.
LEMMA InputOfHolder ==
  ASSUME FrameInv, NEW f \in Buffer,
         cluster.input = f \/ (at[Inference] = "input" /\ inference_args = f)
  PROVE  at[Consumer(f)] \in {"sent", "released"}
PROOF
  <1>1. f # NoBuffer
    BY DEF Buffer, NoBuffer, CAMERA_BUFFERS
  <1>2. InputUnread /\ inference_args = f /\ at[Inference] # "done"
    <2>1. CASE cluster.input = f
      BY <1>1, <2>1 DEF FrameInv, OneInference, InputUnread, Inferring
    <2>2. CASE at[Inference] = "input" /\ inference_args = f
      BY <2>2 DEF InputUnread
    <2> QED
      BY <2>1, <2>2
  <1>3. onboard /\ camera_started /\ ~rt.done[frame_done]
    BY <1>2 DEF FrameInv, OneInference, InputReturned
  <1>4. HoldsInput(f)
    BY <1>2, <1>3 DEF FrameInv, InputReturned
  <1> QED
    BY <1>4 DEF HoldsInput

\* A buffer that the camera captures into or crops is used by nobody else.
THEOREM FramesExclusive ==
  ASSUME ~DoneAtPush
  PROVE  Spec => []FrameExclusive
PROOF
  <1>1. ASSUME FrameInv, NEW f \in Buffer
        PROVE  /\ dma = f => at[Consumer(f)] = "done"
               /\ Cropping(f) => dma # f
               /\ at[Send(f)] # "done" => at[Consumer(f)] = "sent"
    <2>1. f # NoBuffer
      BY DEF Buffer, NoBuffer, CAMERA_BUFFERS
    <2>2. dma = f => f = current /\ at[Camera] = "captured"
      BY <1>1, <2>1 DEF FrameInv, CameraAlone
    <2>3. dma = f => at[Consumer(f)] = "done"
      BY <1>1, <2>2 DEF FrameInv, CameraAlone
    <2>4. at[Send(f)] # "done" => at[Consumer(f)] = "sent"
      BY <1>1 DEF FrameInv, OneSend, SentWaiting
    <2> QED
      BY <2>3, <2>4 DEF Cropping
  <1>2. ASSUME FrameInv, NEW f \in Buffer, dma = f
        PROVE  Users(f) = {"dma"}
    <2>1. at[Consumer(f)] = "done" /\ at[Send(f)] = "done" /\ ~Cropping(f)
      BY <1>1, <1>2 DEF Cropping
    <2>2. ~(cluster.input = f \/ (at[Inference] = "input" /\ inference_args = f))
      BY <1>2, <2>1, InputOfHolder
    <2> QED
      BY <1>2, <2>1, <2>2 DEF Users
  <1>3. ASSUME FrameInv, NEW f \in Buffer, Cropping(f)
        PROVE  Users(f) = {"crop"}
    <2>1. at[Consumer(f)] = "crop" /\ at[Send(f)] = "done" /\ dma # f
      BY <1>1, <1>3 DEF Cropping
    <2>2. ~(cluster.input = f \/ (at[Inference] = "input" /\ inference_args = f))
      BY <1>3, <2>1, InputOfHolder
    <2> QED
      BY <1>3, <2>1, <2>2 DEF Users
  <1>4. FrameInv => FrameExclusive
    <2> SUFFICES ASSUME FrameInv, NEW f \in Buffer
                 PROVE  \/ Users(f) \subseteq {"send", "network"}
                        \/ \E u \in Users(f) : Users(f) = {u}
      BY DEF FrameExclusive
    <2>1. CASE dma # f /\ ~Cropping(f)
      BY <2>1 DEF Users
    <2> QED
      BY <1>2, <1>3, <2>1
  <1> QED
    BY <1>4, FrameInvariant, PTL

\* Only one send, and one crop, at a time works on its static variables; no context is
\* started while it runs; the one UART message is not rewritten while it is on its way.
THEOREM StaticsUnshared ==
  ASSUME ~DoneAtPush
  PROVE  Spec => []StaticsNotShared
PROOF
  <1>1. ASSUME FrameInv, NEW f \in Buffer, NEW g \in Buffer, Sending(f), Sending(g)
        PROVE  f = g
    BY <1>1 DEF Sending, FrameInv, OneSend
  <1>2. ASSUME FrameInv, NEW f \in Buffer, NEW g \in Buffer, Cropping(f), Cropping(g)
        PROVE  f = g
    BY <1>2 DEF Cropping, FrameInv, CameraAlone
  <1>3. FrameInv => ~failed /\ (uart => at[Inference] = "uart")
    BY DEF FrameInv, OneInference
  <1>4. FrameInv => StaticsNotShared
    BY <1>1, <1>2, <1>3 DEF StaticsNotShared
  <1> QED
    BY <1>4, FrameInvariant, PTL

\* What a step does to the sends and to the DMA
LEMMA SendsAndCaptures ==
  ASSUME FrameInv, [Next]_vars, NEW f \in Buffer
  PROVE  /\ ~Sending(f) /\ Sending(f)' => at[Send(f)] = "send"
         /\ dma # f /\ dma' = f => UNCHANGED unsent
PROOF
  <1>1. at \in [Context -> Place] /\ f # NoBuffer
    <2>1. f # NoBuffer
      BY DEF Buffer, NoBuffer, CAMERA_BUFFERS
    <2> QED
      BY <2>1 DEF FrameInv, FramesTyped, ContextsTyped
  <1>2. CASE UNCHANGED vars
    BY <1>2 DEF vars, Sending
  <1>3. CASE RunTask
    <2>1. CASE UNCHANGED <<at, left, camera, devices, camera_started, inference_args, unsent, failed>>
      BY <2>1 DEF Sending, devices
    <2>2. CASE CameraTask(Popped(rt))
      <3>1. dma' # dma => UNCHANGED unsent
        BY <2>2 DEF CameraTask, CameraStarts, BufferFree, CropFrame, ConsumeFrame
      <3>2. at'[Send(f)] = at[Send(f)]
        BY <1>1, <2>2, Contexts DEF CameraTask, CameraStarts, BufferFree, CropFrame, ConsumeFrame,
           BeginIteration, Capture
      <3> QED
        BY <3>1, <3>2 DEF Sending
    <2>3. ASSUME NEW g \in Buffer, Consume(Popped(rt), g)
          PROVE  UNCHANGED dma /\ (Sending(f)' => at'[Send(f)] = at[Send(f)])
      <3>1. UNCHANGED dma
        BY <2>3 DEF Consume, CropTask, CropReturns, CallbackBegins, FrameSent, CallbackReturns,
           devices
      <3>2. CASE CropTask(Popped(rt), g) \/ CropReturns(Popped(rt), g) \/ FrameSent(Popped(rt), g)
                 \/ CallbackReturns(Popped(rt), g)
        BY <1>1, <3>1, <3>2, Contexts DEF CropTask, CropReturns, FrameSent, CallbackReturns
      <3>3. CASE CallbackBegins(Popped(rt), g)
        BY <1>1, <3>1, <3>3, Contexts DEF CallbackBegins, AwaitPrevious, StartBoth, Sending
      <3> QED
        BY <2>3, <3>2, <3>3 DEF Consume
    <2>4. ASSUME NEW g \in Buffer, SendFrame(Popped(rt), g)
          PROVE  UNCHANGED dma /\ (Sending(f)' => Sending(f) \/ at[Send(f)] = "send")
      BY <1>1, <2>4, Contexts DEF SendFrame, SendStarts, SendNext, SendReturns, Sending, devices
    <2>5. CASE Infer(Popped(rt))
      BY <1>1, <2>5, Contexts DEF Infer, RunNetwork, SendInference, InferenceReturns, Sending, devices
    <2> QED
      BY <1>3, <2>1, <2>2, <2>3, <2>4, <2>5 DEF RunTask, Sending
  <1>4. CASE Device
    BY <1>1, <1>4 DEF Device, FrameCaptured, InputDone, NetworkDone, PacketSent, MessageSent, Sending
  <1> QED
    BY <1>2, <1>3, <1>4 DEF Next

\* A frame is given to the link once, in the order the frames were captured unless the
\* network runs on them, and before its buffer is captured into again.
THEOREM FramesSentOnce ==
  ASSUME ~DoneAtPush
  PROVE  Spec => EachSentOnce
PROOF
  <1>1. ASSUME FrameInv, NEW f \in Buffer, at[Send(f)] = "send"
        PROVE  /\ \E i \in DOMAIN unsent : unsent[i] = f
               /\ ~onboard => f = Head(unsent)
    <2>1. unsent \in Seq(Buffer) /\ f \in Range(unsent)
      BY <1>1 DEF FrameInv, FramesTyped, ContextsTyped, UnsentKnown, Unsent
    <2>2. PICK i \in DOMAIN unsent : unsent[i] = f
      BY <2>1 DEF Range
    <2>3. Len(unsent) \in Nat /\ i \in 1 .. Len(unsent) /\ Head(unsent) = unsent[1]
          /\ Head(unsent) \in Buffer
      BY <2>1, <2>2
    <2>4. CASE Len(unsent) = 1
      <3>1. i = 1
        BY <2>3, <2>4
      <3> QED
        BY <2>2, <2>3, <3>1
    <2>5. ASSUME Len(unsent) > 1, ~onboard
          PROVE  f = Head(unsent)
      <3>1. at[Send(Head(unsent))] = "send"
        BY <1>1, <2>5 DEF FrameInv, UnsentKnown
      <3> QED
        BY <1>1, <2>3, <3>1 DEF FrameInv, OneSend
    <2>6. Len(unsent) = 1 \/ Len(unsent) > 1
      <3>1. \A n \in Nat : \A j \in 1 .. n : n = 1 \/ n > 1
        OBVIOUS
      <3> QED
        BY <2>3, <3>1
    <2> QED
      BY <2>2, <2>4, <2>5, <2>6
  <1>2. ASSUME FrameInv, UNCHANGED unsent, FrameInv', NEW f \in Buffer, dma' = f
        PROVE  \A i \in DOMAIN unsent : unsent[i] # f
    <2>1. f # NoBuffer
      BY DEF Buffer, NoBuffer, CAMERA_BUFFERS
    <2>2. f = current' /\ at'[Camera] = "captured"
      BY <1>2, <2>1 DEF FrameInv, CameraAlone
    <2>3. at'[Consumer(f)] = "done"
      BY <1>2, <2>2 DEF FrameInv, CameraAlone
    <2>4. at'[Send(f)] = "done"
      BY <1>2, <2>3 DEF FrameInv, OneSend, SentWaiting
    <2>5. ~Unsent(f)'
      BY <2>2, <2>3, <2>4 DEF Unsent
    <2>6. f \notin Range(unsent)
      BY <1>2, <2>5 DEF FrameInv, UnsentKnown
    <2> QED
      BY <2>6 DEF Range
  <1>3. FrameInv /\ FrameInv' /\ [Next]_vars =>
          [\A f \in Buffer :
             /\ ~Sending(f) /\ Sending(f)' =>
                  /\ \E i \in DOMAIN unsent : unsent[i] = f
                  /\ ~onboard => f = Head(unsent)
             /\ dma # f /\ dma' = f => \A i \in DOMAIN unsent : unsent[i] # f]_vars
    BY <1>1, <1>2, SendsAndCaptures
  <1> QED
    BY <1>3, FrameInvariant, PTL DEF Spec, EachSentOnce
==============================================================================
