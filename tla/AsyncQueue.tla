----------------------------- MODULE AsyncQueue -----------------------------
(***************************************************************************)
(* queue_async_t of nanocockpit/lib/queue.c: the ring of Queue with two    *)
(* events, on the run-time of Coroutine.  Its producer and consumer are    *)
(* coroutines like those of examples/queue_async: they call the queue      *)
(* during their turn and end it by waiting for the call's done_task.       *)
(* push and pop are the queue's own coroutines, which wait for room and    *)
(* for an element on a client's behalf.                                    *)
(***************************************************************************)
EXTENDS Queue, Coroutine

CONSTANTS
  MaxHeld, MaxInUse, \* slots a client holds when it does not wait for another
  Mixing             \* may one client both wait for its calls and poll?

\* With more, a producer and a consumer that wait for each other would do so for ever.
ASSUME ClientsAssumption ==
  /\ MaxHeld \in Nat \ {0} /\ MaxInUse \in Nat \ {0}
  /\ MaxHeld + MaxInUse <= Capacity + 1
  /\ Mixing \in BOOLEAN

VARIABLES
  rt,      \* the run-time
  turn,    \* the client that is running, or "none"
  pushing, \* queue_async_push_task: no push_el, started, or past its CO_WAIT
  popping, \* queue_async_pop_task
  style    \* how each client calls: with a done_task ("wait"), without ("poll")

asyncVars == <<vars, rt, turn, pushing, popping, style>>

Client == {"producer", "consumer"}
TaskState == {"idle", "started", "waiting"}

\* queue_async_init, and main_task starting both clients
AsyncInit ==
  /\ Init
  /\ rt = PushResume(PushResume(PushEvent(
            Started({"queue_free", "queue_ready", "pushed", "popped"}, {}),
            "queue_free"), "producer"), "consumer")
  /\ turn = "none"
  /\ pushing = "idle"
  /\ popping = "idle"
  /\ style \in [Client -> {{"wait"}, {"poll"}}
                          \cup IF Mixing THEN {{"wait", "poll"}} ELSE {}]

\* CO_WAIT on the done_task of a call ends the turn.
EndTurn(r, e, ctx) ==
  /\ rt' = WaitEvent(r, e, ctx)
  /\ turn' = "none"
-----------------------------------------------------------------------------
\* Mutant of StartPush: an old queue_free would count for the new wait.
StartPushOnOldEvent(r) == PushResume(r, "push")

\* The end of queue_async_push_acquire and of queue_async_pop_consume
StartPush(r) == PushResume(InitEvent(r, "queue_free"), "push")
StartPop(r) == PushResume(InitEvent(r, "queue_ready"), "pop")

\* queue_async_push_acquire(q, &el, co_event_init(&queue_done)); CO_WAIT(&queue_done)
AsyncAcquire ==
  /\ turn = "producer" /\ "wait" \in style[turn]
  /\ Len(held) < MaxHeld
  /\ LET r == InitEvent(rt, "pushed") IN
       \/ /\ ~Full
          /\ PushAcquire
          /\ EndTurn(PushEvent(r, "pushed"), "pushed", "producer")
          /\ UNCHANGED pushing
       \/ /\ Full
          /\ IF pushing = "idle"
               THEN pushing' = "started" /\ UNCHANGED vars
               ELSE AssertionFailure /\ UNCHANGED pushing
          /\ EndTurn(StartPush(r), "pushed", "producer")
  /\ UNCHANGED popping

\* queue_async_push_acquire(q, &el, NULL), when there is room
TryAcquire ==
  /\ turn = "producer" /\ "poll" \in style[turn]
  /\ ~Full
  /\ PushAcquire
  /\ UNCHANGED <<rt, turn, pushing, popping>>

\* queue_async_push_commit
AsyncCommit ==
  /\ turn = "producer"
  /\ \E v \in Value : PushCommit(v)
  /\ rt' = PushEvent(rt, "queue_ready")
  /\ UNCHANGED <<turn, pushing, popping>>

\* queue_async_push_discard
AsyncDiscard ==
  /\ turn = "producer"
  /\ PushDiscard
  /\ UNCHANGED <<rt, turn, pushing, popping>>

\* queue_async_pop_consume(q, &el, co_event_init(&queue_done)); CO_WAIT(&queue_done)
AsyncConsume ==
  /\ turn = "consumer" /\ "wait" \in style[turn]
  /\ Len(inuse) < MaxInUse
  /\ LET r == InitEvent(rt, "popped") IN
       \/ /\ PopConsume
          /\ EndTurn(PushEvent(r, "popped"), "popped", "consumer")
          /\ UNCHANGED popping
       \/ /\ count = 0
          /\ IF popping = "idle"
               THEN popping' = "started" /\ UNCHANGED vars
               ELSE AssertionFailure /\ UNCHANGED popping
          /\ EndTurn(StartPop(r), "popped", "consumer")
  /\ UNCHANGED pushing

\* queue_async_pop_consume(q, &el, NULL), when there is an element
TryConsume ==
  /\ turn = "consumer" /\ "poll" \in style[turn]
  /\ PopConsume
  /\ UNCHANGED <<rt, turn, pushing, popping>>

ReleaseEvent(r) == PushEvent(r, "queue_free")

\* CO_YIELD of a client that polls
Yield ==
  /\ turn # "none" /\ "poll" \in style[turn]
  /\ rt' = PushResume(rt, turn)
  /\ turn' = "none"
  /\ UNCHANGED <<vars, pushing, popping>>

\* queue_async_pop_release
AsyncRelease ==
  /\ turn = "consumer"
  /\ PopRelease
  /\ rt' = ReleaseEvent(rt)
  /\ UNCHANGED <<turn, pushing, popping>>
-----------------------------------------------------------------------------
\* Mutant of PushReturns: CO_RETURN without its done_task.
PushReturnsSilently(r) == r

PushReturns(r) == PushEvent(r, "pushed")

\* queue_async_push_task, up to its CO_WAIT and from there on
PushTaskRuns(r) ==
  \/ /\ pushing = "started"
     /\ pushing' = "waiting"
     /\ rt' = WaitEvent(r, "queue_free", "push")
     /\ UNCHANGED vars
  \/ /\ pushing = "waiting"
     /\ IF Full THEN AssertionFailure ELSE PushAcquire
     /\ pushing' = "idle"
     /\ rt' = PushReturns(r)

\* queue_async_pop_task
PopTaskRuns(r) ==
  \/ /\ popping = "started"
     /\ popping' = "waiting"
     /\ rt' = WaitEvent(r, "queue_ready", "pop")
     /\ UNCHANGED vars
  \/ /\ popping = "waiting"
     /\ IF count = 0 THEN AssertionFailure ELSE PopConsume
     /\ popping' = "idle"
     /\ rt' = PushEvent(r, "popped")

\* The scheduler runs its oldest task.
RunTask ==
  /\ turn = "none"
  /\ rt.tasks # << >>
  /\ LET task == Head(rt.tasks) IN
       \/ \E e \in DOMAIN rt.done :
            /\ task = EventTask(e)
            /\ rt' = RunEvent(Popped(rt), e)
            /\ UNCHANGED <<vars, turn, pushing, popping>>
       \/ \E c \in Client :
            /\ task = Resume(c)
            /\ turn' = c
            /\ rt' = Popped(rt)
            /\ UNCHANGED <<vars, pushing, popping>>
       \/ /\ task = Resume("push")
          /\ PushTaskRuns(Popped(rt))
          /\ UNCHANGED <<turn, popping>>
       \/ /\ task = Resume("pop")
          /\ PopTaskRuns(Popped(rt))
          /\ UNCHANGED <<turn, pushing>>

AsyncNext ==
  /\ ~failed
  /\ \/ AsyncAcquire \/ TryAcquire \/ AsyncCommit \/ AsyncDiscard
     \/ AsyncConsume \/ TryConsume \/ AsyncRelease
     \/ Yield \/ RunTask
  /\ UNCHANGED style

\* Clients end their turns and the main loop calls pi_yield.  A client that again
\* and again could commit, release or get a slot by polling does so in the end.
AsyncSpec ==
  /\ AsyncInit /\ [][AsyncNext]_asyncVars
  /\ WF_asyncVars(AsyncNext)
  /\ SF_asyncVars(AsyncCommit /\ UNCHANGED style)
  /\ SF_asyncVars(AsyncRelease /\ UNCHANGED style)
  /\ SF_asyncVars(TryAcquire /\ UNCHANGED style)
  /\ SF_asyncVars(TryConsume /\ UNCHANGED style)
-----------------------------------------------------------------------------
Queued == {rt.tasks[i] : i \in DOMAIN rt.tasks}

AsyncTypeOK ==
  /\ TypeOK
  /\ turn \in Client \cup {"none"}
  /\ pushing \in TaskState /\ popping \in TaskState
  /\ Queued \subseteq {Resume(c) : c \in Client \cup {"push", "pop"}}
                        \cup {EventTask(e) : e \in DOMAIN rt.done}

\* queue_async_push_task waits with room in the queue, or queue_async_pop_task
\* with an element, only while a task that will resume it is on its way: although
\* both events are initialised again by each call that has to wait.
NoLostWakeUp ==
  /\ pushing = "waiting" /\ ~Full =>
       EventTask("queue_free") \in Queued \/ Resume("push") \in Queued
  /\ popping = "waiting" /\ count > 0 =>
       EventTask("queue_ready") \in Queued \/ Resume("pop") \in Queued

\* Every call of the producer and of the consumer returns.
CallsReturn ==
  /\ []<>(turn = "producer")
  /\ []<>(turn = "consumer")
=============================================================================
