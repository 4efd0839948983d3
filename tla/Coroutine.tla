----------------------------- MODULE Coroutine -----------------------------
(***************************************************************************)
(* The run-time of nanocockpit/lib/coroutine.h and event_group.h as        *)
(* functions on its state, a record with the fields                        *)
(*    tasks    the scheduler's FIFO of pi_task_t: <<"resume", ctx>> or     *)
(*             <<"event", e>> for the callback of co_event_t e, and        *)
(*             whatever other tasks the client pushes                      *)
(*    done     [events -> has e's pi_task completed?]                      *)
(*    waiting  [events -> contexts in CO_WAIT on e, first come first]      *)
(*    bits     of the one event group                                      *)
(*    wait     what its one waiter waits for, or NotWaiting                *)
(* Coroutines are cooperative: one runs from a resume to its next          *)
(* suspension point without anything in between, and interrupts only push  *)
(* tasks.                                                                  *)
(*                                                                         *)
(* External, from how the code uses it: the PMSIS scheduler runs pushed    *)
(* tasks in order, one at a time, and pi_task_is_done turns true either    *)
(* when the task is pushed or when it is run.                              *)
(***************************************************************************)
EXTENDS Sequences

CONSTANT DoneAtPush  \* does a pi_task count as done once it is pushed?

ASSUME DoneAssumption == DoneAtPush \in BOOLEAN

NotWaiting == [ctx |-> "none", bits |-> {}, all |-> FALSE]

\* The state after pi_kickoff, with these events and nothing pushed
Started(events, bits) ==
  [tasks |-> << >>, done |-> [e \in events |-> FALSE], waiting |-> [e \in events |-> << >>],
   bits |-> bits, wait |-> NotWaiting]

Resume(ctx) == <<"resume", ctx>>
EventTask(e) == <<"event", e>>

PushTask(rt, t) == [rt EXCEPT !.tasks = Append(@, t)]

\* co_fn_push_resume
PushResume(rt, ctx) == PushTask(rt, Resume(ctx))

\* The scheduler takes its oldest task.
Popped(rt) == [rt EXCEPT !.tasks = Tail(@)]

\* co_event_init: the list of waiting contexts is emptied, nobody is resumed.
InitEvent(rt, e) == [rt EXCEPT !.done[e] = FALSE, !.waiting[e] = << >>]

\* pi_task_push of an event
PushEvent(rt, e) == PushTask([rt EXCEPT !.done[e] = @ \/ DoneAtPush], EventTask(e))

\* co_event_callback, run by the scheduler
RunEvent(rt, e) ==
  LET ctxs == rt.waiting[e]
  IN  [rt EXCEPT !.tasks = @ \o [i \in DOMAIN ctxs |-> Resume(ctxs[i])],
                 !.done[e] = @ \/ ~DoneAtPush,
                 !.waiting[e] = << >>]

\* co_event_wait: on an event that is done it empties the list, the other waiters
\* included, and resumes its own context.
WaitEvent(rt, e, ctx) ==
  IF rt.done[e]
    THEN PushResume([rt EXCEPT !.waiting[e] = << >>], ctx)
    ELSE [rt EXCEPT !.waiting[e] = Append(@, ctx)]
----------------------------------------------------------------------------
\* co_event_group_test
GroupTest(rt, bits, all) == IF all THEN bits \subseteq rt.bits ELSE bits \cap rt.bits # {}

\* co_event_group_update
GroupUpdate(rt) ==
  IF rt.wait # NotWaiting /\ GroupTest(rt, rt.wait.bits, rt.wait.all)
    THEN PushResume([rt EXCEPT !.wait = NotWaiting], rt.wait.ctx)
    ELSE rt

GroupSet(rt, bits) == GroupUpdate([rt EXCEPT !.bits = @ \cup bits])
GroupClear(rt, bits) == [rt EXCEPT !.bits = @ \ bits]

\* co_event_group_wait
GroupWait(rt, ctx, bits, all) ==
  IF GroupTest(rt, bits, all)
    THEN PushResume(rt, ctx)
    ELSE [rt EXCEPT !.wait = [ctx |-> ctx, bits |-> bits, all |-> all]]
============================================================================
