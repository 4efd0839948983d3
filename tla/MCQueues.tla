------------------------------ MODULE MCQueues ------------------------------
(***************************************************************************)
(* Clients of queue_t, or of queue_async_t: via says which of the two a    *)
(* behaviour is about.  The run-time is at work only for the second.       *)
(***************************************************************************)
EXTENDS AsyncQueue

VARIABLE via

queuesVars == <<asyncVars, via>>

AtRest ==
  /\ rt = Started({"queue_free", "queue_ready", "pushed", "popped"}, {})
  /\ turn = "none" /\ pushing = "idle" /\ popping = "idle"
  /\ style = [c \in Client |-> {"poll"}]

QueuesInit ==
  \/ via = "queue_t" /\ Init /\ AtRest
  \/ via = "queue_async_t" /\ AsyncInit

QueuesNext ==
  \/ /\ via = "queue_t"
     /\ Next
     /\ UNCHANGED <<rt, turn, pushing, popping, style, via>>
  \/ /\ via = "queue_async_t"
     /\ AsyncNext
     /\ UNCHANGED via

\* The fairness of AsyncSpec
QueuesSpec ==
  /\ QueuesInit /\ [][QueuesNext]_queuesVars
  /\ WF_asyncVars(via = "queue_async_t" /\ AsyncNext)
  /\ SF_asyncVars(via = "queue_async_t" /\ AsyncCommit /\ UNCHANGED style)
  /\ SF_asyncVars(via = "queue_async_t" /\ AsyncRelease /\ UNCHANGED style)
  /\ SF_asyncVars(via = "queue_async_t" /\ TryAcquire /\ UNCHANGED style)
  /\ SF_asyncVars(via = "queue_async_t" /\ TryConsume /\ UNCHANGED style)
-----------------------------------------------------------------------------
\* Clients that wait for their calls, or poll, trip no assertion of queue.c:
\* queue_async_push_task and queue_async_pop_task are resumed only when there is
\* room or an element (queue.c:251, 302), and never started twice.
AsyncNeverAsserts == via = "queue_async_t" => NoAssertionFailure

\* CallsReturn, of the clients of queue_async_t.
AsyncCallsReturn == via = "queue_async_t" => CallsReturn
=============================================================================
