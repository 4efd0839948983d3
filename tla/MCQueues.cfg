\* Clients of queue_t, and of queue_async_t where each waits for its calls or polls.
SPECIFICATION QueuesSpec
CONSTANTS
  Capacity = 3
  Value = {v1, v2}
  OverwriteFlags = {TRUE, FALSE}
  DoneAtPush = FALSE
  MaxHeld = 2
  MaxInUse = 2
  Mixing = FALSE
INVARIANTS
  FailsOnlyOverwriting
  NoSlotShared
  AsyncNeverAsserts
PROPERTIES
  ImplementsFifo
  AsyncCallsReturn
\* A client of queue_t that overwrites while an element is in use ends the program.
CHECK_DEADLOCK FALSE
