\* In-order clients of queue_t, one of which overwrites when the queue is full.
SPECIFICATION Spec
CONSTANTS
  Capacity = 3
  Value = {v1, v2}
  OverwriteFlags = {TRUE, FALSE}
INVARIANTS
  NoAssertionFailure
CHECK_DEADLOCK FALSE
