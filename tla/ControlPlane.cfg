\* Two commands and an event stream over a run of two goroutines that is taken
\* up a second time under the same id.
SPECIFICATION FairSpec
CONSTANTS
  c1 = c1
  c2 = c2
  Clients = {c1, c2}
  Sends <- MCSends
  Observers = {o1}
  Workers = {w1, w2}
  Capacity = 1
  Backlog = 1
  MaxRuns = 2
INVARIANTS
  RefusedHasNoEffect
  RunningIsReachable
PROPERTIES
  GapsAreLosses
  CommandsSettle
\* Clients and observers may have made their last request.
CHECK_DEADLOCK FALSE
