\* A command, a second subscriber and a second exec on one console, with refusals,
\* cancellations, helpers that hold the pipes, and the end of the environment.
SPECIFICATION FairSpec
CONSTANTS
  Callers = {c1}
  Watchers = {w1}
  Neighbour = other
  MaxSaid = 1
  MaxOther = 1
INVARIANTS
  OutcomeWhole
PROPERTIES
  IsFeed
  CallsEnd
\* Every call may have returned.
CHECK_DEADLOCK FALSE
