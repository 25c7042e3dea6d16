\* Every method of the provider, failing part way or not, an outside program,
\* up to two unwinds whose compensations may be blocked, and a reload from the trace between them.
SPECIFICATION Spec
CONSTANTS
  Paths <- MCPaths
  Above <- MCAbove
  Disks <- MCDisks
  Top = Top
  None = None
  Ops = {"write", "link", "mkdir", "move", "remove", "removeAll"}
  MaxOps = 3
  MaxFaults = 1
  MaxOutside = 1
  MaxUnwinds = 2
  MaxReloads = 1
INVARIANTS
  OriginalsRecoverable
  CleanUndoRestores

  
\* A run that has landed takes no further step.
CHECK_DEADLOCK FALSE
