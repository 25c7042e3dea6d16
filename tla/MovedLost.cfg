\* A move, a trace saved and loaded, an unwind.
SPECIFICATION Spec
CONSTANTS
  Paths <- MCPaths
  Above <- MCAbove
  Disks <- MCDisks
  Top = Top
  None = None
  Ops = {"move"}
  MaxOps = 1
  MaxFaults = 0
  MaxOutside = 0
  MaxUnwinds = 1
  MaxReloads = 1
INVARIANTS
  ResumedUndoRestores
\* A run that has landed takes no further step.
CHECK_DEADLOCK FALSE
