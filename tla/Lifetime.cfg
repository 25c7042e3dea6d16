\* Two processes, three commands, over a copied system target and a linked home target.
\* What a deploy under stop does, one under replace may do too: only its pre-flight refuses more.
SPECIFICATION Spec
CONSTANTS
  None = None
  t1 = t1
  t2 = t2
  Procs = {p1, p2}
  Lifetimes = {l1, l2}
  Targets = {t1, t2}
  System = {t1}
  Linked = {t2}
  Policies = {"skip", "replace"}
  MaxCommands = 3
  MaxRuns = 3
  MaxMishaps = 1
  EditsOverlap = FALSE
SYMMETRY MCSymmetry
INVARIANTS
  
  RecordTruthful
PROPERTIES
  HistoryClosed
\* Commands and edits are bounded.
CHECK_DEADLOCK FALSE
