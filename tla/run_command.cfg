SPECIFICATION Spec
CONSTANTS
  Commands = {c1, c2}
  Attempts = {a1, a2}
  Bodies = {b1}
  Running = Running
  None = None
SYMMETRY Symmetry
INVARIANTS
  ReferencesResolve
  ExitTellsTheReport
