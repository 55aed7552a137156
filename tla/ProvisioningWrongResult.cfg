\* Finding: a result taken for one's own.
SPECIFICATION Spec
CONSTANTS
  Drivers = {loop}
  Runs = {r1, r2, r3, r4}
  Procs = {p1, p2}
  None = None
  PromptStart = TRUE
  MaxFaults = 2
SYMMETRY Symmetry
INVARIANT OkMeansExecuted
