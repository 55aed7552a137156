\* Finding: two executes at once.
SPECIFICATION Spec
CONSTANTS
  Drivers = {loop, operator}
  Runs = {r1, r2, r3, r4}
  Procs = {p1, p2}
  None = None
  PromptStart = TRUE
  MaxFaults = 0
SYMMETRY Symmetry
INVARIANT AtMostOneExecute
