\* One driver: crashes, lost sessions, reboots, slow runs, lease takeovers.
\* Every cycle ends and updates arrive.
SPECIFICATION FairSpec
CONSTANTS
  Drivers = {loop}
  Runs = {r1, r2, r3, r4}
  Procs = {p1, p2}
  None = None
  PromptStart = TRUE
  MaxFaults = 2
INVARIANTS
  TypeOK
  WorkerHoldsLease
PROPERTIES
  OnlyCompleteIsExecuted
  ReleasedOnEveryExit
  TakeoverKeepsLease
  CycleEnds
  UpdateApplied
