\* Finding: a unit that stays unavailable.
SPECIFICATION FairSpec
CONSTANTS
  Drivers = {loop}
  Runs = {r1, r2, r3, r4}
  Procs = {p1, p2}
  None = None
  PromptStart = TRUE
  MaxFaults = 1
PROPERTY AvailableAgain
