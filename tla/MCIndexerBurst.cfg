SPECIFICATION Spec
CONSTANTS
  r1 = r1
  r2 = r2
  Runs = {r1}
  PAGE = 2
  MAX_PAGES = 2
  Errored = {3}
  InitialBurns = 1
  MaxSignatures = 6
  MaxBacklog = 5
  MaxFailures = 0
INVARIANTS
  NoBurnSkipped
