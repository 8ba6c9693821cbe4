SPECIFICATION Spec
CONSTANTS
  r1 = r1
  r2 = r2
  r3 = r3
  Reqs = {r1, r2}
  VaultOf <- MCVaultOf
  IdOf <- MCIdOf
  MaxInflight = 2
  RetryLimit = 1
  Caps = 1
  Life = 2
  MinRemaining = 1
  Ttl = 3
  Ambiguous = FALSE
  MaxTime = 3
INVARIANTS
  DrainFinishes
CHECK_DEADLOCK FALSE
