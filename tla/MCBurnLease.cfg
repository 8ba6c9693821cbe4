SPECIFICATION Spec
CONSTANTS
  r1 = r1
  r2 = r2
  r3 = r3
  Reqs = {r1, r2, r3}
  VaultOf <- MCVaultOf
  IdOf <- MCIdOf
  MaxInflight = 3
  RetryLimit = 1
  Caps = 1
  Life = 1
  MinRemaining = 1
  Ttl = 2
  Ambiguous = FALSE
  MaxTime = 2
SYMMETRY SameId
INVARIANTS
  OneOutstanding
  SubmittedOnce
  LeasesSound
CHECK_DEADLOCK FALSE
