SPECIFICATION MCSpec
CONSTANTS
  x = x
  y = y
  Parts = {"http", "pages", "index"}
  Calls = {x, y}
  Lines <- MCLines
  Setups <- MCSetups
  MaxBurns = 1
  MaxUploads = 1
  PerIp = 1
  Global = 2
  RateWindow = 2
  MaxClock = 2
  Subjects = {x, y}
  MaxChanges = 3
  r1 = r1
  r2 = r2
  Runs = {r1, r2}
  PAGE = 2
  MAX_PAGES = 2
  Errored = {2, 6}
  InitialBurns = 5
  MaxSignatures = 7
  MaxBacklog = 4
  MaxFailures = 1
INVARIANTS
  RoutesAgree
  LimitsHonest
  CursorsSound
PROPERTIES
  AnswerFinal
  HeadAdvances
  Answered
  Settles
  EventuallyIndexed
CHECK_DEADLOCK FALSE
