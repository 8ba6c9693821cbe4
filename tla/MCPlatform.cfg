SPECIFICATION MCSpec
CONSTANTS
  a = a
  b = b
  c = c
  x = x
  y = y
  Parts = {"amounts", "build", "trip", "admission", "lookups", "send", "launch", "uploads", "discovery", "community", "edge", "demo", "wiring", "desk", "message", "route", "readpool", "resolving", "choice"}
  BPS_TOTAL = 10
  BPS = 10
  TOL = 1
  PLAUSIBLE_MAX = 5
  MIN_DEPTH = 10
  WORD = 32
  RENT_FLOOR = 3
  Inputs <- AllInputs
  Targets = {a, b, c}
  Natives = {}
  Requests <- MCRequests
  Markets <- MCMarkets
  Answers <- MCAnswers
  MaxAmount = 6
  MaxSlippage = 5
  FloorRate <- MCFloorRate
  Rungs = 2
  Retries = 1
  MinLeft = 1
  HashLife = 1
  RentMin = 2
  MaxMoves = 1
  Trips = {1, 2}
  Preparations <- MCPreparations
  Wires <- MCWires
  CallerPaid = FALSE
  Mints = {a, b}
  Worlds <- MCWorlds
  Configs <- MCConfigs
  Depths = {1, 4}
  Probe = 4
  Clients = {x, y}
  Keys = {a, b}
  CacheMax = 1
  MaxHops = 2
  LastValid = 3
  Vaults = {x, y}
  ThreeLegged = {y}
  Chunks = 2
  SavedMax = 1
  MaxPresses = 2
  Uploads = {x, y}
  Environments <- MCEnvironments
  Sources <- MCSources
  Texts = {1, 5}
  ImageCap = 3
  JsonCap = 46
  Funds = 60
  Askers = {x, y}
  Scenes <- MCScenes
  DepthFloor = 2
  MaxPulls = 1
  Works <- MCWorks
  Questions <- MCQuestions
  ROWS = 2
  BATCH = 2
  COMMUNITIES = 2
  Visitors = {x, y}
  Visits <- MCVisits
  Deployments <- MCDeployments
  UNITS = 6
  MAX_UNITS = 5
  MAX_CALLS = 2
  Costs <- MCCosts
  Patterns <- MCPatterns
  Bodies <- MCBodies
  MaxWindows = 1
  Callers = {x, y}
  Errands <- MCErrands
  Stale = {c}
  Details = {a}
  MaxAttempts = 2
  Backoffs = 1
  AddressBatches = 2
  Polls = 1
  SlowFetch = FALSE
  Balances = {0, 2}
  MaxLost = 1
  TRADE_STOP = 4
  GRADUATION = 6
  DEFAULT_BUY = 2
  Links <- MCLinks
  ICONS = 1
  Givens <- MCGivens
  Calls = {x, y}
  UNITS_LOW = 4
  UNITS_HIGH = 8
  TTL_LOW = 2
  RETRIES_HIGH = 5
  IMPACT_HIGH = 10
  PumpVenues = {"curve", "amm"}
  PoolVenues = {"clmm", "curve", "amm"}
  MaxLosses = 1
  Pins = {"vault", "other", "absent"}
  Pollers = {1, 2}
  MinPay = 1
  MaxAccrued = 2
  MaxClaims = 2
  DemoEnabled = TRUE
  MaxLegs = 3
  RouteSizes = {0, 1, 2, 256}
  DataSizes = {0, 2}
  Scans = {1, 2}
  Addresses = 3
  Width = 2
  Attempts = 2
  Opening = {2}
  Inquiries <- MCInquiries
  Tokens = {a, b, c}
  Platform = b
  Own = a
  PlatformBps = 1
  Withdrawable = {c}
  Verdicts <- MCVerdicts
  MaxChoices = 2
INVARIANTS
  UploadsHold
  
  CommunityHolds
  EdgeHolds
  DemoHolds
  WiringHolds
  AmountsHold
  FloorsHold
  BurnsBuiltRight
  TripsHold
  NeverStranded
  CopiesTellTruth
  PagesTrue
  VerdictFinal
  LaunchKept
PROPERTIES
  PreflightTruthful
  BuildEnds
  LaunchIsBurnable
CHECK_DEADLOCK FALSE
