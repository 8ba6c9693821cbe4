----------------------------- MODULE MCPlatform -----------------------------
(* The service and the pages around the burn, for TLC.  The parts share no   *)
(* state, so a behaviour runs one of them and leaves the others as they are. *)
EXTENDS MCArithmetic, BurnBuild, MCBurnTrip, ConfigAdmission, Lookups, WalletSend, Launching, UploadPipeline, Discovery,
  CommunityReads, EdgeWorker, DemoService, ServiceWiring, VaultDesk, BurnMessage, RouteChecks, ReadPool, Resolving, VaultChoice

CONSTANTS
  a, b, c,   \* mints
  x, y,     \* clients, vaults
  Parts      \* the parts to run

VARIABLE part

-----------------------------------------------------------------------------
(* Burns being built *)

BurnOf(weights, targets, amount, table) ==
  [wellFormed |-> TRUE, amount |-> amount, weights |-> weights, targets |-> targets, table |-> table]

\* One to three legs, one of a coin on its curve, with and without a lookup table; an amount that leaves
\* dust, one with a leg of nothing, and a malformed request.
MCRequests ==
  {BurnOf(<<10>>, <<a>>, n, FALSE) : n \in {3, 4}}
    \cup {BurnOf(<<3, 7>>, <<a, b>>, 4, TRUE), BurnOf(<<3, 7>>, <<a, b>>, 3, FALSE),
          BurnOf(<<3, 3, 4>>, <<a, b, c>>, 4, TRUE), BurnOf(<<3, 7>>, <<a, a>>, 4, FALSE)}

Chain(sol, venue, table) ==
  [sol |-> sol, rent |-> 0, vault |-> TRUE, wsol |-> TRUE,
   mintOk |-> [t \in Targets |-> TRUE], ata |-> [t \in Targets |-> TRUE],
   venue |-> [t \in Targets |-> CASE t = a -> venue [] t = b -> "pool" [] t = c -> "curve"],
   rate |-> [t \in Targets |-> 1], cap |-> [t \in Targets |-> 4],
   ready |-> TRUE, table |-> table, height |-> 0, moves |-> 0]

MCMarkets ==
  {Chain(sol, "curve", "covers") : sol \in {4, 5, 6}}
    \cup {Chain(4, "pool", "partial"), Chain(4, "curve", "inactive"),
          [Chain(4, "curve", "covers") EXCEPT !.ready = FALSE],
          [Chain(5, "pool", "covers") EXCEPT !.rent = RentMin],
          [Chain(4, "pool", "covers") EXCEPT !.ata[b] = FALSE],
          [Chain(4, "pool", "covers") EXCEPT !.rate[b] = 0],
          [Chain(4, "pool", "covers") EXCEPT !.cap[b] = 2]}

Good ==
  [exactIn |-> TRUE, fee |-> FALSE, kind |-> "shared", pinned |-> PinnedSlots("route"),
   signers |-> {"vault"}, extra |-> "setupDone", out |-> 2, threshold |-> 2, slippageOk |-> TRUE,
   impactOk |-> TRUE, tables |-> "live", pump |-> FALSE]

\* Routes that are taken, with a threshold below the floor and through a Pump
\* venue, and one that is refused.
MCAnswers ==
  {Good, [Good EXCEPT !.pump = TRUE, !.threshold = 1],
   [Good EXCEPT !.kind = "route", !.pinned = PinnedSlots("shared")]}

MCFloorRate == [num |-> 1, den |-> 4]

-----------------------------------------------------------------------------
(* Launches *)

Plain ==
  [native |-> FALSE, pump |-> FALSE, program |-> "legacy", initialized |-> TRUE,
   mintAuth |-> FALSE, freezeAuth |-> FALSE, exts |-> {}, hookAuth |-> "none", hookSet |-> FALSE]

Hooked == [Plain EXCEPT !.program = "t22", !.exts = {"hook"}]

Kinds ==
  {Plain, [Plain EXCEPT !.native = TRUE], [Plain EXCEPT !.program = "foreign"],
   [Plain EXCEPT !.mintAuth = TRUE], [Plain EXCEPT !.freezeAuth = TRUE],
   [Plain EXCEPT !.program = "t22", !.exts = {"other"}],
   [Hooked EXCEPT !.pump = TRUE, !.hookAuth = "pump"], [Hooked EXCEPT !.hookAuth = "live"]}

MarketsOf(k, v, p) ==
  [mint |-> [m \in Mints |-> IF m = a THEN k ELSE Plain],
   curve |-> [m \in Mints |-> IF m = a THEN v ELSE "none"],
   pool |-> [m \in Mints |-> m = b \/ p]]

\* Any mint beside a plain one that has a pool and no curve; a plain one with and
\* without each.
MCWorlds ==
  {MarketsOf(k, "open", TRUE) : k \in Kinds}
    \cup {MarketsOf(k, v, p) : k \in {Plain, [Hooked EXCEPT !.hookAuth = "live"]}, v \in {"none", "open"}, p \in BOOLEAN}

Config(weights, targets, refs) == [launch |-> TRUE, weights |-> weights, targets |-> targets, refs |-> refs]

\* One leg and two, a duplicate target and weights that do not add up.
MCConfigs ==
  {Config(<<10>>, <<a>>, <<r>>) : r \in {"sentinel", "pool", "junk"}}
    \cup {Config(<<3, 7>>, <<a, b>>, <<"sentinel", "pool">>),
          Config(<<3, 7>>, <<a, a>>, <<"pool", "pool">>),
          Config(<<1, 1>>, <<a, b>>, <<"pool", "pool">>),
          [Config(<<10>>, <<a>>, <<"pool">>) EXCEPT !.launch = FALSE]}

-----------------------------------------------------------------------------
(* Uploads *)

Settings(key, worker, token, origins, irys) ==
  [key |-> key, worker |-> worker, token |-> token, origins |-> origins, irys |-> irys]

MCEnvironments ==
  {Settings(TRUE, "origin", "long", "explicit", TRUE), Settings(FALSE, "origin", "long", "explicit", TRUE),
   Settings(TRUE, "path", "long", "explicit", TRUE), Settings(TRUE, "origin", "long", "wildcard", TRUE)}

\* The first pass fits, only the last one does, none does, one throws.
MCSources == {<<2>>, <<9, 0, 2>>, <<9, 9, 9>>, <<9, -1, 2>>}

-----------------------------------------------------------------------------
(* Discoveries *)

Nothing == [status |-> "absent", amount |-> 0]
Holds(s, n) == [status |-> s, amount |-> n]

PoolOf(venue, sol, opened) ==
  [venue |-> venue, readable |-> TRUE, authentic |-> TRUE, sol |-> sol, token |-> 1, opened |-> opened,
   lpMint |-> TRUE, issued |-> 2, supply |-> 2, custody |-> [earn |-> Nothing, incinerator |-> Nothing]]

\* Half burned; half in custody, sound or not; nothing locked; dust beside.
Fungibles ==
  {[PoolOf("v4", 4, 0) EXCEPT !.supply = 1], PoolOf("v4", 6, 0),
   [PoolOf("v4", 6, 0) EXCEPT !.custody.incinerator = Holds("invalid", 1)],
   [PoolOf("v4", 6, 0) EXCEPT !.token = 0, !.supply = 1]}

Custodied ==
  {[PoolOf("cp", 6, 0) EXCEPT !.custody.earn = Holds("verified", 1)],
   [PoolOf("cp", 4, 0) EXCEPT !.custody.earn = Holds("verified", 1), !.authentic = FALSE],
   [PoolOf("cp", 4, 0) EXCEPT !.issued = 1]}

Positions == {PoolOf("clmm", 2, 0), PoolOf("clmm", 5, 1), PoolOf("clmm", 5, 9), [PoolOf("clmm", 5, 2) EXCEPT !.readable = FALSE]}

Scene(state, canonical, probe, pools) == [curve |-> state, canonical |-> canonical, probe |-> probe, pools |-> pools]

\* Every curve state with one set of markets, and every set of markets with a
\* graduate of the time before PumpSwap and without a curve.
MCScenes ==
  {Scene(v, k, FALSE, <<PoolOf("v4", 6, 0), PoolOf("clmm", 5, 1)>>) : v \in {"live", "graduated"}, k \in BOOLEAN}
    \cup {Scene("none", FALSE, FALSE, <<f, g, h, PoolOf("dlmm", 5, 2)>>) :
            f \in Fungibles, g \in Custodied, h \in Positions}
    \cup {Scene("graduated", FALSE, TRUE, <<f, g>>) : f \in Fungibles, g \in Custodied}
    \cup {Scene("none", FALSE, FALSE, <<f, PoolOf("damm", 4, 0), h>>) : f \in Fungibles, h \in Positions}

-----------------------------------------------------------------------------
(* Community pages *)

LegTo(t, bps, ref, account) == [mint |-> t, bps |-> bps, ref |-> ref, pool |-> account]
CallOfKind(k, total, legs) == [kind |-> k, launch |-> x, total |-> total, legs |-> legs]

OneLeg == CallOfKind("split", 5, <<LegTo(a, 10, "zero", "curve")>>)
TwoLegs == CallOfKind("split", 5, <<LegTo(a, 3, "zero", "curve"), LegTo(b, 7, "pool", "pool")>>)
Validated == [OneLeg EXCEPT !.kind = "validate"]
Wrapped == [TwoLegs EXCEPT !.kind = "wrapped"]

Transacted(sig, slot, calls) == [sig |-> sig, slot |-> slot, calls |-> calls, cut |-> 99]

\* Every sequence of up to three calls, its log whole or cut anywhere.
Singles ==
  {<<<<[Transacted(1, 1, s) EXCEPT !.cut = n]>>>> :
     s \in UNION {[1 .. k -> {OneLeg, TwoLegs, Validated, Wrapped}] : k \in 1 .. 3}, n \in {3, 6, 10, 14, 99}}

\* Three transactions, two of them of one slot and vault, in one run or in
\* several, the oldest first or as a backfill.
MCWorks ==
  LET old == Transacted(1, 1, <<TwoLegs>>)
      mid == Transacted(2, 2, <<TwoLegs, OneLeg>>)
      new == Transacted(3, 2, <<TwoLegs, Wrapped>>)
  IN  Singles \cup {<<<<new, mid, old>>>>, <<<<mid>>, <<new, old>>>>, <<<<old>>, <<mid>>, <<new>>>>}

MCQuestions ==
  {[kind |-> "board", of |-> x], [kind |-> "launch", of |-> x], [kind |-> "vault", of |-> VaultOf(TwoLegs)]}

-----------------------------------------------------------------------------
(* The edge *)

Visit(path, method, origin, calls) ==
  [host |-> "cooked", path |-> path, method |-> method, origin |-> origin, site |-> "same-origin",
   large |-> FALSE, calls |-> calls]

BoundedScanOf(keys) == [venue |-> TRUE, sliced |-> FALSE, sizes |-> 1, keys |-> keys]
Read == [method |-> "getSlot", scan |-> BoundedScanOf(1)]
Scan == [method |-> "getProgramAccounts", scan |-> BoundedScanOf(1)]

\* Calls of several costs and sizes, alone and in batches, each reason to
\* refuse one, and the other paths.
MCVisits ==
  {Visit("rpc", "POST", "self", s) :
     s \in {<<Read>>, <<Scan>>, <<Read, Scan>>, <<Scan, Scan>>, <<Read, Read, Read>>, <<>>,
            <<Read, [Read EXCEPT !.method = "requestAirdrop"]>>,
            <<[Scan EXCEPT !.scan = BoundedScanOf(0)]>>}}
    \cup {Visit("rpc", "POST", "none", <<Read>>),
          [Visit("rpc", "POST", "localhost", <<Read>>) EXCEPT !.large = TRUE],
          [Visit("asset", "GET", "none", <<>>) EXCEPT !.host = "www"],
          Visit("api", "GET", "none", <<>>), Visit("api", "PUT", "self", <<>>), Visit("community", "GET", "none", <<>>)}

MCDeployments ==
  {[limiter |-> TRUE, rpc |-> TRUE, service |-> TRUE], [limiter |-> FALSE, rpc |-> TRUE, service |-> TRUE],
   [limiter |-> TRUE, rpc |-> FALSE, service |-> FALSE]}

MCCosts == [m \in {"getSlot", "getProgramAccounts"} |-> IF m = "getSlot" THEN 1 ELSE 3]

\* A key, the endpoint around it, and a form of it that holds no shorter one;
\* bodies that repeat, overlap and break off each.
MCPatterns == {<<1, 2>>, <<3, 1, 2, 4>>, <<1, 3, 2>>}

MCBodies ==
  {<<1, 1, 2, 1, 2>>, <<3, 1, 2, 4>>, <<1, 1, 3, 2, 1>>, <<>>}

-----------------------------------------------------------------------------
(* The demo service *)

SentTo(e, f) == [u \in Callers |-> IF u = x THEN e ELSE f]

\* Two burns of one vault, one with curve legs, two setups of an empty vault; trades with the default
\* buy and with two, beside a migration; icons.
MCErrands ==
  {SentTo("burn", "burn"), SentTo("curve", "curve"), SentTo("curve", "trade"), SentTo("trade", "migrate"), SentTo("trade", "trade"),
   SentTo("trades", "migrate"), SentTo(a, a), SentTo(a, b), SentTo(a, c)}

Hop(safe, kindOf) == [safe |-> safe, kind |-> kindOf]

MCLinks ==
  (a :> <<Hop(TRUE, "redirect"), Hop(TRUE, "image")>>) @@ (b :> <<Hop(TRUE, "redirect"), Hop(FALSE, "image")>>) @@ (c :> <<>>)

-----------------------------------------------------------------------------
(* Resolutions *)

\* A coin before and after its graduation, whose curve was never there or has
\* only been sent SOL, beside a Raydium pool in each state.
Coin(state, canonical) == [curve |-> state, canonical |-> canonical, mint |-> TRUE, config |-> TRUE, pool |-> "live"]

Graduations ==
  {Coin(v, FALSE) : v \in {"none", "dust", "live", "complete"}} \cup {Coin("complete", TRUE)}

Blemished(k) == {k} \cup {[k EXCEPT !.mint = FALSE], [k EXCEPT !.config = FALSE]} \cup {[k EXCEPT !.pool = v] : v \in PoolStates}

MCInquiries == {[given |-> g, chain |-> k] : g \in GivenReferences, k \in UNION {Blemished(d) : d \in Graduations}}

-----------------------------------------------------------------------------
(* Choices of a token *)

MarketAt(account, place, isDeep) ==
  [account |-> account, held |-> place, deep |-> isDeep, rejected |-> FALSE, built |-> TRUE,
   seed |-> IF account \in PumpAccounts THEN "zero" ELSE "address"]

\* A Pump market, burned and withdrawable liquidity, a position pool, one below
\* the floor, and one that was rejected before it was authenticated.
MCVerdicts ==
  {MarketAt("canonical", "protocol", TRUE), MarketAt("v4", "burned", TRUE), MarketAt("v4", "notLocked", TRUE),
   MarketAt("position", "unverified", TRUE), MarketAt("v4", "custody", FALSE),
   [MarketAt("position", "unverified", TRUE) EXCEPT !.rejected = TRUE, !.built = FALSE]}

-----------------------------------------------------------------------------
(* Deployments of the service *)

Given ==
  [host |-> "node", mode |-> "production", rpc |-> "https", keypair |-> TRUE, dexes |-> {}, origins |-> "exact",
   uploads |-> TRUE, bindings |-> TRUE, amount |-> 5, slippage |-> 3, impact |-> 3, units |-> Unset,
   heights |-> Unset, ttl |-> Unset, retries |-> Unset, body |-> Unset, deadline |-> Unset]

Forked == [Given EXCEPT !.mode = "fork-e2e", !.rpc = None, !.amount = Unset, !.slippage = Unset, !.impact = Unset]
Isolated == [Given EXCEPT !.host = "isolate"]

\* What a deployment can get wrong, one thing at a time, at the bounds of the
\* policy and beyond.
Slips(e) ==
  {e} \cup {[e EXCEPT !.rpc = v] : v \in {"http", "https", "local", None}}
    \cup {[e EXCEPT !.origins = v] : v \in {"path", "wildcard", None}}
    \cup {[e EXCEPT !.uploads = FALSE], [e EXCEPT !.bindings = FALSE], [e EXCEPT !.keypair = FALSE]}
    \cup {[e EXCEPT !.amount = v] : v \in {Unset, Junk, 0}}
    \cup {[e EXCEPT !.slippage = v] : v \in {Unset, Junk, 0, 9, 10}}
    \cup {[e EXCEPT !.impact = v] : v \in {Unset, 0, 10, 11}}
    \cup {[e EXCEPT !.units = v] : v \in {Junk, 4, 5, 8, 9}}
    \cup {[e EXCEPT !.ttl = v] : v \in {Junk, 1, 2}}
    \cup {[e EXCEPT !.retries = v] : v \in {Junk, 0, 5, 6}}
    \cup {[e EXCEPT !.heights = 0], [e EXCEPT !.body = 7], [e EXCEPT !.deadline = Junk]}

MCGivens ==
  Slips(Given) \cup Slips(Forked) \cup Slips(Isolated)
    \cup {[Given EXCEPT !.mode = None], [Forked EXCEPT !.dexes = {"curve"}], [Forked EXCEPT !.dexes = {"curve", "clmm"}]}

-----------------------------------------------------------------------------

allVars == <<part, input, buildVars, tripVars, vars, lookupVars, sendVars, launchVars, pipelineVars, discoveryVars, readsVars, edgeVars, demoVars, wiringVars, deskVars,
  messageVars, route, poolVars, resolvingVars, choiceVars>>

Rest == "at rest"

\* Only what a property reads of every part is in order where the part rests.
MCInit ==
  /\ part \in Parts
  /\ IF part = "amounts" THEN InputInit ELSE input = Rest
  /\ IF part = "build" THEN BuildInit ELSE market = Rest /\ build = Start
  /\ IF part = "trip" THEN TripInit ELSE trip = Rest /\ busy = Rest /\ relayed = Rest
  /\ IF part = "admission" THEN Init
     ELSE /\ config = CHOOSE k \in Configs : TRUE
          /\ mint = [m \in Mints |-> Plain] /\ curve = [m \in Mints |-> "none"]
          /\ pool = [m \in Mints |-> TRUE] /\ ata = [m \in Mints |-> "absent"] /\ wsol = FALSE
          /\ depth = [m \in Mints |-> CHOOSE d \in Depths : TRUE]
          /\ plan = [i \in Legs |-> "pool"] /\ stage = "none"
  /\ IF part = "lookups" THEN LookupInit ELSE kind = Rest /\ upstream = Rest /\ kept = Rest /\ work = Rest
  /\ SendInit
  /\ IF part = "launch" THEN TRUE
     ELSE page = [fresh |-> TRUE, presses |-> 0, image |-> TRUE, uri |-> FALSE] /\ form = [vault |-> x, done |-> FALSE]
  /\ LaunchInit
  /\ IF part = "uploads" THEN PipelineInit ELSE pipeline = Rest /\ balance = Rest /\ upload = Rest /\ mirror = Rest
  /\ IF part = "discovery" THEN DiscoveryInit
     ELSE scene = Rest /\ pulls = Rest /\ scan = Rest /\ memo = Rest /\ asker = Rest
  /\ IF part = "community" THEN ReadsInit ELSE runs = Rest /\ inserts = Rest /\ burn_legs = Rest /\ reader = Rest
  /\ IF part = "edge" THEN EdgeInit
     ELSE deployment = Rest /\ left = Rest /\ windows = Rest /\ visit = Rest /\ relay = Rest
  /\ IF part = "demo" THEN DemoInit /\ (fork.vault = 0 <=> errand = SentTo("curve", "curve"))
     ELSE errand = Rest /\ request = Rest /\ wired = Rest /\ fork = Rest
  /\ IF part = "wiring" THEN WiringInit ELSE given = Rest /\ proc = Rest /\ iso = Rest /\ call = Rest
  /\ IF part = "desk" THEN DeskInit ELSE coin = Rest /\ poll = Rest /\ claim = Rest /\ desk = Rest
  /\ IF part = "message" THEN MessageInit ELSE draft = Rest /\ held = Rest /\ message = Rest
  /\ IF part = "route" THEN RouteInit ELSE route = Rest
  /\ IF part = "readpool" THEN PoolInit ELSE there = Rest /\ reads = Rest /\ hand = Rest
  /\ IF part = "resolving" THEN ResolvingInit ELSE accounts = Rest /\ began = Rest /\ resolve = Rest
  /\ IF part = "choice" THEN ChoiceInit
     ELSE chooser = Rest /\ markets = Rest /\ session = Rest /\ passed = Rest /\ frozen = Rest /\ link = Rest

\* One part runs and all others rest.
At(p) ==
  /\ part = p /\ part' = p
  /\ IF p = "amounts" THEN TRUE ELSE UNCHANGED input
  /\ IF p = "build" THEN TRUE ELSE UNCHANGED buildVars
  /\ IF p = "trip" THEN TRUE ELSE UNCHANGED tripVars
  /\ IF p = "admission" THEN TRUE ELSE UNCHANGED vars
  /\ IF p = "lookups" THEN TRUE ELSE UNCHANGED lookupVars
  /\ IF p = "send" THEN TRUE ELSE UNCHANGED sendVars
  /\ IF p = "launch" THEN TRUE ELSE UNCHANGED launchVars
  /\ IF p = "uploads" THEN TRUE ELSE UNCHANGED pipelineVars
  /\ IF p = "discovery" THEN TRUE ELSE UNCHANGED discoveryVars
  /\ IF p = "community" THEN TRUE ELSE UNCHANGED readsVars
  /\ IF p = "edge" THEN TRUE ELSE UNCHANGED edgeVars
  /\ IF p = "demo" THEN TRUE ELSE UNCHANGED demoVars
  /\ IF p = "wiring" THEN TRUE ELSE UNCHANGED wiringVars
  /\ IF p = "desk" THEN TRUE ELSE UNCHANGED deskVars
  /\ IF p = "message" THEN TRUE ELSE UNCHANGED messageVars
  /\ IF p = "route" THEN TRUE ELSE UNCHANGED route
  /\ IF p = "readpool" THEN TRUE ELSE UNCHANGED poolVars
  /\ IF p = "resolving" THEN TRUE ELSE UNCHANGED resolvingVars
  /\ IF p = "choice" THEN TRUE ELSE UNCHANGED choiceVars

MCNext ==
  \/ At("amounts") /\ NextInput
  \/ At("build") /\ BuildNext
  \/ At("trip") /\ TripNext
  \/ At("admission") /\ Next
  \/ At("lookups") /\ LookupNext
  \/ At("send") /\ SendNext
  \/ At("launch") /\ LaunchNext
  \/ At("uploads") /\ PipelineNext
  \/ At("discovery") /\ DiscoveryNext
  \/ At("community") /\ ReadsNext
  \/ At("edge") /\ EdgeNext
  \/ At("demo") /\ DemoNext
  \/ At("wiring") /\ WiringNext
  \/ At("desk") /\ DeskNext
  \/ At("message") /\ MessageNext
  \/ At("route") /\ RouteNext
  \/ At("readpool") /\ PoolNext
  \/ At("resolving") /\ ResolvingNext
  \/ At("choice") /\ ChoiceNext

MCSpec == MCInit /\ [][MCNext]_allVars

-----------------------------------------------------------------------------

\* A property is asked where its part runs; elsewhere the part's variables are
\* as they were at the start.
In(p, Property) == part = p => Property

\* VaultAmounts and KeylessFloor: the leg inputs and the price floor.
AmountsHold == In("amounts", AmountsFair)
FloorsHold  == In("amounts", FloorsSound)

\* What the service builds is what it says (BurnBuild), its message is what the
\* program reads and admits (BurnMessage), and so are its routes (RouteChecks).
BurnsBuiltRight == In("build", BuildSound) /\ In("message", MessageSound) /\ In("route", RouteSound)

\* A prepared burn on its way through wallet and relay (BurnTrip).
TripsHold == In("trip", TripSound)

\* Uploads (UploadPipeline).
UploadsHold == In("uploads", UploadsSound)

\* What a discovery or a resolution answers is evidence (Discovery, Resolving),
\* and so are the rows it is made of (ReadPool).
ReferencesTrue == In("discovery", DiscoverySound) /\ In("resolving", ResolvingSound) /\ In("readpool", PoolSound)

\* The community's figures, the edge, the demo service and the wiring.
CommunityHolds == In("community", CommunitySound)
EdgeHolds      == In("edge", EdgeSound)
DemoHolds      == In("demo", DemoSound)
WiringHolds    == In("wiring", WiringSound)

\* What the pages show is true: a miss of a source that the page asks itself is
\* one it was told of (Lookups), a vault is the one that was chosen (VaultChoice), and a claim pays
\* the vault what it was offered for (VaultDesk).
PagesTrue == In("lookups", LookupsSound) /\ In("desk", DeskSound) /\ In("choice", ChoiceSound)

=============================================================================
