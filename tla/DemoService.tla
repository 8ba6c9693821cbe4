----------------------------- MODULE DemoService -----------------------------
(***************************************************************************)
(* The keyless demo service (scripts/demo-burn-service.ts): executeBurn    *)
(* with its setup of curve legs and its loop of attempts around            *)
(* QuoteService.execute, the Jupiter client all burns share, the trades    *)
(* and the migration of a test coin, and the icons it serves.  Every       *)
(* caller sends one request; requests interleave at every await.  All      *)
(* burns are of one vault.  What Jupiter, a simulation and the fork's RPC  *)
(* answer is the environment's choice.                                     *)
(***************************************************************************)
EXTENDS Integers, Sequences, FiniteSets

CONSTANTS
  Callers,
  Errands,       \* what the callers may be wired to do together
  Balances,      \* burns the vault can pay for
  Stale,         \* concentrated venues whose state is frozen on the fork
  Details,       \* other failures of a route
  MaxAttempts,   \* MAX_BURN_ATTEMPTS
  Backoffs,      \* retries on 429 in ForkJupiter
  AddressBatches,       \* batches of addresses of a lookup table
  Polls,         \* questions for an active table
  MaxLost,       \* bound: burns that lose the answer to a submission
  SlowFetch,     \* whether a lease may end while its burn is being confirmed
  TRADE_STOP,    \* TRADE_SAFETY_STOP_LAMPORTS
  GRADUATION,    \* GRADUATION_SOL_LAMPORTS
  DEFAULT_BUY,   \* DEMO_TRADE_LAMPORTS
  Links,         \* icon links of each coin, hop by hop
  ICONS          \* IMAGE_CACHE_MAX

NoOne == "nobody"
Nil == "nil"

ASSUME DemoConstants ==
  /\ {MaxAttempts, ICONS} \subseteq Nat \ {0} /\ Balances \subseteq Nat
  /\ {Backoffs, Polls, MaxLost, AddressBatches} \subseteq Nat
  /\ {TRADE_STOP, GRADUATION} \subseteq Nat /\ DEFAULT_BUY \in 1 .. GRADUATION - TRADE_STOP /\ SlowFetch \in BOOLEAN
  /\ NoOne \notin Callers /\ Stale \cap (Details \cup {Nil}) = {}
  /\ \A coin \in DOMAIN Links : Links[coin] \in Seq([safe : BOOLEAN, kind : {"redirect", "image", "other"}])

VARIABLES
  errand,   \* what each caller asks for
  request,  \* the request of each caller
  wired,     \* the state of each attempt's transaction
  fork      \* what the service keeps and the fork holds

demoVars == <<errand, request, wired, fork>>

DemoInit ==
  /\ errand \in Errands
  /\ request = [u \in Callers |->
       [step |-> "new", attempt |-> 1, last |-> Nil, route |-> Nil, waits |-> 0, table |-> 0, missing |-> {},
        todo |-> <<>>, answer |-> Nil, lost |-> FALSE, disturbed |-> FALSE]]
  /\ wired = [u \in Callers |-> [n \in 1 .. MaxAttempts |-> "none"]]
  /\ fork \in [lease : {NoOne}, vault : Balances, excluded : {{}}, queue : {<<>>}, acc : {FALSE}, bcv : {"none"},
               tables : {<<>>}, remembered : {0}, raised : {TRADE_STOP - 1}, complete : {FALSE}, pool : {FALSE},
               icons : {<<>>}]

Stands(u, s) == request[u].step = s
Step(u, s) == request' = [request EXCEPT ![u].step = s]

\* The locals of a handler end with its answer.
Reply(u, a) ==
  request' = [request EXCEPT ![u] = [@ EXCEPT !.step = "answered", !.answer = a, !.route = Nil, !.waits = 0,
                                              !.table = 0, !.missing = {}, !.todo = <<>>]]

\* An error that leaves the handler is answered with 500.
Escapes(u) == Reply(u, "error")

-----------------------------------------------------------------------------
(* Setup of the curve legs *)

\* A burn starts: exclusions of venues are those of the current burn.
StartBurn(u) ==
  /\ Stands(u, "new") /\ errand[u] \in {"burn", "curve"}
  /\ request' = [w \in Callers |->
       IF w = u THEN [request[u] EXCEPT !.step = IF errand[u] = "curve" THEN "accumulator" ELSE "acquire"]
       ELSE [request[w] EXCEPT !.disturbed = @ \/ request[w].step # "new"]]
  /\ fork' = [fork EXCEPT !.excluded = {}]
  /\ UNCHANGED <<errand, wired>>

\* A reference does not resolve: the pipeline will say why.
Unresolved(u) ==
  /\ Stands(u, "accumulator")
  /\ Step(u, "acquire")
  /\ UNCHANGED <<errand, wired, fork>>

\* The vault's accumulator, looked at and then created; creating it again is
\* an error of the program.
SeeAccumulator(u) ==
  /\ Stands(u, "accumulator")
  /\ Step(u, IF fork.acc THEN "bcv" ELSE "init")
  /\ UNCHANGED <<errand, wired, fork>>

InitAccumulator(u) ==
  /\ Stands(u, "init")
  /\ IF fork.acc THEN Escapes(u) /\ UNCHANGED fork
     ELSE Step(u, "bcv") /\ fork' = [fork EXCEPT !.acc = TRUE]
  /\ UNCHANGED <<errand, wired>>

SeeCurveV2(u) ==
  /\ Stands(u, "bcv")
  /\ Step(u, IF fork.bcv = "live" THEN "table" ELSE IF fork.bcv = "rent" THEN "warm" ELSE "fund")
  /\ UNCHANGED <<errand, wired, fork>>

FundCurveV2(u) ==
  /\ Stands(u, "fund")
  /\ Step(u, "warm")
  /\ fork' = [fork EXCEPT !.bcv = IF @ = "none" THEN "rent" ELSE @]
  /\ UNCHANGED <<errand, wired>>

\* The warm buy may fail; the rent is there.
Warm(u, ok) ==
  /\ Stands(u, "warm")
  /\ Step(u, "table")
  /\ fork' = [fork EXCEPT !.bcv = IF ok THEN "live" ELSE @]
  /\ UNCHANGED <<errand, wired>>

-----------------------------------------------------------------------------
(* The vault's lookup table *)

FaultyMissing(t) == IF fork.tables[t] = {} THEN 1 .. AddressBatches ELSE {}

Missing(t) == (1 .. AddressBatches) \ fork.tables[t]

Uses(u, t, missing) ==
  request' = [request EXCEPT ![u].table = t, ![u].missing = missing, ![u].waits = 0,
                             ![u].step = IF missing = {} THEN "acquire" ELSE "extend"]

\* The remembered table, or one of the vault's own.
SeeTable(u) ==
  /\ Stands(u, "table")
  /\ IF fork.remembered # 0 THEN Uses(u, fork.remembered, Missing(fork.remembered)) ELSE Step(u, "create")
  /\ UNCHANGED <<errand, wired, fork>>

CreateTable(u) ==
  /\ Stands(u, "create")
  /\ Uses(u, Len(fork.tables) + 1, 1 .. AddressBatches)
  /\ fork' = [fork EXCEPT !.tables = Append(@, {}), !.remembered = Len(fork.tables) + 1]
  /\ UNCHANGED <<errand, wired>>

ExtendTable(u) ==
  /\ Stands(u, "extend")
  /\ \E k \in request[u].missing :
       /\ \A j \in request[u].missing : k <= j
       /\ fork' = [fork EXCEPT !.tables[request[u].table] = @ \cup {k}]
       /\ request' = [request EXCEPT ![u].missing = @ \ {k},
                                     ![u].step = IF request[u].missing = {k} THEN "activate" ELSE "extend"]
  /\ UNCHANGED <<errand, wired>>

\* The table is active a slot later; after the last question the burn goes on
\* and the pipeline decides.
Activate(u, active) ==
  /\ Stands(u, "activate")
  /\ IF active \/ request[u].waits = Polls THEN Step(u, "acquire")
     ELSE request' = [request EXCEPT ![u].waits = @ + 1]
  /\ UNCHANGED <<errand, wired, fork>>

\* A transaction of the setup, or a read, fails.
SetupFails(u) ==
  /\ request[u].step \in {"accumulator", "init", "bcv", "fund", "table", "create", "extend", "activate"}
  /\ Escapes(u)
  /\ UNCHANGED <<errand, wired, fork>>

-----------------------------------------------------------------------------
(* Attempts *)

More(u) == request[u].attempt < MaxAttempts

\* The next turn of the loop, remembering the last failure outside.
NextAttempt(u, last) ==
  request' = [request EXCEPT ![u].step = "acquire", ![u].attempt = @ + 1, ![u].last = last, ![u].route = Nil]

\* A lease is given back by its holder only.
Freed(u) == [fork EXCEPT !.lease = IF @ = u THEN NoOne ELSE @]

\* service.execute up to the first quote: the lease, then the vault.
AcquireVault(u) ==
  /\ Stands(u, "acquire")
  /\ IF fork.lease # NoOne THEN Reply(u, "busy") /\ UNCHANGED fork
     ELSE IF fork.vault = 0 THEN Reply(u, "refused") /\ UNCHANGED fork
     ELSE IF request[u].table # 0 THEN Step(u, "simulate") /\ fork' = [fork EXCEPT !.lease = u]
     ELSE /\ request' = [request EXCEPT ![u].step = "quote", ![u].waits = 0]
          /\ fork' = [fork EXCEPT !.lease = u, !.queue = Append(@, u)]
  /\ UNCHANGED <<errand, wired>>

\* ForkJupiter: one call at a time, and a 429 is asked again a few times.  The
\* venues excluded when the call's turn comes are left out of the route.
Quoted(u, venue) ==
  /\ Stands(u, "quote") /\ Head(fork.queue) = u
  /\ venue \in (Stale \cup {"safe"}) \ fork.excluded
  /\ request' = [request EXCEPT ![u].step = "simulate", ![u].route = venue]
  /\ fork' = [fork EXCEPT !.queue = Tail(@)]
  /\ UNCHANGED <<errand, wired>>

BacksOff(u) ==
  /\ Stands(u, "quote") /\ Head(fork.queue) = u /\ request[u].waits < Backoffs
  /\ request' = [request EXCEPT ![u].waits = @ + 1]
  /\ UNCHANGED <<errand, wired, fork>>

\* An error that is no verdict of the service's: without a frame of the
\* program's it is somebody else's, and a fresh route may help.
Attributed(u, burner) ==
  IF ~burner /\ More(u) THEN NextAttempt(u, request[u].last) ELSE Reply(u, "preflight")

\* No route, or the last 429: a coin of this fork only will never have one.
NoRoute(u, forkOnly) ==
  /\ Stands(u, "quote") /\ Head(fork.queue) = u
  /\ IF forkOnly THEN Reply(u, "forkOnly") ELSE Attributed(u, FALSE)
  /\ fork' = [Freed(u) EXCEPT !.queue = Tail(@)]
  /\ UNCHANGED <<errand, wired>>

\* excludeStaleTickVenue
Reroutable(e) == e \in Stale \ fork.excluded

\* EXTERNAL_SIMULATION_FAILURE: exclude a venue that is not excluded, else
\* give up on a failure seen before, else quote again.
External(u, e) ==
  /\ Stands(u, "simulate")
  /\ IF request[u].route \in Stale THEN e = request[u].route ELSE e \in Details
  /\ fork' = [Freed(u) EXCEPT !.excluded = IF Reroutable(e) THEN @ \cup {e} ELSE @]
  /\ IF Reroutable(e) /\ More(u) THEN NextAttempt(u, e)
     ELSE IF request[u].last = e THEN Reply(u, "deterministic")
     ELSE IF More(u) THEN NextAttempt(u, e)
     ELSE Reply(u, "external")
  /\ UNCHANGED <<errand, wired>>

\* 6021 and 6018, attributed to the program, are quoted again.
Weather(u) ==
  /\ Stands(u, "simulate") /\ request[u].route \notin Stale
  /\ fork' = Freed(u)
  /\ IF More(u) THEN NextAttempt(u, request[u].last) ELSE Reply(u, "burner")
  /\ UNCHANGED <<errand, wired>>

\* Any other verdict of the service.
PolicyRefuses(u) ==
  /\ Stands(u, "simulate")
  /\ fork' = Freed(u)
  /\ Reply(u, "refused")
  /\ UNCHANGED <<errand, wired>>

PassesSimulation(u) ==
  /\ Stands(u, "simulate") /\ request[u].route \notin Stale
  /\ Step(u, "submit")
  /\ UNCHANGED <<errand, wired, fork>>

-----------------------------------------------------------------------------
(* Submission and settlement *)

Mark(u, state) == wired' = [wired EXCEPT ![u][request[u].attempt] = state]

\* The RPC takes the transaction; the lease is kept.
SubmitBurn(u) ==
  /\ Stands(u, "submit")
  /\ Mark(u, "flying") /\ Step(u, "confirm")
  /\ UNCHANGED <<errand, fork>>

\* Its preflight refuses it.
PreflightRefuses(u, burner) ==
  /\ Stands(u, "submit")
  /\ fork' = Freed(u) /\ Attributed(u, burner)
  /\ UNCHANGED <<errand, wired>>

\* The connection breaks, before or after the RPC took the transaction.
SubmitLost(u, taken) ==
  /\ Stands(u, "submit") /\ Cardinality({w \in Callers : request[w].lost} \ {u}) < MaxLost
  /\ fork' = Freed(u)
  /\ IF taken THEN Mark(u, "flying") ELSE UNCHANGED wired
  /\ LET lost == [request EXCEPT ![u].lost = TRUE, ![u].route = Nil] IN
     request' = IF More(u) THEN [lost EXCEPT ![u].step = "acquire", ![u].attempt = @ + 1]
                ELSE [lost EXCEPT ![u].step = "answered", ![u].answer = "preflight", ![u].table = 0]
  /\ UNCHANGED errand

\* The fork executes a transaction, or its blockhash dies.
Executes(u, n, how) ==
  /\ wired[u][n] = "flying" /\ how \in {"landed", "failed", "expired"}
  /\ how = "landed" => fork.vault > 0
  /\ wired' = [wired EXCEPT ![u][n] = how]
  /\ fork' = [fork EXCEPT !.vault = IF how = "landed" THEN @ - 1 ELSE @]
  /\ UNCHANGED <<errand, request>>

Fate(u) == wired[u][request[u].attempt]

\* confirmTransaction ends; an expired blockhash is an error.
Confirmed(u) ==
  /\ Stands(u, "confirm") /\ Fate(u) # "flying"
  /\ IF Fate(u) = "expired" THEN Escapes(u) ELSE Step(u, "fetch")
  /\ UNCHANGED <<errand, wired, fork>>

\* The transaction is fetched and then the lease is settled, whatever it did.
SettleLease(u) ==
  /\ Stands(u, "fetch")
  /\ fork' = [fork EXCEPT !.lease = NoOne]
  /\ IF Fate(u) = "failed" THEN Reply(u, "landedFailed") ELSE Step(u, "balance")
  /\ UNCHANGED <<errand, wired>>

Burned(u) ==
  /\ Stands(u, "balance")
  /\ Reply(u, "burned")
  /\ UNCHANGED <<errand, wired, fork>>

\* The RPC fails while the burn is being watched.
WatchFails(u) ==
  /\ request[u].step \in {"confirm", "fetch", "balance"}
  /\ Escapes(u)
  /\ UNCHANGED <<errand, wired, fork>>

\* The timer of a submitted burn's lease: it is longer than a blockhash lives.
LeaseEnds(u) ==
  /\ fork.lease = u /\ "flying" \notin {wired[u][n] : n \in 1 .. MaxAttempts}
  /\ request[u].step \in {"answered"} \cup (IF SlowFetch THEN {"confirm", "fetch"} ELSE {})
  /\ fork' = Freed(u)
  /\ UNCHANGED <<errand, request, wired>>

-----------------------------------------------------------------------------
(* A test coin *)

\* readCurveState: progress is the raised amount over the threshold.
CurveView == [complete |-> fork.complete, near |-> fork.raised >= TRADE_STOP, pool |-> fork.pool]

\* demoTrade: a graduated coin and one near graduation are left alone.
StartTrade(u, amounts) ==
  /\ Stands(u, "new") /\ errand[u] \in {"trade", "trades"}
  /\ amounts = (IF errand[u] = "trade" THEN <<DEFAULT_BUY>> ELSE <<DEFAULT_BUY, DEFAULT_BUY>>)
  /\ IF CurveView.complete THEN Reply(u, "graduated")
     ELSE IF CurveView.near THEN Reply(u, "near")
     ELSE request' = [request EXCEPT ![u].step = "buy", ![u].todo = amounts]
  /\ UNCHANGED <<errand, wired, fork>>

\* One buy after the other; a complete curve takes none.
Buy(u) ==
  /\ Stands(u, "buy")
  /\ IF fork.complete THEN Escapes(u) /\ UNCHANGED fork
     ELSE LET raised == fork.raised + Head(request[u].todo) IN
          /\ fork' = [fork EXCEPT !.raised = raised, !.complete = raised >= GRADUATION]
          /\ request' = [request EXCEPT ![u].todo = Tail(@),
                            ![u].step = IF Len(request[u].todo) = 1 THEN "answered" ELSE "buy",
                            ![u].answer = IF Len(request[u].todo) = 1 THEN "bought" ELSE Nil]
  /\ UNCHANGED <<errand, wired>>

\* demoMigrate
StartMigration(u) ==
  /\ Stands(u, "new") /\ errand[u] = "migrate"
  /\ IF ~CurveView.complete THEN Escapes(u)
     ELSE IF CurveView.pool THEN Reply(u, "existed") ELSE Step(u, "migrate")
  /\ UNCHANGED <<errand, wired, fork>>

RunMigration(u) ==
  /\ Stands(u, "migrate")
  /\ IF fork.pool THEN Escapes(u) /\ UNCHANGED fork
     ELSE Reply(u, "migrated") /\ fork' = [fork EXCEPT !.pool = TRUE]
  /\ UNCHANGED <<errand, wired>>

-----------------------------------------------------------------------------
(* Icons *)

Coins == DOMAIN Links
HOPS == 3

\* tokenInfo: Jupiter knows the coin and reports an icon.
Known(coin) == Links[coin] # <<>>

\* tokenImageBytes: the first hop that does not redirect must be an image, and
\* every hop up to it a secure link to a public host.
IconOf(coin) ==
  \E k \in 1 .. Len(Links[coin]) :
    /\ k <= HOPS /\ Links[coin][k].kind = "image"
    /\ \A j \in 1 .. k : Links[coin][j].safe /\ (j < k => Links[coin][j].kind = "redirect")

Remembered(coin) == {i \in DOMAIN fork.icons : fork.icons[i].coin = coin}

AskIcon(u) ==
  /\ Stands(u, "new") /\ errand[u] \in Coins
  /\ IF Remembered(errand[u]) # {} THEN Reply(u, "cached") ELSE Step(u, "icon")
  /\ UNCHANGED <<errand, wired, fork>>

\* What was found, or that nothing was, goes into the cache, which drops its
\* oldest entry when it is full.
FetchIcon(u, fails) ==
  /\ Stands(u, "icon")
  /\ LET entry == [coin |-> errand[u], icon |-> ~fails /\ Known(errand[u]) /\ IconOf(errand[u])]
         icons == IF Len(fork.icons) >= ICONS THEN Tail(fork.icons) ELSE fork.icons
         same == {i \in DOMAIN icons : icons[i].coin = errand[u]}
     IN  fork' = [fork EXCEPT !.icons = IF same = {} THEN Append(icons, entry)
                                        ELSE [i \in DOMAIN icons |-> IF i \in same THEN entry ELSE icons[i]]]
  /\ Reply(u, "fetched")
  /\ UNCHANGED <<errand, wired>>

-----------------------------------------------------------------------------

SetupNext(u) ==
  \/ StartBurn(u) \/ Unresolved(u) \/ SeeAccumulator(u) \/ InitAccumulator(u) \/ SeeCurveV2(u) \/ FundCurveV2(u)
  \/ SeeTable(u) \/ CreateTable(u) \/ ExtendTable(u) \/ SetupFails(u)
  \/ \E ok \in BOOLEAN : Warm(u, ok) \/ Activate(u, ok)

AttemptNext(u) ==
  \/ AcquireVault(u) \/ BacksOff(u) \/ Weather(u) \/ PolicyRefuses(u) \/ PassesSimulation(u) \/ SubmitBurn(u)
  \/ \E v \in Stale \cup {"safe"} : Quoted(u, v)
  \/ \E e \in Stale \cup Details : External(u, e)
  \/ \E flag \in BOOLEAN : NoRoute(u, flag) \/ PreflightRefuses(u, flag) \/ SubmitLost(u, flag)

WatchNext(u) ==
  \/ Confirmed(u) \/ SettleLease(u) \/ Burned(u) \/ WatchFails(u) \/ LeaseEnds(u)
  \/ \E n \in 1 .. MaxAttempts, how \in {"landed", "failed", "expired"} : Executes(u, n, how)

CoinNext(u) ==
  \/ \E amounts \in {<<DEFAULT_BUY>>, <<DEFAULT_BUY, DEFAULT_BUY>>} : StartTrade(u, amounts)
  \/ Buy(u) \/ StartMigration(u) \/ RunMigration(u) \/ AskIcon(u)
  \/ \E fails \in BOOLEAN : FetchIcon(u, fails)

DemoNext == \E u \in Callers : SetupNext(u) \/ AttemptNext(u) \/ WatchNext(u) \/ CoinNext(u)

-----------------------------------------------------------------------------
(* Properties *)

Wired(u) == {n \in 1 .. MaxAttempts : wired[u][n] # "none"}
Flying == {u \in Callers : \E n \in 1 .. MaxAttempts : wired[u][n] = "flying"}

\* The answers that say that nothing moved, that the vault is untouched or that
\* the same request may be wired again.
Unmoved == {"deterministic", "external", "burner", "forkOnly", "busy"}

\* Unless the answer to a submission was lost, a burn sends one transaction,
\* an answer that says nothing moved is true, and a vault has one transaction
\* outstanding (core.ts:1222-1226).
OneBurn ==
  /\ \A u \in Callers : ~request[u].lost =>
       /\ Cardinality(Wired(u)) <= 1
       /\ request[u].answer \in Unmoved => Wired(u) = {}
  /\ (\A u \in Callers : ~request[u].lost) => Cardinality(Flying) <= 1

\* "burned" is said of a transaction that landed, whatever was lost before.
BurnedLanded == \A u \in Callers : request[u].answer = "burned" => Fate(u) = "landed"

\* A verdict that the same failure will come again is not given on a venue that
\* could have been left out, unless another burn took the exclusion back.
DeterministicIsHopeless ==
  \A u \in Callers :
    request[u].answer = "deterministic" /\ request[u].last \in Stale => request[u].disturbed

\* A curve leg that goes to the pipeline with a table finds its accumulator, the
\* rent of bonding_curve_v2 and every address in the table, although others set
\* up the same vault and give up at any step.
SetupComplete ==
  \A u \in Callers : request[u].table # 0 /\ request[u].missing = {} =>
    fork.acc /\ fork.bcv # "none" /\ fork.tables[request[u].table] = 1 .. AddressBatches

\* The shared client has one call in flight, and whoever waits for it is in its
\* queue once.
QueueSound ==
  {fork.queue[i] : i \in DOMAIN fork.queue} = {u \in Callers : Stands(u, "quote")}

\* A default buy never tips a coin over, and only a graduated coin has a pool.
StaysTradable ==
  /\ fork.complete => \E u, w \in Callers : errand[u] = "trades" \/ (u # w /\ {errand[u], errand[w]} = {"trade"})
  /\ fork.pool => fork.complete

\* The icon cache is bounded, holds a coin once and shows only what every hop
\* allowed.
IconsBounded ==
  /\ Len(fork.icons) <= ICONS
  /\ \A i, j \in DOMAIN fork.icons : fork.icons[i].coin = fork.icons[j].coin => i = j
  /\ \A i \in DOMAIN fork.icons : fork.icons[i].icon => \A k \in DOMAIN Links[fork.icons[i].coin] :
       ~Links[fork.icons[i].coin][k].safe => \E j \in 1 .. k - 1 : Links[fork.icons[i].coin][j].kind = "image"

\* What the demo says of a burn is true, its setup is complete and its loop of
\* attempts gives up for a reason (executeBurn and what it calls).
DemoSound ==
  /\ OneBurn /\ BurnedLanded /\ DeterministicIsHopeless /\ SetupComplete /\ QueueSound
  /\ StaysTradable /\ IconsBounded
=============================================================================
