----------------------------- MODULE BurnBuild -----------------------------
(***************************************************************************)
(* One burn being prepared: quote-service/core.ts from the request to the  *)
(* simulated, unsigned transaction (parseBurnRequest, resolveRequest,      *)
(* buildAndSimulate), with its accounts read through adapters.ts and its   *)
(* curve legs built by directcurve.ts.  BurnService has the same pipeline  *)
(* as control of many requests; here there is one, with the data its       *)
(* decisions depend on, while the chain moves between its awaits.          *)
(*                                                                         *)
(* The service repeats what the program will check, so as to refuse early  *)
(* what must fail; the program's own verdict is in ProgramRefuses.         *)
(***************************************************************************)
EXTENDS SplitMath, FiniteSets

CONSTANTS
  Targets,         \* mints
  Natives,         \* those that are wrapped SOL
  Requests,        \* what callers send
  Markets,         \* the chains a request may find
  Answers,         \* Jupiter's builds
  MaxAmount,       \* policy.maxAmountPerBurn
  MaxSlippage,     \* policy.maxSlippageBps
  FloorRate,       \* StaticRateFloorPolicy: [num, den]; num = 0 without one
  Rungs,           \* 1 + number of policy.fittingMaxAccounts
  Retries,         \* policy.retryAttempts
  MinLeft,         \* policy.minRemainingBlockHeights
  HashLife,        \* blocks for which a blockhash is valid
  RentMin,         \* rent floor of an account without data
  MaxMoves         \* bound: changes of the chain during the burn

\* The constructor's POLICY_CONFIGURATION checks.
PolicyOk ==
  /\ MaxSlippage \in 1 .. BPS_TOTAL - 1 /\ MaxAmount \in Nat \ {0}
  /\ Retries \in 0 .. 5

\* Amounts, rates and heights are unsigned integers on the chain and in the
\* service; the legs of a request are one array, whatever is in them.  rent: the
\* lamports of the vault's open volume accumulators at Pump, which hold data.
MarketType ==
  [sol : Nat, rent : {n \in Nat : n = 0 \/ n >= RentMin}, vault : BOOLEAN, wsol : BOOLEAN,
   mintOk : [Targets -> BOOLEAN], ata : [Targets -> BOOLEAN], venue : [Targets -> {"curve", "pool"}],
   rate : [Targets -> Nat], cap : [Targets -> Nat], ready : BOOLEAN,
   table : {"inactive", "partial", "covers"}, height : Nat, moves : Nat]

ASSUME BuildConstants ==
  /\ PolicyOk /\ Natives \subseteq Targets /\ Rungs \in Nat \ {0}
  /\ MinLeft \in 0 .. HashLife /\ RentMin \in Nat /\ MaxMoves \in Nat
  /\ Markets \subseteq MarketType
  /\ \A q \in Requests :
       /\ q.amount \in Nat /\ q.weights \in Seq(Nat)
       /\ q.targets \in Seq(Targets) /\ Len(q.targets) = Len(q.weights)

VARIABLES
  market,  \* [sol, rent, vault, wsol, mintOk, ata, venue, rate, cap, ready, table, height, moves]
  build    \* the request and the pipeline's locals; tried, fresh and paidBack
           \* are history: rungs measured, whether the chain stood still, and
           \* the legs on a Pump venue when the cashback was refused

buildVars == <<market, build>>

Request == build.request
BuildLegs == DOMAIN Request.weights
AmountOf(i) == LegAmount(Request.amount, Request.weights, i)
TargetOf(i) == Request.targets[i]

-----------------------------------------------------------------------------
(* The program *)

Refusal == -1

\* keyless_leg_floor for a target: over the cap, no output, or the floor.
ProgramFloor(t, amount) ==
  IF amount > market.cap[t] \/ market.rate[t] = 0 THEN Refusal ELSE market.rate[t] * amount

\* validate_burn_remainder: the vault ends empty or rent exempt.
RemainderOk(remainder) == remainder = 0 \/ remainder >= RentMin

\* The floors of all legs are refused before any route runs.
BelowFloor(legs) == \E i \in BuildLegs : legs[i].minimum < ProgramFloor(TargetOf(i), AmountOf(i))

\* credit: what the Jupiter legs' accumulators return to the vault, which counts
\* for what is left and not for what the burn may spend.
ProgramRefuses(credit) ==
  \/ \E i \in BuildLegs : \/ ProgramFloor(TargetOf(i), AmountOf(i)) = Refusal
                          \/ AmountOf(i) = 0
                          \/ ~ market.mintOk[TargetOf(i)] \/ ~ market.ata[TargetOf(i)]
  \/ market.sol < Request.amount \/ ~ RemainderOk(market.sol - Request.amount + credit)
  \/ ~ market.vault \/ ~ market.wsol

-----------------------------------------------------------------------------
(* The request *)

\* parseBurnRequest: its fields have their syntax and no others are there.
ParseBurnRequest(q) ==
  /\ q.wellFormed /\ q.amount > 0
  /\ ValidLegCount(q.weights) /\ ValidWeights(q.weights)
  /\ \A i, j \in DOMAIN q.targets : i # j => q.targets[i] # q.targets[j]

Start ==
  [step |-> "idle", request |-> [weights |-> <<>>, targets |-> <<>>], floors |-> <<>>,
   attempt |-> 0, capStart |-> 0, rung |-> 0,
   excluded |-> {}, cashback |-> FALSE, legs |-> <<>>, curves |-> {}, hash |-> 0, code |-> "",
   tried |-> {}, fresh |-> TRUE, paidBack |-> {}]

BuildInit == market \in Markets /\ build = Start

Refuse(code) == build' = [build EXCEPT !.step = code]
ToStep(s)    == build' = [build EXCEPT !.step = s]

\* resolveRequest up to its first await: the request, the limit of one burn
\* and native targets.
Receive(q) ==
  /\ build.step = "idle"
  /\ build' = [build EXCEPT !.request = q,
                            !.step = IF /\ ParseBurnRequest(q) /\ q.amount <= MaxAmount
                                        /\ \A i \in DOMAIN q.targets : q.targets[i] \notin Natives
                                       THEN "resolve" ELSE "refused"]
  /\ UNCHANGED market

\* The references are read once; a leg that rounds to nothing, exceeds its
\* cap or has no floor is refused at once.  Retries use these floors.
ResolveReferences ==
  LET floors == [i \in BuildLegs |-> ProgramFloor(TargetOf(i), AmountOf(i))]
  IN  /\ build.step = "resolve"
      /\ IF \E i \in BuildLegs : AmountOf(i) = 0 \/ floors[i] = Refusal
           THEN Refuse("refused")
           ELSE build' = [build EXCEPT !.floors = floors, !.step = "vault",
                                     !.curves = {i \in BuildLegs : market.venue[TargetOf(i)] = "curve"}]
      /\ UNCHANGED market

StrictVaultAdmitted == market.vault /\ market.wsol /\ market.sol >= Request.amount + RentMin

\* vault-admission: a bare System account that covers the burn and ends empty
\* or rent exempt, and the vault's own WSOL account.
VaultAdmitted ==
  /\ market.vault /\ market.wsol /\ market.sol >= Request.amount
  /\ LET remainder == market.sol - Request.amount IN remainder # 0 => remainder >= RentMin

AdmitVault ==
  /\ build.step = "vault"
  /\ ToStep(IF VaultAdmitted THEN "targets" ELSE "refused")
  /\ UNCHANGED market

\* target-admission (requireAllowedMint, requireTokenAccount) and the caller's
\* lookup tables, which must exist and be active.
AdmitBuildTargets ==
  /\ build.step = "targets"
  /\ ToStep(IF /\ \A i \in BuildLegs : market.mintOk[TargetOf(i)] /\ market.ata[TargetOf(i)]
               /\ Request.table => market.table \in {"partial", "covers"}
              THEN "quote" ELSE "refused")
  /\ UNCHANGED market

VaultAltCovers == Request.table /\ market.table = "covers"

-----------------------------------------------------------------------------
(* One rung of the fitting ladder *)

\* StaticRateFloorPolicy.requiredMinimumOutput
RequiredMinimumOutput(amount) == (amount * FloorRate.num + FloorRate.den - 1) \div FloorRate.den

\* The accounts that assertRoute pins in each of Jupiter's two layouts.
PinnedSlots(kind) ==
  {"authority", "source", "destination", "sourceMint", "destinationMint", "sourceProgram",
   "destinationProgram", "eventAuthority", "program"}
    \cup (IF kind = "route" THEN {"destinationAgain"} ELSE {})

\* assertRoute: the authorized input, no fee, the pinned accounts, and no
\* signer but the vault.
AssertRoute(b) ==
  /\ b.exactIn /\ ~ b.fee
  /\ b.kind \in {"route", "shared"}
  /\ PinnedSlots(b.kind) \subseteq b.pinned
  /\ b.signers \subseteq {"vault"}

\* assertAuxiliaryInstructions: only token accounts that exist already.
AssertAuxiliary(b) == b.extra \in {"none", "setupDone"}

\* The price of a build: a threshold within the slippage policy, price impact,
\* the independent floor, and a reference that prices the market.
AssertPrice(b, i) ==
  /\ b.threshold \in 1 .. b.out
  /\ b.out \div 2 <= build.floors[i]
  /\ b.slippageOk /\ b.threshold * BPS_TOTAL >= b.out * (BPS_TOTAL - MaxSlippage)
  /\ b.impactOk
  /\ FloorRate.num > 0 => b.threshold >= RequiredMinimumOutput(AmountOf(i))

\* resolveAndValidateLookupTables on the tables that Jupiter names.
AssertTables(b) == b.tables \in {"none", "live"}

Larger(a, b) == IF a > b THEN a ELSE b

RouteLeg(b, i) == [minimum |-> Larger(build.floors[i], b.threshold), pump |-> b.pump]

\* buildDirectCurveBuyAccounts and assertDirectCurveLegShape: the curve is
\* still open and Pump's two accounts are set up.  Its accounts name Pump.
CurveLeg(i) == [minimum |-> build.floors[i], pump |-> TRUE]

\* The leg's reference was a live curve when it was read.
IsCurve(i) == i \in build.curves

CurveReady(i) == market.venue[TargetOf(i)] = "curve" /\ market.ready

\* Jupiter honours excludeDexes.
MayAnswer(i, b) == i \in build.excluded => ~ b.pump

LegRefused(i, b) ==
  IF IsCurve(i) THEN ~ CurveReady(i)
  ELSE ~ (AssertRoute(b) /\ AssertAuxiliary(b) /\ AssertPrice(b, i) /\ AssertTables(b))

\* The widest route does not fit, the vault's own accounts are inlined, and at
\* three legs those alone are too many.
FailsFast == build.rung = 0 /\ Len(Request.weights) >= 3 /\ ~ VaultAltCovers

\* All legs are built at this rung, then the transaction is measured.
QuoteRung(answer, fits) ==
  /\ build.step = "quote" /\ build.rung < Rungs
  /\ \A i \in BuildLegs : MayAnswer(i, answer[i])
  /\ LET tried == build.tried \cup {build.rung} IN
     IF \E i \in BuildLegs : LegRefused(i, answer[i])
       THEN build' = [build EXCEPT !.step = "refused", !.tried = tried]
     ELSE IF fits
       THEN build' = [build EXCEPT !.step = "simulate", !.hash = market.height, !.tried = tried,
                                   !.legs = [i \in BuildLegs |-> IF IsCurve(i) THEN CurveLeg(i)
                                                                 ELSE RouteLeg(answer[i], i)]]
     ELSE build' = [build EXCEPT !.step = IF FailsFast THEN "tooLarge" ELSE "quote",
                                 !.rung = @ + 1, !.tried = tried]
  /\ UNCHANGED market

LadderEnds ==
  /\ build.step = "quote" /\ build.rung = Rungs
  /\ Refuse("tooLarge") /\ UNCHANGED market

-----------------------------------------------------------------------------
(* Simulation and retries *)

\* What the simulated transaction can answer: the program's refusals, a leg
\* that pays less than its minimum, a cashback of a Pump venue reached through
\* Jupiter, another program's error, exhausted compute units, or success.
SimulatedWith(credit, outcome) ==
  IF BelowFloor(build.legs) \/ ProgramRefuses(credit)
    THEN \/ outcome = "6021" /\ BelowFloor(build.legs)
         \/ outcome = "burner" /\ ProgramRefuses(credit)
  ELSE \/ outcome \in {"ok", "6021", "external", "compute"}
       \/ outcome = "6018" /\ \E i \in BuildLegs : build.legs[i].pump /\ ~ IsCurve(i)

\* A route through Pump may have an open accumulator among its accounts.
Credits == IF \E i \in BuildLegs : build.legs[i].pump /\ ~ IsCurve(i) THEN {0, market.rent} ELSE {0}

Simulated(outcome) == \E credit \in Credits : SimulatedWith(credit, outcome)

PumpLegs == {i \in BuildLegs : build.legs[i].pump}

FaultyOffending == {CHOOSE i \in BuildLegs : PumpLegs = {} \/ build.legs[i].pump}

\* pumpVenueLegIndexes; every leg when there is none.
Offending == IF PumpLegs = {} THEN BuildLegs ELSE PumpLegs

\* classifySimulationFailure's verdict decides what is quoted again.
QuotedAgain(outcome) ==
  /\ build.attempt < Retries
  /\ CASE outcome = "6018"    -> ~ build.cashback
       [] outcome = "compute" -> build.rung + 1 < Rungs
       [] outcome = "burner"  -> FALSE
       [] OTHER               -> TRUE

FaultyRequote(outcome) ==
  LET start == IF outcome = "compute" THEN build.rung + 1 ELSE 0
  IN  [build EXCEPT !.step = "quote", !.capStart = start, !.rung = start,
                    !.excluded = IF outcome = "6018" THEN @ \cup Offending ELSE @,
                    !.cashback = @ \/ outcome = "6018", !.tried = {},
                    !.paidBack = IF outcome = "6018" THEN PumpLegs ELSE @]

\* A fresh ladder from the rung that compute exhaustion narrowed it to.
Requote(outcome) ==
  LET start == IF outcome = "compute" THEN build.rung + 1 ELSE build.capStart
  IN  [build EXCEPT !.step = "quote", !.attempt = @ + 1, !.capStart = start, !.rung = start,
                    !.excluded = IF outcome = "6018" THEN @ \cup Offending ELSE @,
                    !.cashback = @ \/ outcome = "6018", !.tried = {},
                    !.paidBack = IF outcome = "6018" THEN PumpLegs ELSE @]

SimulateBuild(outcome) ==
  /\ build.step = "simulate" /\ Simulated(outcome)
  /\ build' = IF outcome = "ok" THEN [build EXCEPT !.step = "height"]
              ELSE IF QuotedAgain(outcome) THEN Requote(outcome)
              ELSE [build EXCEPT !.step = "failed", !.code = outcome]
  /\ UNCHANGED market

\* BLOCKHASH_TOO_OLD, or the unsigned transaction is returned to the caller.
CheckLifetime ==
  /\ build.step = "height"
  /\ ToStep(IF build.hash + HashLife - market.height >= MinLeft THEN "prepared" ELSE "refused")
  /\ UNCHANGED market

-----------------------------------------------------------------------------
(* Meanwhile, on chain *)

Moves(m) ==
  /\ market.moves < MaxMoves /\ build.step # "idle"
  /\ market' = [m EXCEPT !.moves = @ + 1]
  /\ build' = [build EXCEPT !.fresh = FALSE]

Drift(t, rate) == rate # market.rate[t] /\ Moves([market EXCEPT !.rate[t] = rate])

\* Somebody pays the vault or burns from it.
Balance(lamports) == lamports # market.sol /\ Moves([market EXCEPT !.sol = lamports])

\* A trade through Pump opens an accumulator of the vault or closes it.
Accumulator(lamports) == lamports # market.rent /\ Moves([market EXCEPT !.rent = lamports])

Graduate(t) == market.venue[t] = "curve" /\ Moves([market EXCEPT !.venue[t] = "pool"])

Block ==
  /\ market.height < HashLife + 1 /\ build.step \in {"simulate", "height"}
  /\ market' = [market EXCEPT !.height = @ + 1] /\ UNCHANGED build

SimOutcomes == {"ok", "6018", "6021", "burner", "external", "compute"}

BuildSteps ==
  \/ ResolveReferences \/ AdmitVault \/ AdmitBuildTargets \/ LadderEnds \/ CheckLifetime
  \/ /\ build.step = "quote"
     /\ \E answer \in [BuildLegs -> Answers], fits \in BOOLEAN : QuoteRung(answer, fits)
  \/ \E outcome \in SimOutcomes : SimulateBuild(outcome)

BuildNext ==
  \/ \E q \in Requests : Receive(q)
  \/ BuildSteps
  \/ \E t \in Targets : Graduate(t) \/ \E rate \in 0 .. 2 : Drift(t, rate)
  \/ \E lamports \in 0 .. MaxAmount : Balance(lamports)
  \/ \E lamports \in {0, RentMin} : Accumulator(lamports)
  \/ Block

-----------------------------------------------------------------------------
(* Properties *)

\* What the program refuses whatever the route (6002, 6016, 6026, 6040, a
\* mint or an account that is not admitted) the service has refused before it
\* asks Jupiter: on a chain that stood still no simulation ends in one of the
\* deterministic refusals.
PreflightComplete == build.code = "burner" => ~ build.fresh

\* A remainder of dust that the rent of the vault's open accumulators would lift
\* over the floor, if a leg's route closed them.  The service's DUST_REMAINDER
\* leaves that rent out.
DustMadeUp ==
  /\ market.sol >= Request.amount /\ ~ RemainderOk(market.sol - Request.amount)
  /\ RemainderOk(market.sol - Request.amount + market.rent)

\* The service refuses nothing that the program would have taken, with one
\* exception: on a chain that stood still a request refused by the vault's
\* admission or by its references is one the program refuses whatever its routes
\* close, or one whose dust an open accumulator would make up.
PreflightTruthful ==
  [][build.step \in {"resolve", "vault"} /\ build'.step = "refused" /\ build.fresh
       => DustMadeUp \/ \A credit \in {0, market.rent} : ProgramRefuses(credit)]_buildVars

\* On a chain that stood still an encoded minimum is never below the
\* program's floor: a 6021 is then always a route that pays too little, which
\* is what a fresh quote can mend.
MinimumCoversFloor == build.step = "simulate" /\ build.fresh => ~ BelowFloor(build.legs)

\* A transaction that was built is one that the program refuses only for what
\* moved since, or for its route.
BuiltSoundly == PreflightComplete /\ MinimumCoversFloor

\* The cashback retry mends the legs that needed it: a burn that is refused
\* for cashback again goes through a Pump venue on a leg that did not do so
\* the first time (the exclusion is per leg, and there is one such retry).
CashbackHeals ==
  build.code = "6018" /\ build.cashback =>
    \E i \in PumpLegs : ~ IsCurve(i) /\ i \notin build.paidBack

\* A burn is called too large only after every rung from where the ladder
\* started was measured, or when three legs inline the vault's accounts.
LadderExhausted ==
  build.step = "tooLarge" =>
    \/ build.tried = build.capStart .. Rungs - 1
    \/ Len(Request.weights) >= 3 /\ ~ VaultAltCovers

\* Every retry changes what the last attempt failed for, and no rung is left out.
RetriesPurposeful == CashbackHeals /\ LadderExhausted

\* What the service builds is sound, and what it tries again had a reason to.
BuildSound == BuiltSoundly /\ RetriesPurposeful

\* How far a burn is from its end: attempts left, then rungs and stages left.
Rank(x) ==
  (Retries - x.attempt) * (Rungs + 4)
    + CASE x.step = "resolve"  -> Rungs + 6
        [] x.step = "vault"    -> Rungs + 5
        [] x.step = "targets"  -> Rungs + 4
        [] x.step = "quote"    -> Rungs - x.rung + 3
        [] x.step = "simulate" -> 2
        [] x.step = "height"   -> 1
        [] OTHER               -> 0

\* Whatever Jupiter and the simulations answer, retries come to an end: every
\* step of the pipeline brings it nearer.
BuildEnds ==
  [][build.step # "idle" /\ (build'.step # build.step \/ build'.rung # build.rung)
       => Rank(build') \in 0 .. Rank(build) - 1]_buildVars

=============================================================================
