---------------------------- MODULE MCArithmetic ----------------------------
(* Bounded inputs for the division of the input (SplitMath) and the floor    *)
(* arithmetic (KeylessFloor).  A state is one input; the only action moves   *)
(* to the next one, so there is no behaviour to check here: MCPlatform runs  *)
(* the series.                                                               *)
EXTENDS SplitMath, VaultAmounts, KeylessFloor, FiniteSetsExt

CONSTANT Inputs   \* the first input of every series

VARIABLE input

\* The floor at the program's own basis points; the extended module has a word
\* so small that every product crosses it.
RealWord == 2000000000

Real == INSTANCE KeylessFloor
          WITH BPS <- 10000, TOL <- 100, PLAUSIBLE_MAX <- 1000, MIN_DEPTH <- 0, WORD <- RealWord

-----------------------------------------------------------------------------
(* What an input is: weights and caps of a vault, a curve or a pool with u64
   reserves, a table of fee tiers, and a bin *)

Fees == [num : Nat, den : Nat, pump : BOOLEAN]
PoolsOf(venues, reserves, prices) ==
  [venue : venues, ok : {TRUE}, rt : Nat, rs : reserves, price : prices, solFirst : BOOLEAN, fee : Fees]

CurvePools == PoolsOf({"curve"}, 0 .. RealWord - 1, {1})
PricePools == PoolsOf({"dlmm", "clmm", "cp"}, 0 .. WORD - 1, 1 .. Wide - 1)

TypedInputs ==
  [kind : {"split"}, weights : Seq(Nat), n : Nat, last : Nat]
    \cup [kind : {"caps"}, weights : Seq(Nat), caps : Seq(Nat), n : Nat, last : Nat]
    \cup [kind : {"curve"}, pool : CurvePools, protocol : Nat, creator : Nat, n : Nat, last : Nat]
    \cup [kind : {"price"}, pool : PricePools, n : 0 .. WORD - 1, last : 0 .. WORD - 1]
    \cup [kind : {"tiers"}, tiers : Seq([from : Nat]), n : Nat, last : Nat]
    \cup [kind : {"bin"}, step : Nat, n : Int, last : Int]

Sound(k) ==
  /\ k.kind \in {"split", "caps"} => WeightVector(k.weights)
  /\ k.kind = "caps" => Len(k.caps) = Len(k.weights)
  /\ k.kind = "price" => ValidFee(k.pool.fee)
  /\ k.kind = "tiers" => Len(k.tiers) <= 32

ASSUME InputsAssumption == Inputs \subseteq TypedInputs /\ \A k \in Inputs : Sound(k)

InputInit == input \in Inputs

NextInput == input.n < input.last /\ input' = [input EXCEPT !.n = @ + 1]

-----------------------------------------------------------------------------
(* The division *)

\* The overflow-free form of a share is the rounded-down product.
ShareExact ==
  input.kind = "split" =>
    \A i \in DOMAIN input.weights :
       Share(input.n, input.weights[i]) = (input.n * input.weights[i]) \div BPS_TOTAL

\* The final leg never falls below its own share, nor exceeds it by more than
\* one unit per earlier leg.
FinalFair == input.kind = "split" => FinalLegIsFair(input.n, input.weights)

\* The legs of every total add up to it.
SumsToTotal == input.kind = "split" => LegsSumToTotal(input.n, input.weights)

\* The three together: the program divides every total exactly and fairly.
DivisionFair == ShareExact /\ FinalFair /\ SumsToTotal

\* The largest total of the vault page clears every cap after at most eight
\* corrections, and no noticeably larger one does; what the max button offers
\* of a balance is within the roundings of it.
MaxOffered ==
  input.kind = "caps" =>
    /\ \A balance \in {4, 12, 1000} : MaxBurnFits(balance, input.caps, input.weights)
    /\ OfferNearBest(input.caps, input.weights)

\* What is divided and what is offered.
AmountsFair == DivisionFair /\ MaxOffered

-----------------------------------------------------------------------------
(* Pump curves *)

AtFee(fee) == [input.pool EXCEPT !.fee = fee]

Parsed == Real!ReadFeeConfig(input.protocol + input.creator)

Paid == Real!ExpectedOutput(input.pool.rt, input.pool.rs, input.n, input.protocol, input.creator)

\* A leg of at least MinLeg lamports: from there on the one or two lamports
\* that Pump's separate rounding takes are less than the tolerance.
MinLeg == 3 * (10000 \div 100)

\* Whatever the fee table says, the fallback is the strictest reading: it
\* admits no larger input, and demands at least the same output.
FallbackNeverLooser ==
  input.kind = "curve" =>
    LET parsed   == Real!KeylessLegFloor(AtFee(Parsed), input.n)
        fallback == Real!KeylessLegFloor(AtFee(Real!FallbackFee), input.n)
    IN  /\ Real!FeeCap(input.pool.rs, Real!FallbackFee) <= Real!FeeCap(input.pool.rs, Parsed)
        /\ ~ Refused(fallback) => parsed = ZeroMin \/ parsed \in 1 .. fallback

\* An admitted curve leg can be executed: Pump pays at least the floor that
\* keyless_leg_floor computed from the same reserves and fees.
CurveMeetsFloor ==
  input.kind = "curve" /\ input.n >= MinLeg /\ Parsed.num = input.protocol + input.creator =>
    LET f == Real!KeylessLegFloor(AtFee(Parsed), input.n)
    IN  ~ Refused(f) => Paid >= f

\* Floors on curves err on the safe side and can be met.
CurveFloorFair == FallbackNeverLooser /\ CurveMeetsFloor

\* The fallback floor leaves room for the fee the venue really takes.
FallbackAbsorbsFee ==
  input.kind = "curve" /\ input.n >= MinLeg =>
    LET f == Real!KeylessLegFloor(AtFee(Real!FallbackFee), input.n)
    IN  ~ Refused(f) => Paid >= f

-----------------------------------------------------------------------------
(* Price venues, fee tables and bins *)

\* The floor the service quotes is the one the program computes, whenever
\* either of them gives one that a u64 can hold.
MirrorAgrees ==
  input.kind = "price" =>
    LET p == KeylessLegFloor(input.pool, input.n)
        m == MirrorFloor(input.pool, input.n)
    IN  /\ ~ Refused(p) => m = p
        /\ ~ Refused(m) /\ ExactOut(input.pool, InputAfterFee(input.n, input.pool.fee)) < WORD => p = m

\* The last tier at or below the market cap, 0 if there is none.
LastReached == Max({0} \cup {i \in DOMAIN input.tiers : input.tiers[i].from <= input.n})

\* On a sorted table the binary search of the floor, the scan of the quoting
\* service and the scan of the curve adapter name the same tier.
ReadersAgree ==
  input.kind = "tiers" /\ Sorted(input.tiers) =>
    /\ PickTier(input.tiers, input.n) = LastReached
    /\ MirrorTier(input.tiers, input.n) = LastReached
    /\ CurveTier(input.tiers, input.n) = LastReached

\* The copies of the program's pricing give what the program gives.
CopiesAgree == MirrorAgrees /\ ReadersAgree

\* The program's price, computed from partial products, is the exact one
\* whenever a u128 holds it; it is refused, never wrapped, otherwise.  At a
\* price of one unit (the reciprocal of Wide) no output fits a u64, so it does
\* not matter that the program may refuse it already.
PriceNeverWraps ==
  input.kind = "bin" =>
    LET p == DlmmPrice(input.step, input.n)
        m == MirrorPrice(input.step, input.n)
    IN  IF m \in 2 .. Wide - 1 THEN p = m ELSE m = 1 \/ Refused(p)

\* A floor is never looser than the chain's own tables allow, a venue that
\* charges them can meet it, the service quotes the same one, and no product
\* behind it wraps (keyless_leg_floor, dlmm_price_q64; makeFloor of reference.ts).
FloorsSound == CurveFloorFair /\ CopiesAgree /\ PriceNeverWraps

-----------------------------------------------------------------------------
(* The series *)

WeightVectors ==
  {w \in UNION {[1 .. k -> 1 .. BPS_TOTAL] : k \in 1 .. MAX_SPLIT_TARGETS} :
     ValidLegCount(w) /\ ValidWeights(w)}

Splits == {[kind |-> "split", weights |-> w, n |-> 0, last |-> 60] : w \in WeightVectors}

\* Caps around the boundaries of each leg.
Caps ==
  UNION {{[kind |-> "caps", weights |-> w, caps |-> c, n |-> 0, last |-> 0] :
            c \in [DOMAIN w -> IF Len(w) < MAX_SPLIT_TARGETS THEN {0, 2, 7} ELSE {0, 7}]} : w \in WeightVectors}

Curve(rs) ==
  [venue |-> "curve", ok |-> TRUE, rt |-> 3000000, rs |-> rs, price |-> 1,
   solFirst |-> TRUE, fee |-> Real!FallbackFee]

Curves(reserves, protocols, creators) ==
  {[kind |-> "curve", pool |-> Curve(rs), protocol |-> p, creator |-> c, n |-> 1, last |-> 700] :
     rs \in reserves, p \in protocols, c \in creators}

\* A curve deep enough that the fallback admits a leg of MinLeg.
DeepCurve == Curves({6000000}, {95}, {30})

Prices ==
  {[kind |-> "price", n |-> 1, last |-> 25,
    pool |-> [venue |-> v, ok |-> TRUE, rt |-> 5, rs |-> rs, price |-> p, solFirst |-> b,
              fee |-> [num |-> k, den |-> 4, pump |-> FALSE]]] :
     v \in {"dlmm", "clmm", "cp"}, rs \in {7, 31}, p \in 1 .. 60 \cup 1020 .. 1023,
     b \in BOOLEAN, k \in 1 .. 3}

Tables == UNION {[1 .. k -> [from : 0 .. 4]] : k \in 0 .. 4}

Tiers == {[kind |-> "tiers", tiers |-> t, n |-> 0, last |-> 4] : t \in Tables}

Bins == {[kind |-> "bin", step |-> s, n |-> -9, last |-> 9] : s \in 1 .. 10}

AllInputs ==
  Splits \cup Curves({20000, 2000000}, {0, 1, 95, 995}, {0, 5, 30})
    \cup Prices \cup Tiers \cup Bins \cup Caps

=============================================================================
