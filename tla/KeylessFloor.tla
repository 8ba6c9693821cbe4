---------------------------- MODULE KeylessFloor ----------------------------
(***************************************************************************)
(* The output floor of a leg, derived from the reference pool that the     *)
(* vault address commits to: keyless_leg_floor and its helpers in          *)
(* programs/burner/src/swap_and_burn.rs, the Pump quote in directcurve.rs, *)
(* and the copy of the floor that quote-service/reference.ts prices with.  *)
(* A refusal with code c is the value -c; a floor is positive.  Account    *)
(* authentication (owners, discriminators, vault addresses) is one flag.   *)
(***************************************************************************)
EXTENDS Integers, Sequences

CONSTANTS
  BPS,            \* 10_000
  TOL,            \* KEYLESS_TOL_BPS
  PLAUSIBLE_MAX,  \* PUMP_FEE_PLAUSIBLE_MAX_BPS
  MIN_DEPTH,      \* MIN_REFERENCE_DEPTH_LAMPORTS
  WORD            \* 2^64: a u64 is below WORD, a u128 below WORD^2

ASSUME FloorConstants ==
  /\ BPS \in Nat \ {0}
  /\ TOL \in 0 .. BPS - 1
  /\ PLAUSIBLE_MAX \in 1 .. BPS - 1
  /\ MIN_DEPTH \in Nat
  /\ WORD \in Nat \ {0}

Wide == WORD * WORD

\* InvalidInstructionData, ZeroMinimumOutput, ReferenceInvalid,
\* ReferenceCapExceeded, ReferenceTooShallow
BadData  == -6027
ZeroMin  == -6002
BadRef   == -6039
OverCap  == -6040
Shallow  == -6041

Refused(x) == x < 0

-----------------------------------------------------------------------------
(* Fees.  A fee is [num, den, pump]; pump fees divide by den + num. *)

ValidFee(fee) == fee.num # 0 /\ fee.den # 0 /\ fee.num < fee.den

PumpFee(bps) == [num |-> bps, den |-> BPS, pump |-> TRUE]

\* conservative_pump_fee: one basis point.
FallbackFee == PumpFee(1)

\* read_fee_config on an authenticated account: total is what the parser
\* returned, or -1.
ReadFeeConfig(total) ==
  IF total \in 1 .. PLAUSIBLE_MAX THEN PumpFee(total) ELSE FallbackFee

FeeCap(reserve, fee) == (reserve * fee.num) \div fee.den

\* input_after_fee, before its range check.
InputAfterFee(amount, fee) ==
  IF fee.pump THEN (amount * fee.den) \div (fee.den + fee.num) - 1
              ELSE (amount * (fee.den - fee.num)) \div fee.den

-----------------------------------------------------------------------------
(* Tier tables: sequences of [from, lp, protocol, creator] *)

Sorted(tiers) == \A i, j \in DOMAIN tiers : i < j => tiers[i].from <= tiers[j].from

Reaches(cap, tier) == cap >= tier.from

Middle(lo, hi) == lo + (hi - lo + 1) \div 2

\* The loop of parse_pump_fee_config: it narrows lo .. hi to one index.
Narrow(tiers, cap) ==
  LET search[range \in Nat \X Nat] ==
        IF range[1] >= range[2] THEN range[1]
        ELSE IF Reaches(cap, tiers[Middle(range[1], range[2])])
               THEN search[<<Middle(range[1], range[2]), range[2]>>]
               ELSE search[<<range[1], Middle(range[1], range[2]) - 1>>]
  IN  search[<<1, Len(tiers)>>]

\* The tier the program applies: 0 for the flat fees, -1 when the local check
\* of the pick fails.
PickTier(tiers, cap) ==
  IF tiers = <<>> \/ ~ Reaches(cap, tiers[1]) THEN 0
  ELSE LET k == Narrow(tiers, cap)
       IN  IF \/ ~ Reaches(cap, tiers[k])
              \/ k < Len(tiers) /\ Reaches(cap, tiers[k + 1])
             THEN -1 ELSE k

\* The linear scan of quote-service/reference.ts pumpFeeConfig.
MirrorTier(tiers, cap) ==
  LET scan[i \in Nat] ==
        IF i > Len(tiers) \/ tiers[i].from > cap THEN i - 1 ELSE scan[i + 1]
  IN  scan[1]

\* The scan of directcurve.rs curve_fee_bps, which refuses a table that
\* descends before it stops, and more than 32 tiers.
CurveTier(tiers, cap) ==
  LET scan[i \in Nat] ==
        IF i > Len(tiers) THEN i - 1
        ELSE IF i > 1 /\ tiers[i].from < tiers[i - 1].from THEN -1
        ELSE IF tiers[i].from > cap THEN i - 1 ELSE scan[i + 1]
  IN  IF Len(tiers) > 32 THEN -1 ELSE scan[1]

-----------------------------------------------------------------------------
(* Expected output *)

\* cp_out
CpOut(rt, rs, inp) ==
  IF rs + inp = 0 THEN BadData
  ELSE LET q == (rt * inp) \div (rs + inp) IN IF q >= WORD THEN BadData ELSE q

\* The part of the product above one word; it must itself fit a word.
MulHigh(hi) == IF hi >= WORD THEN BadData ELSE hi

\* mul_q64: (a * b) / WORD from four partial products that fit a u128.
MulQ64(a, b) ==
  LET ah == a \div WORD   al == a % WORD
      bh == b \div WORD   bl == b % WORD
      ll == al * bl       lh == al * bh
      hl == ah * bl       hh == ah * bh
      mid == (ll \div WORD) + (lh % WORD) + (hl % WORD)
      hi  == MulHigh(hh + (lh \div WORD) + (hl \div WORD) + (mid \div WORD))
  IN  IF Refused(hi) THEN BadData ELSE hi * WORD + (mid % WORD)

\* floor(Wide / r) without forming Wide
Reciprocal(r) ==
  ((Wide - 1) \div r) + (IF (Wide - 1) % r = r - 1 THEN 1 ELSE 0)

\* A state of square and multiply: the exponent that is left, the base and
\* the product.
Squaring == [e : Nat, b : Nat, r : Nat]

\* dlmm_price_q64: square and multiply, refused as soon as a product is.
Power(start, exponent) ==
  LET loop[s \in Squaring] ==
        LET r2 == IF s.e % 2 = 1 THEN MulQ64(s.r, s.b) ELSE s.r
            b2 == IF s.e > 1 THEN MulQ64(s.b, s.b) ELSE s.b
        IN  IF s.e = 0 THEN s.r
            ELSE IF Refused(r2) \/ Refused(b2) THEN BadData
            ELSE loop[[e |-> s.e \div 2, b |-> b2, r |-> r2]]
  IN  loop[[e |-> exponent, b |-> start, r |-> WORD]]

\* The price of one bin, and the bins between this one and the zeroth.
BinRate(binStep) == (WORD * (BPS + binStep)) \div BPS
BinsAway(activeId) == IF activeId < 0 THEN -activeId ELSE activeId

DlmmPrice(binStep, activeId) ==
  LET r == Power(BinRate(binStep), BinsAway(activeId))
      q == IF r = 0 THEN 0 ELSE Reciprocal(r)
  IN  IF Refused(r) \/ activeId >= 0 THEN r
      ELSE IF q \in {0, Wide} THEN BadData ELSE q

\* dlmmPriceQ64 in quote-service/reference.ts: the same steps on unbounded
\* integers.
MirrorPower(start, exponent) ==
  LET loop[s \in Squaring] ==
        IF s.e = 0 THEN s.r
        ELSE loop[[e |-> s.e \div 2,
                   b |-> IF s.e > 1 THEN (s.b * s.b) \div WORD ELSE s.b,
                   r |-> IF s.e % 2 = 1 THEN (s.r * s.b) \div WORD ELSE s.r]]
  IN  loop[[e |-> exponent, b |-> start, r |-> WORD]]

MirrorPrice(binStep, activeId) ==
  LET r == MirrorPower(BinRate(binStep), BinsAway(activeId))
  IN  IF activeId < 0 THEN Wide \div r ELSE r

DlmmOut(inp, price, solFirst) ==
  IF solFirst THEN MulQ64(inp, price)
  ELSE IF price = 0 THEN BadData ELSE (inp * WORD) \div price

Fits(t) == t < WORD

\* CLMM: the square root price is applied twice, each product below Wide; the
\* inverse form checks its intermediate before the second shift.
ClmmOut(inp, sq, solFirst) ==
  LET t  == (inp * sq) \div WORD
      ti == (inp * WORD) \div sq
  IN  IF solFirst
        THEN IF inp * sq >= Wide \/ t * sq >= Wide THEN BadData ELSE (t * sq) \div WORD
        ELSE IF ~ Fits(ti) THEN BadData ELSE ((ti * WORD) % Wide) \div sq

\* What the pools' formulas give with unbounded integers.
ExactOut(pool, inp) ==
  CASE pool.venue = "dlmm" -> IF pool.solFirst THEN (inp * pool.price) \div WORD
                                               ELSE (inp * WORD) \div pool.price
    [] pool.venue = "clmm" -> IF pool.solFirst
                                THEN (((inp * pool.price) \div WORD) * pool.price) \div WORD
                                ELSE (((inp * WORD) \div pool.price) * WORD) \div pool.price
    [] OTHER               -> (pool.rt * inp) \div (pool.rs + inp)

-----------------------------------------------------------------------------
(* The floor.  A pool is [venue, ok, rt, rs, price, solFirst, fee]: ok when its
   accounts authenticate, rs the raw SOL side, price the DLMM price (a refusal
   where it could not be computed) or the CLMM square root price. *)

PriceVenue(pool) == pool.venue \in {"dlmm", "clmm"}

\* The Pump venues are exempt from the depth gate.
DepthGated(pool) == pool.venue \in {"v4", "cp", "dlmm", "clmm"}

FaultyHaircut(expected) == expected

Haircut(expected) == (expected * (BPS - TOL)) \div BPS

\* keyless_floor_from_expected
FloorFromExpected(expected) ==
  IF expected = 0 THEN ZeroMin
  ELSE IF Refused(expected) \/ expected >= WORD THEN BadData
  ELSE IF Haircut(expected) = 0 THEN ZeroMin ELSE Haircut(expected)

Expected(pool, inp) ==
  CASE pool.venue = "dlmm" -> DlmmOut(inp, pool.price, pool.solFirst)
    [] pool.venue = "clmm" -> ClmmOut(inp, pool.price, pool.solFirst)
    [] OTHER               -> CpOut(pool.rt, pool.rs, inp)

\* keyless_leg_floor.  A price venue computes its output before the depth
\* gate, a constant-product one is gated first.
KeylessLegFloor(pool, amount) ==
  LET net      == InputAfterFee(amount, pool.fee)
      shallow  == DepthGated(pool) /\ pool.rs < MIN_DEPTH
  IN  IF ~ pool.ok THEN BadRef
      ELSE IF Refused(pool.price) THEN BadData
      ELSE IF ~ ValidFee(pool.fee) THEN BadRef
      ELSE IF FeeCap(pool.rs, pool.fee) >= WORD THEN BadData
      ELSE IF amount > FeeCap(pool.rs, pool.fee) THEN OverCap
      ELSE IF ~ PriceVenue(pool) /\ shallow THEN Shallow
      ELSE IF net <= 0 THEN ZeroMin
      ELSE IF Refused(Expected(pool, net)) THEN BadData
      ELSE IF shallow THEN Shallow
      ELSE FloorFromExpected(Expected(pool, net))

\* makeFloor in quote-service/reference.ts: unbounded integers, gate first.
MirrorFloor(pool, amount) ==
  LET net == InputAfterFee(amount, pool.fee)
      out == ExactOut(pool, net)
  IN  IF amount > FeeCap(pool.rs, pool.fee) THEN OverCap
      ELSE IF DepthGated(pool) /\ pool.rs < MIN_DEPTH THEN Shallow
      ELSE IF net <= 0 \/ out = 0 \/ Haircut(out) = 0 THEN ZeroMin
      ELSE Haircut(out)

-----------------------------------------------------------------------------
(* What a Pump curve pays *)

CeilBps(amount, bps) == (amount * bps + BPS - 1) \div BPS

\* The lamports by which separately rounded fees exceed the budget.
Overshoot(net, fees, spend) == IF net + fees > spend THEN net + fees - spend ELSE 0

\* expected_output: buy_exact_sol_in with the two fees rounded up separately.
ExpectedOutput(rt, rs, spend, protocol, creator) ==
  LET net  == (spend * BPS) \div (BPS + protocol + creator)
      fees == CeilBps(net, protocol) + CeilBps(net, creator)
      inp  == net - Overshoot(net, fees, spend) - 1
  IN  IF inp <= 0 \/ rt = 0 \/ (rt * inp) \div (rs + inp) = 0 THEN ZeroMin
      ELSE (rt * inp) \div (rs + inp)

=============================================================================
