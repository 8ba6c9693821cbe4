---------------------------- MODULE VaultAmounts ----------------------------
(***************************************************************************)
(* The amounts of the vault page (app/src/pages/vault.tsx): the largest    *)
(* total that every leg's reference still prices, what of the balance may  *)
(* be burned, and what the max button fills in.                            *)
(***************************************************************************)
EXTENDS SplitMath

CONSTANT
  RENT_FLOOR   \* VAULT_RENT_FLOOR_LAMPORTS

ASSUME RentFloorAssumption == RENT_FLOOR \in Nat

Rounds == 8

\* Legs whose share of this total exceeds their cap.
OverLegs(total, caps, weights) == {i \in DOMAIN weights : LegAmount(total, weights, i) > caps[i]}

\* The largest total that leg i's cap allows when its share is not rounded.
Bound(caps, weights, i) == (caps[i] * BPS_TOTAL) \div weights[i]

SmallestBound(caps, weights) ==
  LET bounds == {Bound(caps, weights, i) : i \in DOMAIN weights}
  IN  CHOOSE b \in bounds : \A x \in bounds : b <= x

\* One correction: the first leg over its cap takes its excess off the total.
Corrected(total, caps, weights) ==
  LET over  == OverLegs(total, caps, weights)
      first == CHOOSE i \in over : \A j \in over : i <= j
      excess == LegAmount(total, weights, first) - caps[first]
  IN  IF total <= 0 \/ over = {} THEN total
      ELSE total - ((excess * BPS_TOTAL) \div weights[first] + 1)

\* capTotal: the bound, corrected at most eight times.
CapTotal(caps, weights) ==
  LET after[k \in 0 .. Rounds] ==
        IF k = 0 THEN SmallestBound(caps, weights) ELSE Corrected(after[k - 1], caps, weights)
  IN  IF after[Rounds] > 0 THEN after[Rounds] ELSE 0

Spendable(balance) == IF balance > RENT_FLOOR THEN balance - RENT_FLOOR ELSE 0

\* maxBurnNow
MaxBurnNow(balance, caps, weights) ==
  LET capped == CapTotal(caps, weights)
  IN  IF capped < Spendable(balance) THEN capped ELSE Spendable(balance)

-----------------------------------------------------------------------------
(* Properties *)

\* The total that is called the largest is within every leg's cap, although
\* the final leg absorbs the roundings of the others.  What the max button
\* offers of a smaller balance leaves the vault rent exempt, and exceeds a cap
\* by those roundings at most: the total is not monotonic in the final leg.
MaxBurnFits(balance, caps, weights) ==
  LET best  == CapTotal(caps, weights)
      offer == MaxBurnNow(balance, caps, weights)
      n     == Len(weights)
  IN  /\ OverLegs(best, caps, weights) = {}
      /\ offer > 0 => balance - offer >= RENT_FLOOR
      /\ \A i \in OverLegs(offer, caps, weights) :
           i = n /\ offer < best /\ LegAmount(offer, weights, n) < caps[n] + n

\* At most two corrections are needed, and they cost no more than the roundings that the
\* final leg may absorb, at that leg's weight.
OfferNearBest(caps, weights) ==
  LET n == Len(weights)
  IN  SmallestBound(caps, weights)
        <= CapTotal(caps, weights) + ((n - 1) * BPS_TOTAL) \div weights[n] + 1

=============================================================================
