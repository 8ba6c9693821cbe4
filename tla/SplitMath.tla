----------------------------- MODULE SplitMath -----------------------------
(***************************************************************************)
(* How a burn's input is divided between the legs of a vault               *)
(* configuration: programs/burner/src/split.rs, and the two TypeScript     *)
(* mirrors of it (quote-service/core.ts prices the legs with its copy,     *)
(* app/community-indexer.ts attributes burned SOL to legs with another).   *)
(* A weight vector is a sequence of one to MAX_SPLIT_TARGETS weights.      *)
(* The loops over at most four legs are written out leg by leg.            *)
(***************************************************************************)
EXTENDS Integers, Sequences

CONSTANT
  BPS_TOTAL   \* the whole, in basis points (10000 in the program)

ASSUME BpsAssumption == BPS_TOTAL \in Nat \ {0}

MAX_SPLIT_TARGETS == 4

\* Decoder: the leg count, each weight, and the sum of the weights.
ValidLegCount(weights) == Len(weights) \in 1 .. MAX_SPLIT_TARGETS

Weight(weights, i) == IF i \in DOMAIN weights THEN weights[i] ELSE 0

WeightSum(weights) ==
  Weight(weights, 1) + Weight(weights, 2) + Weight(weights, 3) + Weight(weights, 4)

ValidWeights(weights) ==
  /\ \A i \in DOMAIN weights : weights[i] # 0
  /\ WeightSum(weights) = BPS_TOTAL

WeightVector(weights) == weights \in Seq(Nat) /\ ValidLegCount(weights) /\ ValidWeights(weights)

\* The share of a leg that is not the final one.  The program never forms
\* total * bps: it takes quotient and remainder of the total first.
Share(total, bps) ==
  LET quotient  == total \div BPS_TOTAL
      remainder == total % BPS_TOTAL
  IN  quotient * bps + (remainder * bps) \div BPS_TOTAL

\* What the legs before leg i were given.
Allocated(total, weights, i) ==
  LET given(j) == IF j < i THEN Share(total, weights[j]) ELSE 0
  IN  given(1) + given(2) + given(3)

FaultyLegAmount(total, weights, i) == Share(total, weights[i])

\* The input of leg i; the final leg absorbs what the roundings left.
LegAmount(total, weights, i) ==
  IF i = Len(weights)
    THEN total - Allocated(total, weights, i)
    ELSE Share(total, weights[i])

\* A leg that rounds to nothing refuses the whole call.
DustLeg(total, weights) ==
  \E i \in DOMAIN weights : LegAmount(total, weights, i) = 0

-----------------------------------------------------------------------------
(* Properties of a total and an admitted weight vector *)

Part(total, weights, i) == IF i \in DOMAIN weights THEN LegAmount(total, weights, i) ELSE 0

\* The legs add up to the total exactly; the lamport postcondition of the burn
\* (6019) cannot hold otherwise.
LegsSumToTotal(total, weights) ==
  Part(total, weights, 1) + Part(total, weights, 2)
    + Part(total, weights, 3) + Part(total, weights, 4) = total

\* The final leg gets at least the share its weight names, so the checked
\* subtraction never fails, and at most one unit more per earlier leg.
FinalLegIsFair(total, weights) ==
  LET n == Len(weights)
  IN  /\ LegAmount(total, weights, n) >= Share(total, weights[n])
      /\ LegAmount(total, weights, n) <= Share(total, weights[n]) + (n - 1)

=============================================================================
