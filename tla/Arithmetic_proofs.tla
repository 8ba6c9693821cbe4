-------------------------- MODULE Arithmetic_proofs --------------------------
(***************************************************************************)
(* What holds of the division of an input, of the amounts and of the       *)
(* floors for every input: every whole, reserve, price, fee, tier table,   *)
(* bin, cap and weight vector.                                             *)
(***************************************************************************)
EXTENDS MCArithmetic, WellFoundedInduction, TLAPS

-----------------------------------------------------------------------------
(* Quotients *)

\* Division with remainder, as the solver needs it.
LEMMA DivMod ==
  ASSUME NEW m \in Nat, NEW d \in Nat \ {0}
  PROVE  /\ m \div d \in Nat
         /\ m % d \in 0 .. d - 1
         /\ m = d * (m \div d) + (m % d)
OBVIOUS

\* A larger factor makes a larger product.
LEMMA TimesMonotone ==
  ASSUME NEW k \in Nat, NEW m \in Int, NEW n \in Int, m <= n
  PROVE  k * m <= k * n /\ k * m \in Int /\ k * n \in Int
OBVIOUS

\* There is one quotient.
LEMMA OneQuotient ==
  ASSUME NEW m \in Nat, NEW d \in Nat \ {0}, NEW q \in Int, d * q <= m, m < d * q + d
  PROVE  m \div d = q
<1> DEFINE z == m \div d
<1>1. z \in Nat /\ d * z <= m /\ m < d * z + d
  BY DivMod
<1> HIDE DEF z
<1>2. ~ z < q
  <2> SUFFICES ASSUME z + 1 <= q PROVE FALSE
    BY <1>1
  <2>1. d * (z + 1) <= d * q
    BY <1>1, TimesMonotone
  <2>2. d * (z + 1) = d * z + d
    BY <1>1
  <2> QED BY <2>1, <2>2, <1>1
<1>3. ~ q < z
  <2> SUFFICES ASSUME q + 1 <= z PROVE FALSE
    BY <1>1
  <2>1. d * (q + 1) <= d * z
    BY <1>1, TimesMonotone
  <2>2. d * (q + 1) = d * q + d
    OBVIOUS
  <2> QED BY <2>1, <2>2, <1>1
<1> QED BY <1>1, <1>2, <1>3 DEF z

\* Division keeps an order, and takes whole multiples of the divisor out.
LEMMA DivMonotone ==
  ASSUME NEW m \in Nat, NEW n \in Nat, NEW d \in Nat \ {0}, m <= n
  PROVE  m \div d <= n \div d
<1>1. /\ m \div d \in Nat /\ d * (m \div d) <= m
      /\ n \div d \in Nat /\ n < d * (n \div d) + d
  BY DivMod
<1> DEFINE u == m \div d
           v == n \div d
<1>2. u \in Nat /\ v \in Nat /\ d * u <= m /\ n < d * v + d
  BY <1>1
<1> HIDE DEF u, v
<1>3. ~ v + 1 <= u
  <2> SUFFICES ASSUME v + 1 <= u PROVE FALSE
    OBVIOUS
  <2>1. d * (v + 1) <= d * u
    BY <1>2, TimesMonotone
  <2>2. d * (v + 1) = d * v + d
    BY <1>2
  <2> QED BY <2>1, <2>2, <1>2
<1>4. u <= v
  BY <1>2, <1>3
<1> QED BY <1>4 DEF u, v

LEMMA DivShift ==
  ASSUME NEW m \in Nat, NEW d \in Nat \ {0}, NEW k \in Nat
  PROVE  (d * k + m) \div d = k + m \div d
<1> DEFINE u == m \div d
<1>1. u \in Nat /\ d * u <= m /\ m < d * u + d
  BY DivMod
<1> HIDE DEF u
<1>2. d * (k + u) = d * k + d * u /\ d * k \in Nat /\ d * u \in Nat
  BY <1>1
<1>3. d * (k + u) <= d * k + m /\ d * k + m < d * (k + u) + d
  BY <1>1, <1>2
<1>4. d * k + m \in Nat /\ k + u \in Int
  BY <1>1, <1>2
<1>5. (d * k + m) \div d = k + u
  BY <1>3, <1>4, OneQuotient
<1> QED BY <1>5 DEF u

\* A quotient below k comes of a dividend below k divisors.
LEMMA DivBelow ==
  ASSUME NEW m \in Nat, NEW d \in Nat \ {0}, NEW k \in Nat
  PROVE  m \div d < k <=> m < d * k
<1> DEFINE u == m \div d
<1>1. u \in Nat /\ d * u <= m /\ m < d * u + d
  BY DivMod
<1> HIDE DEF u
<1>2. ASSUME u < k PROVE m < d * k
  <2>1. d * (u + 1) <= d * k
    BY <1>1, <1>2, TimesMonotone
  <2>2. d * (u + 1) = d * u + d
    BY <1>1
  <2> QED BY <2>1, <2>2, <1>1
<1>3. ASSUME k <= u PROVE ~ m < d * k
  <2>1. d * k <= d * u
    BY <1>1, <1>3, TimesMonotone
  <2> QED BY <2>1, <1>1
<1>4. u < k <=> m < d * k
  BY <1>1, <1>2, <1>3
<1> QED BY <1>4 DEF u

-----------------------------------------------------------------------------
(* The division of the input between legs, for every whole, every total and *)
(* every admitted weight vector                                             *)

\* Division with remainder, as the solver needs it.
LEMMA DivModFacts ==
  ASSUME NEW a \in Nat
  PROVE  /\ a \div BPS_TOTAL \in Nat
         /\ a % BPS_TOTAL \in 0 .. BPS_TOTAL - 1
         /\ a = BPS_TOTAL * (a \div BPS_TOTAL) + (a % BPS_TOTAL)
BY BpsAssumption

\* A share is a natural number bounded by the exact quotient, from which it
\* differs by less than one unit: BPS * Share <= total * bps < BPS * (Share + 1).
LEMMA ShareBounds ==
  ASSUME NEW total \in Nat, NEW bps \in Nat
  PROVE  /\ Share(total, bps) \in Nat
         /\ BPS_TOTAL * Share(total, bps) <= total * bps
         /\ total * bps < BPS_TOTAL * (Share(total, bps) + 1)
<1> DEFINE q == total \div BPS_TOTAL
           r == total % BPS_TOTAL
           s == (r * bps) \div BPS_TOTAL
           t == (r * bps) % BPS_TOTAL
<1>1. /\ q \in Nat /\ r \in Nat /\ total = BPS_TOTAL * q + r
  BY DivModFacts, BpsAssumption
<1>2. r * bps \in Nat
  BY <1>1
<1>3. /\ s \in Nat /\ t \in 0 .. BPS_TOTAL - 1 /\ r * bps = BPS_TOTAL * s + t
  <2> HIDE DEF r
  <2> QED BY <1>2, DivModFacts DEF s, t
<1>4. Share(total, bps) = q * bps + s
  BY DEF Share
<1>5. q * bps \in Nat
  BY <1>1
<1>6. total * bps = BPS_TOTAL * (q * bps) + r * bps
  <2> HIDE DEF q, r
  <2> QED BY <1>1, BpsAssumption
<1>7. total * bps = BPS_TOTAL * (q * bps + s) + t
  <2> HIDE DEF q, r, s, t
  <2> QED BY <1>1, <1>3, <1>5, <1>6, BpsAssumption
<1> HIDE DEF q, r, s, t
<1>8. q * bps + s \in Nat
  BY <1>3, <1>5
<1>9. BPS_TOTAL * (q * bps + s + 1) = BPS_TOTAL * (q * bps + s) + BPS_TOTAL
  BY <1>8, BpsAssumption
<1>10. BPS_TOTAL * (q * bps + s) \in Nat
  BY <1>8, BpsAssumption
<1> QED BY <1>3, <1>4, <1>7, <1>8, <1>9, <1>10, BpsAssumption

\* The program's overflow-free form of the share is the exact floor.
THEOREM ShareIsFloor ==
  ASSUME NEW total \in Nat, NEW bps \in Nat
  PROVE  Share(total, bps) = (total * bps) \div BPS_TOTAL
<1> DEFINE p == total * bps
           d == p \div BPS_TOTAL
           m == p % BPS_TOTAL
<1>1. p \in Nat
  OBVIOUS
<1>2. d \in Nat /\ m \in 0 .. BPS_TOTAL - 1 /\ p = BPS_TOTAL * d + m
  <2> HIDE DEF p
  <2> QED BY <1>1, DivModFacts DEF d, m
<1>3. /\ Share(total, bps) \in Nat
      /\ BPS_TOTAL * Share(total, bps) <= p
      /\ p < BPS_TOTAL * (Share(total, bps) + 1)
  BY ShareBounds
<1> HIDE DEF p, d, m
<1>4. ~ Share(total, bps) > d
  <2> SUFFICES ASSUME Share(total, bps) >= d + 1 PROVE FALSE
    BY <1>2, <1>3
  <2>1. BPS_TOTAL * Share(total, bps) >= BPS_TOTAL * (d + 1)
    BY <1>2, <1>3, BpsAssumption
  <2> QED BY <2>1, <1>1, <1>2, <1>3, BpsAssumption
<1>5. ~ Share(total, bps) < d
  <2> SUFFICES ASSUME Share(total, bps) + 1 <= d PROVE FALSE
    BY <1>2, <1>3
  <2>1. BPS_TOTAL * (Share(total, bps) + 1) <= BPS_TOTAL * d
    BY <1>2, <1>3, BpsAssumption
  <2> QED BY <2>1, <1>1, <1>2, <1>3, BpsAssumption
<1> QED BY <1>2, <1>3, <1>4, <1>5 DEF d, p

LEMMA WeightCases ==
  ASSUME NEW weights, WeightVector(weights)
  PROVE  /\ Len(weights) \in {1, 2, 3, 4}
         /\ DOMAIN weights = 1 .. Len(weights)
         /\ \A i \in 1 .. Len(weights) : weights[i] \in Nat
BY DEF WeightVector, ValidLegCount, MAX_SPLIT_TARGETS

\* The legs of every admitted configuration add up to the caller's total.
THEOREM LegsSum ==
  ASSUME NEW total \in Nat, NEW weights, WeightVector(weights)
  PROVE  LegsSumToTotal(total, weights)
<1>1. /\ Len(weights) \in {1, 2, 3, 4}
      /\ DOMAIN weights = 1 .. Len(weights)
      /\ \A i \in 1 .. Len(weights) : weights[i] \in Nat
  BY WeightCases
<1>2. \A i \in 1 .. Len(weights) : Share(total, weights[i]) \in Nat
  BY <1>1, ShareBounds
<1>3. CASE Len(weights) = 1
  BY <1>1, <1>2, <1>3 DEF LegsSumToTotal, Part, LegAmount, Allocated
<1>4. CASE Len(weights) = 2
  BY <1>1, <1>2, <1>4 DEF LegsSumToTotal, Part, LegAmount, Allocated
<1>5. CASE Len(weights) = 3
  BY <1>1, <1>2, <1>5 DEF LegsSumToTotal, Part, LegAmount, Allocated
<1>6. CASE Len(weights) = 4
  BY <1>1, <1>2, <1>6 DEF LegsSumToTotal, Part, LegAmount, Allocated
<1> QED BY <1>1, <1>3, <1>4, <1>5, <1>6

\* Legs of weight `taken` together were given `given`, which is their part of
\* the total rounded down by at most k units.
Within(total, given, taken, k) ==
  /\ given \in Nat /\ taken \in Nat /\ k \in Nat
  /\ BPS_TOTAL * given <= total * taken
  /\ total * taken <= BPS_TOTAL * (given + k)

LEMMA ShareWithin ==
  ASSUME NEW total \in Nat, NEW bps \in Nat
  PROVE  Within(total, Share(total, bps), bps, 1)
<1>1. /\ Share(total, bps) \in Nat
      /\ BPS_TOTAL * Share(total, bps) <= total * bps
      /\ total * bps < BPS_TOTAL * (Share(total, bps) + 1)
  BY ShareBounds
<1>2. total * bps \in Nat /\ BPS_TOTAL * (Share(total, bps) + 1) \in Nat
  BY <1>1, BpsAssumption
<1> QED BY <1>1, <1>2 DEF Within

LEMMA WithinAdds ==
  ASSUME NEW total \in Nat, NEW g1, NEW t1, NEW k1, NEW g2, NEW t2, NEW k2,
         Within(total, g1, t1, k1), Within(total, g2, t2, k2)
  PROVE  Within(total, g1 + g2, t1 + t2, k1 + k2)
<1> USE DEF Within
<1>1. BPS_TOTAL * (g1 + g2) = BPS_TOTAL * g1 + BPS_TOTAL * g2
  BY BpsAssumption
<1>2. total * (t1 + t2) = total * t1 + total * t2
  OBVIOUS
<1>3. BPS_TOTAL * ((g1 + g2) + (k1 + k2)) = BPS_TOTAL * (g1 + k1) + BPS_TOTAL * (g2 + k2)
  BY BpsAssumption
<1>4. /\ BPS_TOTAL * g1 \in Nat /\ BPS_TOTAL * g2 \in Nat
      /\ total * t1 \in Nat /\ total * t2 \in Nat
      /\ BPS_TOTAL * (g1 + k1) \in Nat /\ BPS_TOTAL * (g2 + k2) \in Nat
  BY BpsAssumption
<1> QED BY <1>1, <1>2, <1>3, <1>4

\* What is left after legs that were given their parts is the last leg's share
\* up to as many units as those legs lost.
LEMMA RestIsFair ==
  ASSUME NEW total \in Nat, NEW given, NEW taken, NEW k, NEW last \in Nat,
         Within(total, given, taken, k),
         taken + last = BPS_TOTAL
  PROVE  /\ total - given >= Share(total, last)
         /\ total - given <= Share(total, last) + k
<1> USE DEF Within
<1> DEFINE s == Share(total, last)
           tt == total * taken
           tl == total * last
<1>1. s \in Nat /\ BPS_TOTAL * s <= tl /\ tl < BPS_TOTAL * (s + 1)
  BY ShareBounds
<1>2. tt \in Nat /\ tl \in Nat /\ tt + tl = BPS_TOTAL * total
  <2>1. total * (taken + last) = total * taken + total * last
    OBVIOUS
  <2>2. total * (taken + last) = BPS_TOTAL * total
    BY BpsAssumption
  <2> QED BY <2>1, <2>2
<1>3. /\ given \in Nat /\ k \in Nat
      /\ BPS_TOTAL * given <= tt /\ tt <= BPS_TOTAL * (given + k)
  OBVIOUS
<1> HIDE DEF s, tt, tl, Within
<1>4. total - given >= s
  <2> SUFFICES ASSUME total + 1 <= given + s PROVE FALSE
    BY <1>1, <1>3
  <2>1. BPS_TOTAL * (total + 1) <= BPS_TOTAL * (given + s)
    BY <1>1, <1>3, BpsAssumption
  <2>2. /\ BPS_TOTAL * (total + 1) = BPS_TOTAL * total + BPS_TOTAL
        /\ BPS_TOTAL * (given + s) = BPS_TOTAL * given + BPS_TOTAL * s
    BY <1>1, <1>3, BpsAssumption
  <2> QED BY <2>1, <2>2, <1>1, <1>2, <1>3, BpsAssumption
<1>5. total - given <= s + k
  <2> SUFFICES ASSUME given + s + k + 1 <= total PROVE FALSE
    BY <1>1, <1>3
  <2>1. BPS_TOTAL * (given + s + k + 1) <= BPS_TOTAL * total
    BY <1>1, <1>3, BpsAssumption
  <2>2. BPS_TOTAL * (given + s + k + 1) = BPS_TOTAL * (given + k) + BPS_TOTAL * (s + 1)
    BY <1>1, <1>3, BpsAssumption
  <2> QED BY <2>1, <2>2, <1>1, <1>2, <1>3, BpsAssumption
<1> QED BY <1>4, <1>5 DEF s

\* What the legs before the final one are given together.
LEMMA AllocatedWithin ==
  ASSUME NEW total \in Nat, NEW weights, WeightVector(weights)
  PROVE  /\ Within(total, Allocated(total, weights, Len(weights)), BPS_TOTAL - weights[Len(weights)], Len(weights) - 1)
         /\ weights[Len(weights)] \in 1 .. BPS_TOTAL
<1> DEFINE n == Len(weights)
           w(i) == weights[i]
           s(i) == Share(total, weights[i])
<1>1. /\ n \in {1, 2, 3, 4}
      /\ DOMAIN weights = 1 .. n
      /\ \A i \in 1 .. n : w(i) \in Nat
  BY WeightCases
<1>2. \A i \in 1 .. n : Within(total, s(i), w(i), 1) /\ s(i) \in Nat
  BY <1>1, ShareWithin, ShareBounds
<1>3. WeightSum(weights) = BPS_TOTAL /\ \A i \in 1 .. n : w(i) # 0
  BY <1>1 DEF WeightVector, ValidWeights
<1>4. CASE n = 1
  <2>1. Allocated(total, weights, n) = 0 /\ w(1) = BPS_TOTAL /\ w(1) \in Nat /\ w(1) # 0
    BY <1>1, <1>3, <1>4 DEF Allocated, WeightSum, Weight
  <2>2. Within(total, 0, 0, 0)
    BY BpsAssumption DEF Within
  <2>3. BPS_TOTAL - w(1) = 0 /\ n - 1 = 0 /\ w(1) \in 1 .. BPS_TOTAL
    BY <2>1, <1>4, BpsAssumption
  <2> QED BY <2>1, <2>2, <2>3, <1>4
<1>5. CASE n = 2
  <2>1. /\ Allocated(total, weights, n) = s(1)
        /\ w(1) + w(2) = BPS_TOTAL /\ w(1) \in Nat /\ w(2) \in Nat /\ w(2) # 0
    BY <1>1, <1>2, <1>3, <1>5 DEF Allocated, WeightSum, Weight
  <2>2. Within(total, s(1), w(1), 1)
    BY <1>2, <1>5
  <2>3. BPS_TOTAL - w(2) = w(1) /\ n - 1 = 1 /\ w(2) \in 1 .. BPS_TOTAL
    BY <2>1, <1>5, BpsAssumption
  <2> QED BY <2>1, <2>2, <2>3, <1>5
<1>6. CASE n = 3
  <2>1. /\ Allocated(total, weights, n) = s(1) + s(2)
        /\ w(1) + w(2) + w(3) = BPS_TOTAL /\ w(1) \in Nat /\ w(2) \in Nat /\ w(3) \in Nat /\ w(3) # 0
    BY <1>1, <1>2, <1>3, <1>6 DEF Allocated, WeightSum, Weight
  <2>2. Within(total, s(1), w(1), 1) /\ Within(total, s(2), w(2), 1)
    BY <1>2, <1>6
  <2> HIDE DEF s, w
  <2>3. Within(total, s(1) + s(2), w(1) + w(2), 1 + 1)
    BY <2>2, WithinAdds
  <2>4. BPS_TOTAL - w(3) = w(1) + w(2) /\ n - 1 = 1 + 1 /\ w(3) \in 1 .. BPS_TOTAL
    BY <2>1, <1>6, BpsAssumption
  <2> QED BY <2>1, <2>3, <2>4, <1>6 DEF w
<1>7. CASE n = 4
  <2>1. /\ Allocated(total, weights, n) = s(1) + s(2) + s(3)
        /\ w(1) + w(2) + w(3) + w(4) = BPS_TOTAL
        /\ w(1) \in Nat /\ w(2) \in Nat /\ w(3) \in Nat /\ w(4) \in Nat /\ w(4) # 0
    BY <1>1, <1>2, <1>3, <1>7 DEF Allocated, WeightSum, Weight
  <2>2. /\ Within(total, s(1), w(1), 1) /\ Within(total, s(2), w(2), 1)
        /\ Within(total, s(3), w(3), 1)
    BY <1>2, <1>7
  <2> HIDE DEF s, w
  <2>3. Within(total, s(1) + s(2), w(1) + w(2), 1 + 1)
    BY <2>2, WithinAdds
  <2>4. Within(total, s(1) + s(2) + s(3), w(1) + w(2) + w(3), 1 + 1 + 1)
    BY <2>2, <2>3, WithinAdds
  <2>5. BPS_TOTAL - w(4) = w(1) + w(2) + w(3) /\ n - 1 = 1 + 1 + 1 /\ w(4) \in 1 .. BPS_TOTAL
    BY <2>1, <1>7, BpsAssumption
  <2> QED BY <2>1, <2>4, <2>5, <1>7 DEF w
<1> QED BY <1>1, <1>4, <1>5, <1>6, <1>7

\* Neither the subtraction for the final leg can underflow nor can the rounding
\* favour it by more than one unit per earlier leg.
THEOREM FinalLegFair ==
  ASSUME NEW total \in Nat, NEW weights, WeightVector(weights)
  PROVE  FinalLegIsFair(total, weights)
<1> DEFINE n == Len(weights)
           given == Allocated(total, weights, n)
           last == weights[n]
           taken == BPS_TOTAL - last
<1>1. Within(total, given, taken, n - 1) /\ last \in 1 .. BPS_TOTAL
  BY AllocatedWithin
<1>2. last \in Nat /\ taken + last = BPS_TOTAL
  BY <1>1, BpsAssumption
<1>3. LegAmount(total, weights, n) = total - given
  BY DEF LegAmount
<1> HIDE DEF given, taken, last
<1>4. total - given >= Share(total, last) /\ total - given <= Share(total, last) + (n - 1)
  BY <1>1, <1>2, RestIsFair
<1> QED BY <1>3, <1>4 DEF FinalLegIsFair, last

-----------------------------------------------------------------------------
(* Loops.  The recursive functions of the model call themselves last, so a
   value is what the loop ends with when the states are followed one by one. *)

\* Every inhabited set of natural numbers has a least one.
LEMMA LeastNatural ==
  ASSUME NEW S, S \subseteq Nat, S # {}
  PROVE  \E d \in S : \A e \in S : d <= e
<1>1. PICK d \in S : \A e \in S : ~ (<<e, d>> \in OpToRel(<, Nat))
  BY NatLessThanWellFounded, WFMin, Zenon
<1>2. ASSUME NEW e \in S PROVE d <= e
  <2>1. ~ (e < d)
    BY <1>1, <1>2, Zenon DEF OpToRel
  <2> QED BY <2>1
<1> QED BY <1>2

\* Strong induction, on a set of numbers.
LEMMA EveryNatural ==
  ASSUME NEW P \in SUBSET Nat, \A n \in Nat : (\A k \in 0 .. n - 1 : k \in P) => n \in P
  PROVE  P = Nat
<1> SUFFICES ASSUME Nat \ P # {} PROVE FALSE
  OBVIOUS
<1>1. PICK d \in Nat \ P : \A e \in Nat \ P : d <= e
  <2>1. Nat \ P \subseteq Nat
    OBVIOUS
  <2> QED BY <2>1, LeastNatural
<1>2. \A k \in 0 .. d - 1 : k \in P
  BY <1>1
<1> QED BY <1>1, <1>2

\* f says where the loop ends that goes from s to nxt[s] until it stops.
Loops(f, S, stop, val, nxt) == f = [s \in S |-> IF s \in stop THEN val[s] ELSE f[nxt[s]]]

\* A loop that goes from state to state until it stops is a function: some
\* function satisfies its recursive definition.
LEMMA LoopExists ==
  ASSUME NEW S, NEW stop \in SUBSET S, NEW val, NEW nxt \in [S -> S]
  PROVE  \E f : Loops(f, S, stop, val, nxt)
<1> DEFINE Path(s, n, p) == /\ p \in [0 .. n -> S] /\ p[0] = s /\ p[n] \in stop
                            /\ \A i \in 0 .. n - 1 : p[i] \notin stop /\ p[i + 1] = nxt[p[i]]
           Ends(s) == {e \in stop : \E n \in Nat : \E p \in [0 .. n -> S] : Path(s, n, p) /\ p[n] = e}
           f == [s \in S |-> val[CHOOSE e \in S : e \in Ends(s)]]
<1>1. ASSUME NEW s \in stop PROVE Ends(s) = {s}
  <2>1. s \in Ends(s)
    <3> DEFINE p == [i \in 0 .. 0 |-> s]
    <3>1. p \in [0 .. 0 -> S] /\ p[0] = s /\ \A i \in 0 .. 0 - 1 : FALSE
      OBVIOUS
    <3>2. Path(s, 0, p)
      BY <3>1
    <3> QED BY <3>1, <3>2
  <2>2. ASSUME NEW e \in Ends(s) PROVE e = s
    <3>0. PICK n \in Nat : \E p \in [0 .. n -> S] : Path(s, n, p) /\ p[n] = e
      OBVIOUS
    <3>1. PICK p \in [0 .. n -> S] : Path(s, n, p) /\ p[n] = e
      BY <3>0
    <3>2. n = 0
      <4> SUFFICES ASSUME n # 0 PROVE FALSE
        OBVIOUS
      <4>1. 0 \in 0 .. n - 1
        BY SMT
      <4> QED BY <3>1, <4>1
    <3> QED BY <3>1, <3>2
  <2> QED BY <2>1, <2>2
<1>2. ASSUME NEW s \in S \ stop PROVE Ends(s) = Ends(nxt[s])
  <2>1. ASSUME NEW e \in Ends(s) PROVE e \in Ends(nxt[s])
    <3>0. PICK n \in Nat : \E p \in [0 .. n -> S] : Path(s, n, p) /\ p[n] = e
      OBVIOUS
    <3>1. PICK p \in [0 .. n -> S] : Path(s, n, p) /\ p[n] = e
      BY <3>0
    <3>2. n # 0
      BY <3>1
    <3>3. PICK k \in Nat : n = k + 1
      <4>1. n - 1 \in Nat /\ n = (n - 1) + 1
        BY <3>2
      <4> QED BY <4>1
    <3> DEFINE g == [i \in 0 .. k |-> p[i + 1]]
    <3>4. /\ g \in [0 .. k -> S] /\ g[k] = p[n] /\ g[0] = p[1]
          /\ \A i \in 0 .. k - 1 : g[i] = p[i + 1] /\ g[i + 1] = p[i + 2] /\ i + 1 \in 0 .. n - 1 /\ (i + 1) + 1 = i + 2
      BY <3>3
    <3>5. p[1] = nxt[s]
      <4>1. 0 \in 0 .. n - 1 /\ 0 + 1 = 1
        BY <3>3
      <4> QED BY <3>1, <4>1
    <3>6. \A i \in 0 .. k - 1 : g[i] \notin stop /\ g[i + 1] = nxt[g[i]]
      <4> TAKE i \in 0 .. k - 1
      <4>1. g[i] = p[i + 1] /\ g[i + 1] = p[i + 2] /\ i + 1 \in 0 .. n - 1 /\ (i + 1) + 1 = i + 2
        BY <3>4
      <4>2. p[i + 1] \notin stop /\ p[(i + 1) + 1] = nxt[p[i + 1]]
        BY <3>1, <4>1
      <4> HIDE DEF g
      <4> QED BY <4>1, <4>2
    <3> HIDE DEF g
    <3>7. Path(nxt[s], k, g) /\ g[k] = e
      BY <3>1, <3>4, <3>5, <3>6
    <3> QED BY <3>4, <3>7
  <2>2. ASSUME NEW e \in Ends(nxt[s]) PROVE e \in Ends(s)
    <3>0. PICK k \in Nat : \E p \in [0 .. k -> S] : Path(nxt[s], k, p) /\ p[k] = e
      OBVIOUS
    <3>1. PICK p \in [0 .. k -> S] : Path(nxt[s], k, p) /\ p[k] = e
      BY <3>0
    <3> DEFINE n == k + 1
               g == [i \in 0 .. n |-> IF i = 0 THEN s ELSE p[i - 1]]
    <3>2. /\ n \in Nat /\ g \in [0 .. n -> S] /\ g[0] = s /\ g[n] = p[k]
          /\ \A i \in 0 .. n - 1 : g[i + 1] = p[i] /\ (i # 0 => g[i] = p[i - 1] /\ i - 1 \in 0 .. k - 1 /\ (i - 1) + 1 = i)
      OBVIOUS
    <3>3. \A i \in 0 .. n - 1 : g[i] \notin stop /\ g[i + 1] = nxt[g[i]]
      <4> TAKE i \in 0 .. n - 1
      <4>1. CASE i = 0
        <5>1. g[i] = s /\ g[i + 1] = p[0] /\ p[0] = nxt[s]
          <6>1. g[i + 1] = p[i]
            BY <3>2
          <6> HIDE DEF g
          <6> QED BY <6>1, <3>1, <3>2, <4>1
        <5> HIDE DEF g
        <5> QED BY <5>1
      <4>2. CASE i # 0
        <5>1. g[i] = p[i - 1] /\ i - 1 \in 0 .. k - 1 /\ (i - 1) + 1 = i /\ g[i + 1] = p[i]
          BY <3>2, <4>2
        <5>2. p[i - 1] \notin stop /\ p[(i - 1) + 1] = nxt[p[i - 1]]
          BY <3>1, <5>1
        <5> HIDE DEF g
        <5> QED BY <5>1, <5>2
      <4> QED BY <4>1, <4>2
    <3> HIDE DEF g, n
    <3>4. Path(s, n, g) /\ g[n] = e
      BY <3>1, <3>2, <3>3
    <3> QED BY <3>1, <3>2, <3>4
  <2> HIDE DEF Ends
  <2> QED BY <2>1, <2>2
<1> HIDE DEF Ends
<1>3. f = [s \in S |-> IF s \in stop THEN val[s] ELSE f[nxt[s]]]
  <2>1. ASSUME NEW s \in stop PROVE f[s] = val[s]
    <3>1. (CHOOSE e \in S : e \in Ends(s)) = s
      BY <1>1
    <3> QED BY <3>1
  <2>2. ASSUME NEW s \in S \ stop PROVE f[s] = f[nxt[s]]
    <3>1. Ends(s) = Ends(nxt[s]) /\ nxt[s] \in S
      BY <1>2
    <3> QED BY <3>1
  <2>3. \A s \in S : f[s] = IF s \in stop THEN val[s] ELSE f[nxt[s]]
    BY <2>1, <2>2
  <2>4. f = [s \in S |-> f[s]]
    OBVIOUS
  <2> HIDE DEF f
  <2> QED BY <2>3, <2>4
<1> HIDE DEF f
<1>4. Loops(f, S, stop, val, nxt)
  BY <1>3 DEF Loops
<1> QED BY <1>4, Zenon

-----------------------------------------------------------------------------
(* Tier tables *)

\* A table of tiers.
TierTable(tiers) == Len(tiers) \in Nat /\ DOMAIN tiers = 1 .. Len(tiers) /\ \A i \in 1 .. Len(tiers) : tiers[i].from \in Nat

\* The k-th is the last tier at or below the market cap.
IsLastReached(tiers, cap, k) ==
  /\ k \in 0 .. Len(tiers)
  /\ \A i \in 1 .. Len(tiers) : i <= k <=> Reaches(cap, tiers[i])

Up == [i \in Nat |-> i + 1]
Before == [i \in Nat |-> i - 1]

\* Nothing stops a scan between i and m.
NoStop(stop, i, m) == \A k \in i .. m - 1 : k \notin stop

\* What a scan stops at, when it goes up from i.
LEMMA ScanStops ==
  ASSUME NEW stop, NEW val, NEW f, Loops(f, Nat, stop, val, Up),
         NEW m \in Nat, m \in stop, NEW i \in 0 .. m, NoStop(stop, i, m)
  PROVE  f[i] = val[m]
<1> DEFINE P == {n \in Nat : n <= m - i => f[m - n] = val[m]}
<1>0. m \in Nat /\ \A k \in Nat : f[k] = IF k \in stop THEN val[k] ELSE f[k + 1]
  BY DEF Loops, Up
<1>1. ASSUME NEW n \in Nat, \A k \in 0 .. n - 1 : k \in P PROVE n \in P
  <2> SUFFICES ASSUME n <= m - i PROVE f[m - n] = val[m]
    OBVIOUS
  <2>1. CASE n = 0
    BY <1>0, <2>1
  <2>2. CASE n # 0
    <3>1. n - 1 \in 0 .. n - 1 /\ n - 1 <= m - i /\ m - n \in Nat /\ m - n \in i .. m - 1 /\ (m - n) + 1 = m - (n - 1)
      BY <1>0, <2>2
    <3>2. f[m - (n - 1)] = val[m]
      BY <1>1, <3>1
    <3>3. f[m - n] = f[(m - n) + 1]
      BY <1>0, <3>1 DEF NoStop
    <3> QED BY <3>1, <3>2, <3>3
  <2> QED BY <2>1, <2>2
<1>2. P = Nat
  <2> HIDE DEF P
  <2>1. P \in SUBSET Nat
    BY DEF P
  <2> QED BY <1>1, <2>1, EveryNatural
<1>3. m - i \in Nat /\ m - (m - i) = i /\ m - i <= m - i
  BY <1>0
<1>4. m - i \in P
  BY <1>2, <1>3
<1> QED BY <1>3, <1>4

\* The scan of the quoting service finds it ...
MirrorStops(tiers, cap) == {i \in Nat : i > Len(tiers) \/ tiers[i].from > cap}

LEMMA MirrorFinds ==
  ASSUME NEW tiers, TierTable(tiers), NEW cap \in Nat, NEW k, IsLastReached(tiers, cap, k)
  PROVE  MirrorTier(tiers, cap) = k
<1> DEFINE Scans(f) == f = [i \in Nat |-> IF i > Len(tiers) \/ tiers[i].from > cap THEN i - 1 ELSE f[i + 1]]
           stop == MirrorStops(tiers, cap)
           scan == CHOOSE f : Scans(f)
<1>1. MirrorTier(tiers, cap) = scan[1]
  BY Zenon DEF MirrorTier
<1>2. stop \in SUBSET Nat /\ Up \in [Nat -> Nat]
  BY DEF MirrorStops, Up
<1>3. ASSUME NEW f PROVE Loops(f, Nat, stop, Before, Up) <=> Scans(f)
  BY DEF MirrorStops, Loops, Before, Up
<1>4. Loops(scan, Nat, stop, Before, Up)
  <2> HIDE DEF stop, Scans
  <2>1. \E f : Loops(f, Nat, stop, Before, Up)
    BY <1>2, LoopExists
  <2>2. Scans(scan)
    BY <1>3, <2>1, Zenon
  <2> QED BY <1>3, <2>2, Zenon
<1>5. k + 1 \in Nat /\ k + 1 \in stop /\ 1 \in 0 .. k + 1 /\ Before[k + 1] = k
  BY DEF MirrorStops, Before, TierTable, IsLastReached, Reaches
<1>6. NoStop(stop, 1, k + 1)
  BY DEF NoStop, MirrorStops, TierTable, IsLastReached, Reaches
<1> HIDE DEF stop, scan
<1>7. scan[1] = Before[k + 1]
  BY <1>4, <1>5, <1>6, ScanStops
<1> QED BY <1>1, <1>5, <1>7

\* ... so does that of the curve adapter, which refuses a table of more than
\* 32 tiers and looks for one that descends on its way ...
CurveStops(tiers, cap) ==
  {i \in Nat : i > Len(tiers) \/ (i > 1 /\ tiers[i].from < tiers[i - 1].from) \/ tiers[i].from > cap}

CurveEnds(tiers) ==
  [i \in Nat |-> IF i <= Len(tiers) /\ i > 1 /\ tiers[i].from < tiers[i - 1].from THEN -1 ELSE i - 1]

LEMMA CurveFinds ==
  ASSUME NEW tiers, TierTable(tiers), Sorted(tiers), Len(tiers) <= 32,
         NEW cap \in Nat, NEW k, IsLastReached(tiers, cap, k)
  PROVE  CurveTier(tiers, cap) = k
<1> DEFINE Scans(f) == f = [i \in Nat |-> IF i > Len(tiers) THEN i - 1
                              ELSE IF i > 1 /\ tiers[i].from < tiers[i - 1].from THEN -1
                              ELSE IF tiers[i].from > cap THEN i - 1 ELSE f[i + 1]]
           stop == CurveStops(tiers, cap)
           ends == CurveEnds(tiers)
           scan == CHOOSE f : Scans(f)
<1>0. Len(tiers) \in Nat
  BY DEF TierTable
<1>1. CurveTier(tiers, cap) = scan[1]
  <2>1. ~ Len(tiers) > 32
    BY <1>0
  <2> QED BY <2>1, Zenon DEF CurveTier
<1>2. stop \in SUBSET Nat /\ Up \in [Nat -> Nat]
  BY DEF CurveStops, Up
<1>3. ASSUME NEW f PROVE Loops(f, Nat, stop, ends, Up) <=> Scans(f)
  <2>1. ASSUME NEW i \in Nat
        PROVE  (IF i \in stop THEN ends[i] ELSE f[Up[i]])
                 = (IF i > Len(tiers) THEN i - 1
                    ELSE IF i > 1 /\ tiers[i].from < tiers[i - 1].from THEN -1
                    ELSE IF tiers[i].from > cap THEN i - 1 ELSE f[i + 1])
    BY <1>0, <2>1 DEF CurveStops, CurveEnds, Up
  <2> HIDE DEF stop, ends
  <2> QED BY <2>1 DEF Loops
<1>4. Loops(scan, Nat, stop, ends, Up)
  <2> HIDE DEF stop, ends, Scans
  <2>1. \E f : Loops(f, Nat, stop, ends, Up)
    BY <1>2, LoopExists
  <2>2. Scans(scan)
    BY <1>3, <2>1, Zenon
  <2> QED BY <1>3, <2>2, Zenon
<1>5. \A i \in 2 .. Len(tiers) : tiers[i].from >= tiers[i - 1].from /\ tiers[i].from \in Nat /\ tiers[i - 1].from \in Nat
  BY DEF TierTable, Sorted
<1>6. k + 1 \in Nat /\ k + 1 \in stop /\ 1 \in 0 .. k + 1
  BY DEF CurveStops, TierTable, IsLastReached, Reaches
<1>7. ends[k + 1] = k
  BY <1>5 DEF CurveEnds, TierTable, IsLastReached
<1>8. NoStop(stop, 1, k + 1)
  BY <1>5 DEF NoStop, CurveStops, TierTable, IsLastReached, Reaches
<1> HIDE DEF stop, scan, ends
<1>9. scan[1] = ends[k + 1]
  BY <1>4, <1>6, <1>8, ScanStops
<1> QED BY <1>1, <1>7, <1>9

\* ... and so does the binary search of the program.
Ranges == Nat \X Nat
Narrowed == {range \in Ranges : range[1] >= range[2]}
Lower == [range \in Ranges |-> range[1]]
Half(tiers, cap) ==
  [range \in Ranges |->
     IF range[1] >= range[2] THEN range
     ELSE IF Reaches(cap, tiers[Middle(range[1], range[2])])
       THEN <<Middle(range[1], range[2]), range[2]>>
       ELSE <<range[1], Middle(range[1], range[2]) - 1>>]

LEMMA MiddleWithin ==
  ASSUME NEW lo \in Nat, NEW hi \in Nat, lo < hi
  PROVE  Middle(lo, hi) \in lo + 1 .. hi
BY DEF Middle

LEMMA HalfIsRange ==
  ASSUME NEW tiers, NEW cap
  PROVE  Half(tiers, cap) \in [Ranges -> Ranges]
<1>1. ASSUME NEW range \in Ranges PROVE Half(tiers, cap)[range] \in Ranges
  <2>1. range[1] \in Nat /\ range[2] \in Nat
    BY DEF Ranges
  <2>2. CASE range[1] >= range[2]
    BY <2>2 DEF Half
  <2>3. CASE ~ range[1] >= range[2]
    <3>1. Middle(range[1], range[2]) \in Nat /\ Middle(range[1], range[2]) - 1 \in Nat
      BY <2>1, <2>3, MiddleWithin
    <3> QED BY <2>1, <2>3, <3>1 DEF Half, Ranges
  <2> QED BY <2>2, <2>3
<1> QED BY <1>1 DEF Half

\* Between a tier that is reached and those that are not the search finds the
\* last reached one.
LEMMA SearchEnds ==
  ASSUME NEW tiers, TierTable(tiers), NEW cap \in Nat, NEW k, IsLastReached(tiers, cap, k),
         NEW f, Loops(f, Ranges, Narrowed, Lower, Half(tiers, cap)),
         NEW lo \in 1 .. Len(tiers), NEW hi \in 1 .. Len(tiers), lo <= k, k <= hi
  PROVE  f[<<lo, hi>>] = k
<1> DEFINE P == {d \in Nat : \A l \in 1 .. Len(tiers), h \in 1 .. Len(tiers) :
                                l <= k /\ k <= h /\ h - l = d => f[<<l, h>>] = k}
<1>0. Len(tiers) \in Nat /\ k \in Nat
  BY DEF TierTable, IsLastReached
<1>1. ASSUME NEW d \in Nat, \A e \in 0 .. d - 1 : e \in P PROVE d \in P
  <2> SUFFICES ASSUME NEW l \in 1 .. Len(tiers), NEW h \in 1 .. Len(tiers), l <= k, k <= h, h - l = d
               PROVE  f[<<l, h>>] = k
    OBVIOUS
  <2>1. <<l, h>> \in Ranges /\ <<l, h>>[1] = l /\ <<l, h>>[2] = h
    BY <1>0 DEF Ranges
  <2>2. CASE l >= h
    <3>1. f[<<l, h>>] = Lower[<<l, h>>] /\ Lower[<<l, h>>] = l
      BY <2>1, <2>2 DEF Loops, Narrowed, Lower
    <3> QED BY <2>2, <3>1, <1>0
  <2>3. CASE l < h
    <3>0. l \in Nat /\ h \in Nat
      BY <1>0
    <3>1. PICK m \in l + 1 .. h : m = Middle(l, h)
      BY <2>3, <3>0, MiddleWithin
    <3>2. ~ <<l, h>>[1] >= <<l, h>>[2]
      BY <2>1, <2>3, <1>0
    <3>3. f[<<l, h>>] = f[Half(tiers, cap)[<<l, h>>]]
      BY <2>1, <3>2 DEF Loops, Narrowed
    <3>4. m <= k <=> Reaches(cap, tiers[m])
      BY <1>0, <3>1 DEF IsLastReached
    <3>5. CASE m <= k
      <4>1. Half(tiers, cap)[<<l, h>>] = <<m, h>>
        BY <2>1, <3>1, <3>2, <3>4, <3>5 DEF Half
      <4>2. h - m \in 0 .. d - 1
        BY <1>0, <3>1
      <4>3. f[<<m, h>>] = k
        BY <1>1, <4>2, <3>1, <3>5
      <4> QED BY <3>3, <4>1, <4>3
    <3>6. CASE ~ m <= k
      <4>1. Half(tiers, cap)[<<l, h>>] = <<l, m - 1>>
        BY <2>1, <3>1, <3>2, <3>4, <3>6 DEF Half
      <4>2. (m - 1) - l \in 0 .. d - 1 /\ m - 1 \in 1 .. Len(tiers) /\ k <= m - 1
        BY <1>0, <3>1, <3>6
      <4>3. f[<<l, m - 1>>] = k
        BY <1>1, <4>2
      <4> QED BY <3>3, <4>1, <4>3
    <3> QED BY <3>5, <3>6
  <2> QED BY <2>2, <2>3, <1>0
<1>2. P = Nat
  <2> HIDE DEF P
  <2>1. P \in SUBSET Nat
    BY DEF P
  <2> QED BY <1>1, <2>1, EveryNatural
<1>3. hi - lo \in Nat
  BY <1>0
<1>4. hi - lo \in P
  BY <1>2, <1>3
<1> QED BY <1>4

LEMMA ProgramFinds ==
  ASSUME NEW tiers, TierTable(tiers), Sorted(tiers), NEW cap \in Nat, NEW k, IsLastReached(tiers, cap, k)
  PROVE  PickTier(tiers, cap) = k
<1>0. /\ Len(tiers) \in Nat /\ k \in 0 .. Len(tiers) /\ (tiers = <<>> => Len(tiers) = 0)
      /\ \A i \in 1 .. Len(tiers) : i <= k <=> Reaches(cap, tiers[i])
  BY DEF TierTable, IsLastReached
<1>1. CASE k = 0
  <2>1. tiers = <<>> \/ ~ Reaches(cap, tiers[1])
    <3>1. CASE Len(tiers) = 0
      BY <3>1 DEF TierTable
    <3>2. CASE Len(tiers) # 0
      BY <3>2, <1>0, <1>1
    <3> QED BY <3>1, <3>2
  <2> QED BY <2>1, <1>1 DEF PickTier
<1>2. CASE k # 0
  <2> DEFINE Searches(f) ==
               f = [range \in Nat \X Nat |->
                      IF range[1] >= range[2] THEN range[1]
                      ELSE IF Reaches(cap, tiers[Middle(range[1], range[2])])
                        THEN f[<<Middle(range[1], range[2]), range[2]>>]
                        ELSE f[<<range[1], Middle(range[1], range[2]) - 1>>]]
             search == CHOOSE f : Searches(f)
  <2>1. Narrow(tiers, cap) = search[<<1, Len(tiers)>>]
    BY Zenon DEF Narrow
  <2>2. ASSUME NEW f PROVE Loops(f, Ranges, Narrowed, Lower, Half(tiers, cap)) <=> Searches(f)
    <3>1. ASSUME NEW range \in Ranges
          PROVE  (IF range \in Narrowed THEN Lower[range] ELSE f[Half(tiers, cap)[range]])
                   = (IF range[1] >= range[2] THEN range[1]
                      ELSE IF Reaches(cap, tiers[Middle(range[1], range[2])])
                        THEN f[<<Middle(range[1], range[2]), range[2]>>]
                        ELSE f[<<range[1], Middle(range[1], range[2]) - 1>>])
      BY DEF Narrowed, Lower, Half
    <3> QED BY <3>1 DEF Loops, Ranges
  <2>3. Loops(search, Ranges, Narrowed, Lower, Half(tiers, cap))
    <3> HIDE DEF Searches
    <3>1. \E f : Loops(f, Ranges, Narrowed, Lower, Half(tiers, cap))
      <4>1. Narrowed \in SUBSET Ranges
        BY DEF Narrowed
      <4> QED BY <4>1, HalfIsRange, LoopExists
    <3>2. Searches(search)
      BY <2>2, <3>1, Zenon
    <3> QED BY <2>2, <3>2, Zenon
  <2> HIDE DEF search
  <2>4. search[<<1, Len(tiers)>>] = k
    BY <1>0, <1>2, <2>3, SearchEnds
  <2>5. tiers # <<>> /\ Reaches(cap, tiers[1]) /\ Reaches(cap, tiers[k]) /\ (k < Len(tiers) => ~ Reaches(cap, tiers[k + 1]))
    BY <1>0, <1>2
  <2> QED BY <2>1, <2>4, <2>5 DEF PickTier
<1> QED BY <1>1, <1>2

LEMMA TablesAreTables ==
  ASSUME NEW tiers \in Seq([from : Nat])
  PROVE  TierTable(tiers)
<1>1. \A t \in [from : Nat] : t.from \in Nat
  OBVIOUS
<1>2. ASSUME NEW S, tiers \in Seq(S)
      PROVE  Len(tiers) \in Nat /\ DOMAIN tiers = 1 .. Len(tiers) /\ \A i \in 1 .. Len(tiers) : tiers[i] \in S
  BY <1>2
<1>3. Len(tiers) \in Nat /\ DOMAIN tiers = 1 .. Len(tiers) /\ \A i \in 1 .. Len(tiers) : tiers[i] \in [from : Nat]
  BY <1>2, Zenon
<1> QED BY <1>1, <1>3 DEF TierTable

\* Tiers reached on a sorted table are the first ones, up to the last one.
Reached(tiers, cap) == {i \in DOMAIN tiers : tiers[i].from <= cap}

LEMMA LastIsLastReached ==
  ASSUME NEW tiers, TierTable(tiers), Sorted(tiers), NEW cap \in Nat
  PROVE  IsLastReached(tiers, cap, Max({0} \cup Reached(tiers, cap)))
<1> DEFINE S == {0} \cup Reached(tiers, cap)
           D == {d \in 0 .. Len(tiers) : Len(tiers) - d \in S}
<1>0. /\ Len(tiers) \in Nat /\ DOMAIN tiers = 1 .. Len(tiers)
      /\ \A i \in 1 .. Len(tiers) : tiers[i].from \in Nat
      /\ \A i, j \in 1 .. Len(tiers) : i < j => tiers[i].from <= tiers[j].from
  BY DEF TierTable, Sorted
<1>1. S \subseteq 0 .. Len(tiers) /\ 0 \in S
  BY <1>0 DEF Reached
<1>2. PICK d \in D : \A e \in D : d <= e
  <2>1. Len(tiers) \in D
    BY <1>0, <1>1
  <2>2. D \subseteq Nat /\ D # {}
    BY <1>0, <2>1
  <2> HIDE DEF D
  <2> QED BY <2>2, LeastNatural
<1>3. \A e \in 0 .. Len(tiers) : e \in D <=> Len(tiers) - e \in S
  OBVIOUS
<1>4. \A i \in 1 .. Len(tiers) : i \in S <=> Reaches(cap, tiers[i])
  <2> TAKE i \in 1 .. Len(tiers)
  <2> HIDE DEF S, D
  <2>4. i \in DOMAIN tiers /\ i # 0
    BY <1>0
  <2>5. i \in Reached(tiers, cap) <=> tiers[i].from <= cap
    BY <2>4, Zenon DEF Reached
  <2>1. i \in S <=> tiers[i].from <= cap
    BY <2>4, <2>5, Zenon DEF S
  <2> DEFINE from == tiers[i].from
  <2>2. from \in Nat /\ Reaches(cap, tiers[i]) = (cap >= from)
    BY <1>0 DEF Reaches
  <2> HIDE DEF from
  <2>3. from <= cap <=> cap >= from
    BY <2>2
  <2> QED BY <2>1, <2>2, <2>3 DEF from
<1>5. d \in 0 .. Len(tiers)
  OBVIOUS
<1> HIDE DEF S, D
<1>6. Len(tiers) - d \in S
  BY <1>2, <1>3, <1>5
<1>7. \A s \in S : Len(tiers) - d >= s
  <2> TAKE s \in S
  <2>1. s \in 0 .. Len(tiers) /\ Len(tiers) - s \in 0 .. Len(tiers) /\ Len(tiers) - (Len(tiers) - s) = s
    BY <1>0, <1>1
  <2>2. Len(tiers) - s \in D
    BY <1>3, <2>1
  <2>3. d <= Len(tiers) - s
    BY <1>2, <2>2
  <2> QED BY <1>0, <1>5, <2>1, <2>3
<1> DEFINE k == Max(S)
<1>8. k \in S /\ \A s \in S : k >= s
  <2>1. \E x \in S : \A y \in S : x >= y
    BY <1>6, <1>7
  <2> QED BY <2>1, Zenon DEF Max
<1> HIDE DEF k
<1>9. k \in 0 .. Len(tiers)
  BY <1>1, <1>8
<1>10. ASSUME NEW i \in 1 .. Len(tiers) PROVE i <= k <=> Reaches(cap, tiers[i])
  <2>1. Reaches(cap, tiers[i]) => i <= k
    BY <1>0, <1>4, <1>8, <1>9
  <2>2. ASSUME i <= k PROVE Reaches(cap, tiers[i])
    <3>1. k \in 1 .. Len(tiers)
      BY <1>0, <1>9, <2>2
    <3>2. cap >= tiers[k].from
      BY <1>4, <1>8, <3>1 DEF Reaches
    <3>3. i = k \/ tiers[i].from <= tiers[k].from
      BY <1>0, <2>2, <3>1
    <3>4. tiers[i].from \in Nat /\ tiers[k].from \in Nat
      BY <1>0, <3>1
    <3> DEFINE ti == tiers[i].from
               tk == tiers[k].from
    <3>5. ti \in Nat /\ tk \in Nat /\ cap >= tk /\ (i = k => ti = tk) /\ (i = k \/ ti <= tk)
      BY <3>2, <3>3, <3>4
    <3> HIDE DEF ti, tk
    <3>6. cap >= ti
      BY <3>5
    <3> QED BY <3>6 DEF ti, Reaches
  <2> QED BY <2>1, <2>2
<1> QED BY <1>9, <1>10 DEF k, S, IsLastReached

\* The program, the quoting service and the curve adapter read the same tier
\* off every sorted table of up to 32 tiers: a binary search, a scan, and a
\* scan that checks the order on its way.
THEOREM TiersAgree ==
  ASSUME NEW tiers \in Seq([from : Nat]), Sorted(tiers), Len(tiers) <= 32, NEW cap \in Nat
  PROVE  \E k \in 0 .. Len(tiers) :
           /\ k = Max({0} \cup Reached(tiers, cap))
           /\ PickTier(tiers, cap) = k /\ MirrorTier(tiers, cap) = k /\ CurveTier(tiers, cap) = k
<1>1. TierTable(tiers)
  BY TablesAreTables
<1> DEFINE k == Max({0} \cup Reached(tiers, cap))
<1>2. IsLastReached(tiers, cap, k)
  BY <1>1, LastIsLastReached
<1> HIDE DEF k
<1>3. PickTier(tiers, cap) = k /\ MirrorTier(tiers, cap) = k /\ CurveTier(tiers, cap) = k
  BY <1>1, <1>2, ProgramFinds, MirrorFinds, CurveFinds
<1> QED BY <1>2, <1>3 DEF k, IsLastReached

-----------------------------------------------------------------------------
(* Products of words *)

\* Two words multiplied, digit by digit.
LEMMA LongProduct ==
  ASSUME NEW W \in Nat, NEW ah \in Nat, NEW al \in Nat, NEW bh \in Nat, NEW bl \in Nat
  PROVE  (W * ah + al) * (W * bh + bl) = W * (W * (ah * bh) + (al * bh + ah * bl)) + al * bl
<1>1. (W * ah + al) * (W * bh + bl) = (W * ah) * (W * bh) + (W * ah) * bl + al * (W * bh) + al * bl
  OBVIOUS
<1>2. (W * ah) * (W * bh) = W * (W * (ah * bh))
  OBVIOUS
<1>3. (W * ah) * bl = W * (ah * bl) /\ al * (W * bh) = W * (al * bh)
  OBVIOUS
<1>4. W * (W * (ah * bh) + (al * bh + ah * bl)) = W * (W * (ah * bh)) + W * (al * bh) + W * (ah * bl)
  OBVIOUS
<1> QED BY <1>1, <1>2, <1>3, <1>4

\* Two words are a number below Wide: the upper one is below one word.
LEMMA TwoWords ==
  ASSUME NEW W \in Nat \ {0}, NEW hi \in Nat, NEW lo \in 0 .. W - 1
  PROVE  W * hi + lo < W * W <=> hi < W
<1>1. ASSUME hi < W PROVE W * hi + lo < W * W
  <2>1. W * (hi + 1) <= W * W
    BY <1>1, TimesMonotone
  <2>2. W * (hi + 1) = W * hi + W
    OBVIOUS
  <2> QED BY <2>1, <2>2
<1>2. ASSUME W <= hi PROVE ~ (W * hi + lo < W * W)
  <2>1. W * W <= W * hi
    BY <1>2, TimesMonotone
  <2> QED BY <2>1
<1> QED BY <1>1, <1>2

\* mul_q64 is the exact product, shifted, or it is refused, for words of any
\* size: no partial product or carry is lost.
THEOREM MulQ64IsExact ==
  ASSUME NEW m \in Nat, NEW n \in Nat
  PROVE  /\ (m * n) \div WORD \in Nat
         /\ MulQ64(m, n) = IF (m * n) \div WORD < Wide THEN (m * n) \div WORD ELSE BadData
<1> DEFINE ah == m \div WORD   al == m % WORD
           bh == n \div WORD   bl == n % WORD
           ll == al * bl       lh == al * bh
           hl == ah * bl       hh == ah * bh
           mid == (ll \div WORD) + (lh % WORD) + (hl % WORD)
           up == hh + (lh \div WORD) + (hl \div WORD) + (mid \div WORD)
           t == (m * n) \div WORD
<1>0. WORD \in Nat \ {0}
  BY FloorConstants
<1>1. /\ ah \in Nat /\ al \in 0 .. WORD - 1 /\ m = WORD * ah + al
      /\ bh \in Nat /\ bl \in 0 .. WORD - 1 /\ n = WORD * bh + bl
  BY <1>0, DivMod
<1> HIDE DEF ah, al, bh, bl
<1>2. ll \in Nat /\ lh \in Nat /\ hl \in Nat /\ hh \in Nat
  BY <1>0, <1>1
<1>3. m * n = WORD * (WORD * hh + (lh + hl)) + ll
  BY <1>0, <1>1, LongProduct
<1> HIDE DEF ll, lh, hl, hh
<1>4. /\ ll \div WORD \in Nat
      /\ lh \div WORD \in Nat /\ lh % WORD \in 0 .. WORD - 1 /\ lh = WORD * (lh \div WORD) + (lh % WORD)
      /\ hl \div WORD \in Nat /\ hl % WORD \in 0 .. WORD - 1 /\ hl = WORD * (hl \div WORD) + (hl % WORD)
  BY <1>0, <1>2, DivMod
<1>5. mid \in Nat
  BY <1>0, <1>4
<1>6. mid \div WORD \in Nat /\ mid % WORD \in 0 .. WORD - 1 /\ mid = WORD * (mid \div WORD) + (mid % WORD)
  <2> HIDE DEF mid
  <2> QED BY <1>0, <1>5, DivMod
<1>7. up \in Nat
  BY <1>2, <1>4, <1>6
<1>8. t = WORD * hh + (lh + hl) + (ll \div WORD)
  <2> DEFINE g == WORD * hh + (lh + hl)
  <2>1. g \in Nat
    BY <1>0, <1>2
  <2>2. m * n = WORD * g + ll
    BY <1>3
  <2> HIDE DEF g
  <2>3. (WORD * g + ll) \div WORD = g + (ll \div WORD)
    BY <1>0, <1>2, <2>1, DivShift
  <2> QED BY <2>2, <2>3 DEF g
<1>9. t = WORD * up + (mid % WORD)
  <2> DEFINE l1 == ll \div WORD    x1 == lh \div WORD   x0 == lh % WORD
             y1 == hl \div WORD    y0 == hl % WORD      z1 == mid \div WORD   z0 == mid % WORD
  <2>1. /\ l1 \in Nat /\ x1 \in Nat /\ y1 \in Nat /\ z1 \in Nat
        /\ x0 \in Nat /\ y0 \in Nat /\ z0 \in Nat
        /\ lh = WORD * x1 + x0 /\ hl = WORD * y1 + y0 /\ l1 + x0 + y0 = WORD * z1 + z0
    BY <1>0, <1>4, <1>6
  <2>2. t = WORD * hh + (lh + hl) + l1 /\ up = hh + x1 + y1 + z1
    BY <1>8
  <2> HIDE DEF l1, x1, x0, y1, y0, z1, z0, t, up, mid
  <2>3. WORD * (hh + x1 + y1 + z1) = WORD * hh + WORD * x1 + WORD * y1 + WORD * z1
    BY <1>0, <1>2, <2>1
  <2>4. WORD * hh \in Nat /\ WORD * x1 \in Nat /\ WORD * y1 \in Nat /\ WORD * z1 \in Nat
    BY <1>0, <1>2, <2>1
  <2>5. t = WORD * (hh + x1 + y1 + z1) + z0
    BY <1>2, <2>1, <2>2, <2>3, <2>4
  <2> QED BY <2>2, <2>5 DEF z0
<1>10. MulQ64(m, n) = IF up >= WORD THEN BadData ELSE up * WORD + (mid % WORD)
  <2>1. MulQ64(m, n) = LET hi == MulHigh(up) IN IF Refused(hi) THEN BadData ELSE hi * WORD + (mid % WORD)
    BY DEF MulQ64, ah, al, bh, bl, ll, lh, hl, hh
  <2> HIDE DEF up, mid
  <2> QED BY <1>0, <1>7, <2>1 DEF MulHigh, Refused, BadData
<1> HIDE DEF t, up, mid
<1>11. t < Wide <=> up < WORD
  BY <1>0, <1>6, <1>7, <1>9, TwoWords DEF Wide
<1>12. t \in Nat /\ WORD * up = up * WORD
  BY <1>0, <1>6, <1>7, <1>9
<1>13. MulQ64(m, n) = IF t < Wide THEN t ELSE BadData
  BY <1>0, <1>7, <1>9, <1>10, <1>11, <1>12
<1> QED BY <1>12, <1>13 DEF t

\* floor(Wide / r) comes out exactly without forming Wide.
THEOREM ReciprocalIsExact ==
  ASSUME NEW r \in 1 .. Wide
  PROVE  Reciprocal(r) = Wide \div r
<1> DEFINE q == (Wide - 1) \div r
           e == (Wide - 1) % r
<1>0. Wide \in Nat /\ r \in Nat \ {0} /\ Wide - 1 \in Nat
  BY FloorConstants DEF Wide
<1>1. q \in Nat /\ e \in 0 .. r - 1 /\ Wide - 1 = r * q + e
  <2> HIDE DEF Wide
  <2> QED BY <1>0, DivMod
<1>2. Reciprocal(r) = q + (IF e = r - 1 THEN 1 ELSE 0)
  BY DEF Reciprocal
<1> HIDE DEF q, e, Wide
<1>3. CASE e = r - 1
  <2>1. r * (q + 1) = r * q + r
    BY <1>0, <1>1
  <2>2. r * (q + 1) <= Wide /\ Wide < r * (q + 1) + r
    BY <1>0, <1>1, <1>3, <2>1
  <2>3. Wide \div r = q + 1
    BY <1>0, <1>1, <2>2, OneQuotient
  <2> QED BY <1>1, <1>2, <1>3, <2>3
<1>4. CASE e # r - 1
  <2>1. r * q <= Wide /\ Wide < r * q + r
    BY <1>0, <1>1, <1>4
  <2>2. Wide \div r = q
    BY <1>0, <1>1, <2>1, OneQuotient
  <2> QED BY <1>1, <1>2, <1>4, <2>2
<1> QED BY <1>3, <1>4

-----------------------------------------------------------------------------
(* Square and multiply *)

Times(m, n) == (m * n) \div WORD

\* A factor of at least one word never makes a product smaller.
LEMMA TimesGrows ==
  ASSUME NEW m \in Nat, NEW n \in Nat, n >= WORD
  PROVE  Times(m, n) \in Nat /\ Times(m, n) >= m /\ Times(n, m) = Times(m, n)
<1>0. WORD \in Nat \ {0}
  BY FloorConstants
<1>1. m * WORD <= m * n /\ m * WORD \in Nat /\ m * n \in Nat /\ m * n = n * m /\ m * WORD = WORD * m + 0
  BY <1>0, TimesMonotone
<1>2. (m * WORD) \div WORD <= (m * n) \div WORD /\ (m * n) \div WORD \in Nat
  BY <1>0, <1>1, DivMonotone, DivMod
<1>3. (m * WORD) \div WORD = m
  BY <1>0, <1>1, OneQuotient
<1> QED BY <1>1, <1>2, <1>3 DEF Times

\* What is left of the exponent, the base and the product after one bit.
Base2(s)    == IF s.e > 1 THEN Times(s.b, s.b) ELSE s.b
Product2(s) == IF s.e % 2 = 1 THEN Times(s.r, s.b) ELSE s.r
Refuses(s) ==
  \/ s.e % 2 = 1 /\ ~ Times(s.r, s.b) < Wide
  \/ s.e > 1 /\ ~ Times(s.b, s.b) < Wide

OneBit == [s \in Squaring |-> [e |-> s.e \div 2, b |-> Base2(s), r |-> Product2(s)]]
NoBits == {s \in Squaring : s.e = 0}
NoBitsOrRefused == {s \in Squaring : s.e = 0 \/ Refuses(s)}
TheProduct == [s \in Squaring |-> s.r]
ProductOrRefusal == [s \in Squaring |-> IF s.e = 0 THEN s.r ELSE BadData]

LEMMA Squarings ==
  ASSUME NEW s \in Squaring
  PROVE  /\ s.e \in Nat /\ s.b \in Nat /\ s.r \in Nat
         /\ Times(s.r, s.b) \in Nat /\ Times(s.b, s.b) \in Nat
         /\ s.e \div 2 \in Nat
         /\ OneBit[s] = [e |-> s.e \div 2, b |-> Base2(s), r |-> Product2(s)]
         /\ OneBit[s] \in Squaring
<1>1. s.e \in Nat /\ s.b \in Nat /\ s.r \in Nat
  BY DEF Squaring
<1>2. Times(s.r, s.b) \in Nat /\ Times(s.b, s.b) \in Nat
  BY <1>1, MulQ64IsExact DEF Times
<1>3. s.e \div 2 \in Nat
  BY <1>1
<1>4. OneBit[s] = [e |-> s.e \div 2, b |-> Base2(s), r |-> Product2(s)]
  BY DEF OneBit
<1>5. Base2(s) \in Nat /\ Product2(s) \in Nat
  BY <1>1, <1>2 DEF Base2, Product2
<1> QED BY <1>1, <1>2, <1>3, <1>4, <1>5 DEF Squaring

LEMMA OneBitMaps == OneBit \in [Squaring -> Squaring]
<1>1. \A s \in Squaring : OneBit[s] \in Squaring
  BY Squarings
<1>2. OneBit = [s \in Squaring |-> OneBit[s]]
  BY DEF OneBit
<1> QED BY <1>1, <1>2

\* The two loops step alike, and the program's stops where a product does not
\* fit two words.
LEMMA ProgramLoop ==
  ASSUME NEW start, NEW exponent
  PROVE  \E f : Loops(f, Squaring, NoBitsOrRefused, ProductOrRefusal, OneBit)
                  /\ Power(start, exponent) = f[[e |-> exponent, b |-> start, r |-> WORD]]
<1> DEFINE R2(s) == IF s.e % 2 = 1 THEN MulQ64(s.r, s.b) ELSE s.r
           B2(s) == IF s.e > 1 THEN MulQ64(s.b, s.b) ELSE s.b
           Is(f) == f = [s \in Squaring |->
                           IF s.e = 0 THEN s.r
                           ELSE IF Refused(R2(s)) \/ Refused(B2(s)) THEN BadData
                           ELSE f[[e |-> s.e \div 2, b |-> B2(s), r |-> R2(s)]]]
           loop == CHOOSE f : Is(f)
<1>1. Power(start, exponent) = loop[[e |-> exponent, b |-> start, r |-> WORD]]
  BY Zenon DEF Power
<1>2. ASSUME NEW f PROVE Loops(f, Squaring, NoBitsOrRefused, ProductOrRefusal, OneBit) <=> Is(f)
  <2>1. ASSUME NEW s \in Squaring
        PROVE  (IF s \in NoBitsOrRefused THEN ProductOrRefusal[s] ELSE f[OneBit[s]])
                 = (IF s.e = 0 THEN s.r
                    ELSE IF Refused(R2(s)) \/ Refused(B2(s)) THEN BadData
                    ELSE f[[e |-> s.e \div 2, b |-> B2(s), r |-> R2(s)]])
    <3>1. /\ s.e \in Nat /\ s.b \in Nat /\ s.r \in Nat
          /\ Times(s.r, s.b) \in Nat /\ Times(s.b, s.b) \in Nat
          /\ OneBit[s] = [e |-> s.e \div 2, b |-> Base2(s), r |-> Product2(s)]
      BY Squarings
    <3>2. /\ MulQ64(s.r, s.b) = IF Times(s.r, s.b) < Wide THEN Times(s.r, s.b) ELSE BadData
          /\ MulQ64(s.b, s.b) = IF Times(s.b, s.b) < Wide THEN Times(s.b, s.b) ELSE BadData
      BY <3>1, MulQ64IsExact DEF Times
    <3>3. Refused(R2(s)) \/ Refused(B2(s)) <=> Refuses(s)
      BY <3>1, <3>2 DEF Refused, Refuses, BadData
    <3>4. ~ Refuses(s) => R2(s) = Product2(s) /\ B2(s) = Base2(s)
      BY <3>1, <3>2 DEF Refuses, Product2, Base2
    <3>5. /\ s \in NoBitsOrRefused <=> s.e = 0 \/ Refuses(s)
          /\ ProductOrRefusal[s] = IF s.e = 0 THEN s.r ELSE BadData
      BY DEF NoBitsOrRefused, ProductOrRefusal
    <3> HIDE DEF R2, B2
    <3> QED BY <3>1, <3>3, <3>4, <3>5
  <2> HIDE DEF R2, B2
  <2> QED BY <2>1 DEF Loops
<1>3. Loops(loop, Squaring, NoBitsOrRefused, ProductOrRefusal, OneBit)
  <2> HIDE DEF Is
  <2>1. \E f : Loops(f, Squaring, NoBitsOrRefused, ProductOrRefusal, OneBit)
    <3>1. NoBitsOrRefused \in SUBSET Squaring
      BY DEF NoBitsOrRefused
    <3> QED BY <3>1, OneBitMaps, LoopExists
  <2>2. Is(loop)
    BY <1>2, <2>1, Zenon
  <2> QED BY <1>2, <2>2, Zenon
<1> HIDE DEF loop
<1> QED BY <1>1, <1>3, Zenon

LEMMA MirrorLoop ==
  ASSUME NEW start, NEW exponent
  PROVE  \E f : Loops(f, Squaring, NoBits, TheProduct, OneBit)
                  /\ MirrorPower(start, exponent) = f[[e |-> exponent, b |-> start, r |-> WORD]]
<1> DEFINE Is(f) == f = [s \in Squaring |->
                           IF s.e = 0 THEN s.r
                           ELSE f[[e |-> s.e \div 2,
                                   b |-> IF s.e > 1 THEN (s.b * s.b) \div WORD ELSE s.b,
                                   r |-> IF s.e % 2 = 1 THEN (s.r * s.b) \div WORD ELSE s.r]]]
           loop == CHOOSE f : Is(f)
<1>1. MirrorPower(start, exponent) = loop[[e |-> exponent, b |-> start, r |-> WORD]]
  BY Zenon DEF MirrorPower
<1>2. ASSUME NEW f PROVE Loops(f, Squaring, NoBits, TheProduct, OneBit) <=> Is(f)
  <2>1. ASSUME NEW s \in Squaring
        PROVE  (IF s \in NoBits THEN TheProduct[s] ELSE f[OneBit[s]])
                 = (IF s.e = 0 THEN s.r
                    ELSE f[[e |-> s.e \div 2,
                            b |-> IF s.e > 1 THEN (s.b * s.b) \div WORD ELSE s.b,
                            r |-> IF s.e % 2 = 1 THEN (s.r * s.b) \div WORD ELSE s.r]])
    <3>1. OneBit[s] = [e |-> s.e \div 2,
                       b |-> IF s.e > 1 THEN (s.b * s.b) \div WORD ELSE s.b,
                       r |-> IF s.e % 2 = 1 THEN (s.r * s.b) \div WORD ELSE s.r]
      BY Squarings, Zenon DEF Base2, Product2, Times
    <3>2. (s \in NoBits <=> s.e = 0) /\ TheProduct[s] = s.r
      BY DEF NoBits, TheProduct
    <3> QED BY <3>1, <3>2, Zenon
  <2> QED BY <2>1, Zenon DEF Loops
<1>3. Loops(loop, Squaring, NoBits, TheProduct, OneBit)
  <2> HIDE DEF Is
  <2>1. \E f : Loops(f, Squaring, NoBits, TheProduct, OneBit)
    <3>1. NoBits \in SUBSET Squaring
      BY DEF NoBits
    <3> QED BY <3>1, OneBitMaps, LoopExists
  <2>2. Is(loop)
    BY <1>2, <2>1, Zenon
  <2> QED BY <1>2, <2>2, Zenon
<1> HIDE DEF loop
<1> QED BY <1>1, <1>3, Zenon

\* Where the exact product fits two words the program computes it, and where it
\* does not the program refuses: what it refuses on the way would not have
\* fitted in the end either, because no step makes the product smaller.
ProductsAgree(f, g, s) ==
  /\ g[s] \in Nat /\ g[s] >= s.r
  /\ s.e # 0 => g[s] >= s.b
  /\ s.e # 0 \/ s.r < Wide => f[s] = IF g[s] < Wide THEN g[s] ELSE BadData

Growing(s) == s.b >= WORD /\ s.r >= WORD

LEMMA OneBitAgrees ==
  ASSUME NEW f, Loops(f, Squaring, NoBitsOrRefused, ProductOrRefusal, OneBit),
         NEW g, Loops(g, Squaring, NoBits, TheProduct, OneBit),
         NEW s \in Squaring, Growing(s), s.e # 0,
         Growing(OneBit[s]) => ProductsAgree(f, g, OneBit[s])
  PROVE  ProductsAgree(f, g, s)
<1> DEFINE t == OneBit[s]
<1>0. WORD \in Nat \ {0} /\ Wide \in Nat
  BY FloorConstants DEF Wide
<1>1. /\ s.e \in Nat /\ s.b \in Nat /\ s.r \in Nat /\ s.b >= WORD /\ s.r >= WORD
      /\ t = [e |-> s.e \div 2, b |-> Base2(s), r |-> Product2(s)]
  BY Squarings DEF Growing
<1>2. /\ Times(s.r, s.b) \in Nat /\ Times(s.r, s.b) >= s.r /\ Times(s.r, s.b) >= s.b
      /\ Times(s.b, s.b) \in Nat /\ Times(s.b, s.b) >= s.b
  BY <1>1, TimesGrows
<1>3. t.e = s.e \div 2 /\ t.b = Base2(s) /\ t.r = Product2(s)
  BY <1>1
<1> HIDE DEF t
<1>4. t.b \in Nat /\ t.r \in Nat /\ t.b >= s.b /\ t.r >= s.r /\ (s.e % 2 = 1 => t.r >= s.b)
  BY <1>1, <1>2, <1>3 DEF Base2, Product2
<1>5. ProductsAgree(f, g, t)
  BY <1>0, <1>1, <1>4 DEF Growing, t
<1>6. g[s] = g[t]
  BY <1>1 DEF Loops, NoBits, t
<1>7. s.e % 2 = 1 \/ t.e # 0
  BY <1>1, <1>3
<1>8. /\ g[s] \in Nat /\ g[s] >= t.r /\ g[s] >= s.r /\ g[s] >= s.b
      /\ t.e # 0 => g[s] >= t.b
  BY <1>1, <1>4, <1>5, <1>6, <1>7 DEF ProductsAgree
<1>9. CASE Refuses(s)
  <2>1. f[s] = BadData
    BY <1>9 DEF Loops, NoBitsOrRefused, ProductOrRefusal
  <2>2. CASE s.e % 2 = 1 /\ ~ Times(s.r, s.b) < Wide
    <3>1. t.r >= Wide
      BY <1>0, <1>2, <1>3, <2>2 DEF Product2
    <3>2. ~ g[s] < Wide
      BY <1>0, <1>4, <1>8, <3>1
    <3> QED BY <1>8, <2>1, <3>2 DEF ProductsAgree
  <2>3. CASE s.e > 1 /\ ~ Times(s.b, s.b) < Wide
    <3>1. t.b >= Wide /\ t.e # 0
      BY <1>0, <1>1, <1>2, <1>3, <2>3 DEF Base2
    <3>2. ~ g[s] < Wide
      BY <1>0, <1>4, <1>8, <3>1
    <3> QED BY <1>8, <2>1, <3>2 DEF ProductsAgree
  <2> QED BY <1>9, <2>2, <2>3 DEF Refuses
<1>10. CASE ~ Refuses(s)
  <2>1. f[s] = f[t]
    BY <1>1, <1>10 DEF Loops, NoBitsOrRefused, t
  <2>2. t.e # 0 \/ t.r < Wide
    BY <1>3, <1>7, <1>10 DEF Refuses, Product2
  <2>3. f[t] = IF g[t] < Wide THEN g[t] ELSE BadData
    BY <1>5, <2>2 DEF ProductsAgree
  <2> QED BY <1>6, <1>8, <2>1, <2>3 DEF ProductsAgree
<1> QED BY <1>9, <1>10

LEMMA PowersAgree ==
  ASSUME NEW start \in Nat, start >= WORD, NEW exponent \in Nat
  PROVE  /\ MirrorPower(start, exponent) \in Nat
         /\ MirrorPower(start, exponent) >= WORD
         /\ exponent # 0 \/ WORD < Wide =>
              Power(start, exponent) = IF MirrorPower(start, exponent) < Wide THEN MirrorPower(start, exponent) ELSE BadData
         /\ exponent = 0 => MirrorPower(start, exponent) = WORD /\ Power(start, exponent) = WORD
<1> DEFINE first == [e |-> exponent, b |-> start, r |-> WORD]
<1>0. WORD \in Nat
  BY FloorConstants
<1>1. PICK f : Loops(f, Squaring, NoBitsOrRefused, ProductOrRefusal, OneBit) /\ Power(start, exponent) = f[first]
  BY ProgramLoop
<1>2. PICK g : Loops(g, Squaring, NoBits, TheProduct, OneBit) /\ MirrorPower(start, exponent) = g[first]
  BY MirrorLoop
<1>3. first \in Squaring /\ first.e = exponent /\ first.r = WORD /\ Growing(first)
  BY <1>0 DEF Squaring, Growing
<1> HIDE DEF first
<1> DEFINE P == {n \in Nat : \A s \in Squaring : s.e = n /\ Growing(s) => ProductsAgree(f, g, s)}
<1>4. ASSUME NEW n \in Nat, \A k \in 0 .. n - 1 : k \in P PROVE n \in P
  <2> SUFFICES ASSUME NEW s \in Squaring, s.e = n, Growing(s) PROVE ProductsAgree(f, g, s)
    OBVIOUS
  <2>1. CASE n = 0
    <3>1. g[s] = s.r /\ f[s] = s.r /\ s.r \in Nat
      BY <1>1, <1>2, <2>1, Squarings DEF Loops, NoBits, NoBitsOrRefused, TheProduct, ProductOrRefusal
    <3> QED BY <2>1, <3>1 DEF ProductsAgree
  <2>2. CASE n # 0
    <3>1. OneBit[s] \in Squaring /\ OneBit[s].e = n \div 2
      <4>1. OneBit[s] \in Squaring /\ OneBit[s] = [e |-> s.e \div 2, b |-> Base2(s), r |-> Product2(s)]
        BY Squarings
      <4>2. [e |-> s.e \div 2, b |-> Base2(s), r |-> Product2(s)].e = s.e \div 2
        OBVIOUS
      <4> HIDE DEF P
      <4> QED BY <4>1, <4>2, Zenon
    <3>2. n \div 2 \in 0 .. n - 1
      BY <2>2
    <3>3. n \div 2 \in P
      BY <1>4, <3>2
    <3>4. Growing(OneBit[s]) => ProductsAgree(f, g, OneBit[s])
      BY <3>1, <3>3
    <3> HIDE DEF P
    <3> QED BY <1>1, <1>2, <2>2, <3>4, OneBitAgrees
  <2> QED BY <2>1, <2>2
<1>5. P = Nat
  <2> HIDE DEF P
  <2>1. P \in SUBSET Nat
    BY DEF P
  <2> QED BY <1>4, <2>1, EveryNatural
<1>6. ProductsAgree(f, g, first)
  BY <1>3, <1>5
<1>7. exponent = 0 => g[first] = WORD /\ f[first] = WORD
  BY <1>1, <1>2, <1>3 DEF Loops, NoBits, NoBitsOrRefused, TheProduct, ProductOrRefusal
<1> HIDE DEF P
<1> QED BY <1>1, <1>2, <1>3, <1>6, <1>7 DEF ProductsAgree

\* dlmm_price_q64 is the exact price wherever a u128 holds one, and a refusal
\* elsewhere, for every bin step and every bin.
THEOREM PriceIsExact ==
  ASSUME NEW binStep \in Nat, NEW activeId \in Int
  PROVE  LET p == DlmmPrice(binStep, activeId)
             m == MirrorPrice(binStep, activeId)
         IN  IF m \in 2 .. Wide - 1 THEN p = m ELSE m = 1 \/ Refused(p)
<1> DEFINE start == BinRate(binStep)
           n == BinsAway(activeId)
           e == MirrorPower(start, n)
           r == Power(start, n)
           p == DlmmPrice(binStep, activeId)
           m == MirrorPrice(binStep, activeId)
<1>0. WORD \in Nat \ {0} /\ BPS \in Nat \ {0} /\ Wide = WORD * WORD /\ Wide \in Nat /\ WORD <= Wide
  <2>1. WORD \in Nat \ {0} /\ BPS \in Nat \ {0} /\ Wide = WORD * WORD
    BY FloorConstants DEF Wide
  <2>2. WORD * 1 <= WORD * WORD /\ WORD * WORD \in Nat
    BY <2>1, TimesMonotone
  <2> QED BY <2>1, <2>2
<1>1. start \in Nat /\ start >= WORD
  <2>1. BPS * WORD <= WORD * (BPS + binStep) /\ WORD * (BPS + binStep) \in Nat /\ BPS * WORD \in Nat
    <3>1. WORD * BPS <= WORD * (BPS + binStep)
      BY <1>0, TimesMonotone
    <3> QED BY <1>0, <3>1
  <2>2. (BPS * WORD) \div BPS = WORD
    BY <1>0, <2>1, OneQuotient
  <2> QED BY <1>0, <2>1, <2>2, DivMonotone, DivMod DEF BinRate
<1>2. n \in Nat /\ (n = 0 <=> activeId = 0)
  BY DEF BinsAway
<1>3. /\ p = IF Refused(r) \/ activeId >= 0 THEN r
             ELSE IF (IF r = 0 THEN 0 ELSE Reciprocal(r)) \in {0, Wide} THEN BadData
             ELSE (IF r = 0 THEN 0 ELSE Reciprocal(r))
      /\ m = IF activeId < 0 THEN Wide \div e ELSE e
  BY DEF DlmmPrice, MirrorPrice
<1> HIDE DEF start, n
<1>4. /\ e \in Nat /\ e >= WORD
      /\ n # 0 \/ WORD < Wide => r = IF e < Wide THEN e ELSE BadData
      /\ n = 0 => e = WORD /\ r = WORD
  BY <1>1, <1>2, PowersAgree
<1> SUFFICES IF m \in 2 .. Wide - 1 THEN p = m ELSE m = 1 \/ Refused(p)
  OBVIOUS
<1> HIDE DEF e, r, p, m
<1>5. CASE activeId >= 0
  <2>1. p = r /\ m = e
    BY <1>3, <1>5
  <2>2. CASE WORD < Wide \/ n # 0
    BY <1>0, <1>4, <2>1, <2>2 DEF Refused, BadData
  <2>3. CASE ~ (WORD < Wide) /\ n = 0
    <3>1. WORD = 1
      <4>1. SUFFICES ASSUME WORD >= 2 PROVE FALSE
        BY <1>0
      <4>2. WORD * 2 <= WORD * WORD
        BY <1>0, <4>1, TimesMonotone
      <4> QED BY <1>0, <2>3, <4>2
    <3> QED BY <1>4, <2>1, <2>3, <3>1
  <2> QED BY <2>2, <2>3
<1>6. CASE activeId < 0
  <2>1. n # 0 /\ m = Wide \div e /\ e \in Nat \ {0}
    BY <1>0, <1>2, <1>3, <1>4, <1>6
  <2>2. r = IF e < Wide THEN e ELSE BadData
    BY <1>4, <2>1
  <2>3. CASE e < Wide
    <3>1. r = e /\ ~ Refused(r) /\ e \in 1 .. Wide
      BY <1>0, <2>1, <2>2, <2>3 DEF Refused
    <3>2. Reciprocal(e) = m
      BY <2>1, <3>1, ReciprocalIsExact
    <3>3. p = IF m \in {0, Wide} THEN BadData ELSE m
      BY <1>3, <1>6, <2>1, <3>1, <3>2
    <3>4. m \in Nat /\ m <= Wide
      <4>1. Wide \div e \in Nat /\ Wide % e \in 0 .. e - 1 /\ Wide = e * (Wide \div e) + (Wide % e)
        BY <1>0, <2>1, DivMod
      <4>2. m \in Nat /\ e * m <= Wide
        BY <2>1, <4>1
      <4>3. 1 * m <= e * m
        BY <2>1, <4>2
      <4> QED BY <1>0, <4>2, <4>3, <2>1
    <3>5. m \in 2 .. Wide - 1 \/ m \in {0, Wide} \/ m = 1
      BY <1>0, <3>4
    <3>6. m \in 2 .. Wide - 1 => p = m
      BY <1>0, <3>3, <3>4
    <3>7. m \in {0, Wide} => Refused(p)
      BY <3>3 DEF Refused, BadData
    <3> QED BY <3>5, <3>6, <3>7
  <2>4. CASE ~ e < Wide
    <3>1. Refused(r) /\ p = r
      BY <1>3, <2>2, <2>4 DEF Refused, BadData
    <3>2. m = 0 \/ m = 1
      <4>1. Wide < e * 2
        BY <1>0, <2>1, <2>4
      <4>2. m < 2 /\ m \in Nat
        BY <1>0, <2>1, <4>1, DivBelow, DivMod
      <4> QED BY <4>2
    <3> QED BY <3>1, <3>2, <1>0
  <2> QED BY <2>3, <2>4
<1> QED BY <1>5, <1>6 DEF p, m

-----------------------------------------------------------------------------
(* The output and the floor of a pool *)

LEMMA WordIsPositive == WORD \in Nat \ {0} /\ Wide = WORD * WORD /\ Wide \in Nat
<1>1. WORD \in Nat \ {0} /\ Wide = WORD * WORD
  BY FloorConstants DEF Wide
<1> QED BY <1>1

\* What the program takes for the output is the exact one, and it takes every
\* one that a word holds.
Agrees(exact, taken) ==
  /\ exact \in Nat
  /\ ~ Refused(taken) => taken = exact
  /\ exact < WORD => taken = exact

LEMMA DlmmAgrees ==
  ASSUME NEW inp \in 1 .. WORD - 1, NEW price \in 1 .. Wide - 1, NEW solFirst \in BOOLEAN
  PROVE  Agrees(IF solFirst THEN (inp * price) \div WORD ELSE (inp * WORD) \div price,
                DlmmOut(inp, price, solFirst))
<1>0. inp \in Nat /\ price \in Nat \ {0} /\ WORD \in Nat \ {0} /\ WORD * 1 <= WORD * WORD /\ WORD <= Wide
  <2>1. inp \in Nat /\ price \in Nat \ {0} /\ WORD \in Nat \ {0} /\ Wide = WORD * WORD
    BY WordIsPositive
  <2>2. WORD * 1 <= WORD * WORD
    BY <2>1, TimesMonotone
  <2> QED BY <2>1, <2>2
<1>1. CASE solFirst
  <2> DEFINE q == (inp * price) \div WORD
  <2>1. q \in Nat /\ DlmmOut(inp, price, solFirst) = IF q < Wide THEN q ELSE BadData
    BY <1>0, <1>1, MulQ64IsExact DEF DlmmOut
  <2> HIDE DEF q
  <2>2. Agrees(q, DlmmOut(inp, price, solFirst))
    BY <1>0, <2>1, WordIsPositive DEF Agrees, Refused, BadData
  <2> QED BY <1>1, <2>2 DEF q
<1>2. CASE ~ solFirst
  <2> DEFINE q == (inp * WORD) \div price
  <2>1. DlmmOut(inp, price, solFirst) = q
    BY <1>0, <1>2 DEF DlmmOut
  <2>2. q \in Nat
    <3>1. inp * WORD \in Nat
      BY <1>0
    <3> QED BY <1>0, <3>1, DivMod
  <2> HIDE DEF q
  <2>3. Agrees(q, DlmmOut(inp, price, solFirst))
    BY <2>1, <2>2 DEF Agrees
  <2> QED BY <1>2, <2>3 DEF q
<1> QED BY <1>1, <1>2

\* Where the inverse form of the program refuses its intermediate, the exact
\* result needs more than a word.
LEMMA ClmmAgrees ==
  ASSUME NEW inp \in 1 .. WORD - 1, NEW sq \in 1 .. Wide - 1, NEW solFirst \in BOOLEAN
  PROVE  Agrees(IF solFirst THEN (((inp * sq) \div WORD) * sq) \div WORD
                            ELSE (((inp * WORD) \div sq) * WORD) \div sq,
                ClmmOut(inp, sq, solFirst))
<1>0. inp \in Nat /\ sq \in Nat \ {0} /\ WORD \in Nat \ {0} /\ inp < WORD /\ Wide = WORD * WORD /\ Wide \in Nat
  BY WordIsPositive
<1>1. CASE solFirst
  <2> DEFINE t == (inp * sq) \div WORD
             q == (t * sq) \div WORD
  <2>1. inp * sq \in Nat /\ t \in Nat
    BY <1>0, DivMod
  <2> HIDE DEF t
  <2>2. t * sq \in Nat /\ q \in Nat
    BY <1>0, <2>1, DivMod
  <2>3. q < WORD <=> t * sq < Wide
    BY <1>0, <2>2, DivBelow
  <2>4. ClmmOut(inp, sq, solFirst) = IF inp * sq >= Wide \/ t * sq >= Wide THEN BadData ELSE q
    BY <1>1 DEF ClmmOut, t
  <2>5. ASSUME inp * sq >= Wide PROVE t * sq >= Wide
    <3>1. ~ t < WORD
      BY <1>0, <2>1, <2>5, DivBelow DEF t
    <3>2. sq >= WORD
      <4> SUFFICES ASSUME sq <= WORD - 1 PROVE FALSE
        BY <1>0
      <4>1. inp * sq <= inp * WORD
        BY <1>0, TimesMonotone
      <4>2. WORD * inp <= WORD * (WORD - 1) /\ WORD * (WORD - 1) = WORD * WORD - WORD
        BY <1>0, TimesMonotone
      <4>3. inp * WORD = WORD * inp /\ inp * WORD \in Nat /\ WORD * WORD \in Nat
        BY <1>0
      <4> QED BY <1>0, <2>1, <2>5, <4>1, <4>2, <4>3
    <3>3. t * WORD <= t * sq /\ WORD * WORD <= WORD * t /\ t * WORD = WORD * t /\ WORD * t \in Nat
      BY <1>0, <2>1, <3>1, <3>2, TimesMonotone
    <3> QED BY <1>0, <2>2, <3>3
  <2> HIDE DEF q
  <2>6. Agrees(q, ClmmOut(inp, sq, solFirst))
    BY <1>0, <2>1, <2>2, <2>3, <2>4, <2>5 DEF Agrees, Refused, BadData
  <2> QED BY <1>1, <2>6 DEF q, t
<1>2. CASE ~ solFirst
  <2> DEFINE t == (inp * WORD) \div sq
             q == (t * WORD) \div sq
  <2>1. inp * WORD \in Nat /\ t \in Nat
    BY <1>0, DivMod
  <2>2. t < WORD \/ inp >= sq
    <3> SUFFICES ASSUME inp < sq PROVE t < WORD
      BY <1>0
    <3>1. WORD * (inp + 1) <= WORD * sq /\ WORD * (inp + 1) = inp * WORD + WORD /\ WORD * sq = sq * WORD
      BY <1>0, TimesMonotone
    <3>2. sq * WORD \in Nat
      BY <1>0
    <3>3. inp * WORD < sq * WORD
      BY <1>0, <2>1, <3>1, <3>2
    <3> QED BY <1>0, <2>1, <3>3, DivBelow DEF t
  <2> HIDE DEF t
  <2>3. t * WORD \in Nat /\ q \in Nat /\ t * WORD = WORD * t
    BY <1>0, <2>1, DivMod
  <2>4. ClmmOut(inp, sq, solFirst) = IF ~ (t < WORD) THEN BadData ELSE ((t * WORD) % Wide) \div sq
    BY <1>2 DEF ClmmOut, t, Fits
  <2>5. ASSUME t < WORD PROVE (t * WORD) % Wide = t * WORD
    <3>1. WORD * (t + 1) <= WORD * WORD /\ WORD * (t + 1) = WORD * t + WORD
      BY <1>0, <2>1, <2>5, TimesMonotone
    <3>2. t * WORD < Wide
      BY <1>0, <2>3, <3>1
    <3> DEFINE n == t * WORD
    <3>3. n \in Nat /\ n < Wide
      BY <2>3, <3>2
    <3> HIDE DEF n
    <3>4. n % Wide = n
      BY <1>0, <3>3
    <3> QED BY <3>4 DEF n
  <2>6. ASSUME ~ t < WORD PROVE q >= WORD
    <3>1. sq * WORD <= t * WORD
      <4>1. WORD * sq <= WORD * inp /\ WORD * inp <= WORD * WORD /\ WORD * WORD <= WORD * t
        BY <1>0, <2>1, <2>2, <2>6, TimesMonotone
      <4>2. sq * WORD = WORD * sq /\ WORD * sq \in Nat /\ WORD * inp \in Nat /\ WORD * WORD \in Nat /\ WORD * t \in Nat
        BY <1>0, <2>1
      <4> QED BY <2>3, <4>1, <4>2
    <3>2. ~ t * WORD < sq * WORD
      BY <1>0, <2>3, <3>1
    <3> QED BY <1>0, <2>3, <3>2, DivBelow
  <2>7. ClmmOut(inp, sq, solFirst) = IF t < WORD THEN q ELSE BadData
    BY <2>4, <2>5
  <2> HIDE DEF q
  <2>8. Agrees(q, ClmmOut(inp, sq, solFirst))
    BY <1>0, <2>1, <2>3, <2>6, <2>7 DEF Agrees, Refused, BadData
  <2> QED BY <1>2, <2>8 DEF q, t
<1> QED BY <1>1, <1>2

LEMMA CpAgrees ==
  ASSUME NEW inp \in 1 .. WORD - 1, NEW rt \in Nat, NEW rs \in Nat
  PROVE  Agrees((rt * inp) \div (rs + inp), CpOut(rt, rs, inp))
<1> DEFINE q == (rt * inp) \div (rs + inp)
<1>1. rt * inp \in Nat /\ rs + inp \in Nat \ {0} /\ WORD \in Nat
  BY WordIsPositive
<1>2. q \in Nat
  BY <1>1, DivMod
<1>3. CpOut(rt, rs, inp) = IF q >= WORD THEN BadData ELSE q
  BY <1>1 DEF CpOut
<1> HIDE DEF q
<1>4. Agrees(q, CpOut(rt, rs, inp))
  BY <1>1, <1>2, <1>3 DEF Agrees, Refused, BadData
<1> QED BY <1>4 DEF q

LEMMA OutputsAgree ==
  ASSUME NEW pool, pool.venue \in {"dlmm", "clmm", "cp"}, pool.rt \in Nat, pool.rs \in Nat,
         pool.price \in 1 .. Wide - 1, pool.solFirst \in BOOLEAN, NEW inp \in 1 .. WORD - 1
  PROVE  Agrees(ExactOut(pool, inp), Expected(pool, inp))
<1>1. CASE pool.venue = "dlmm"
  BY <1>1, DlmmAgrees DEF ExactOut, Expected
<1>2. CASE pool.venue = "clmm"
  BY <1>2, ClmmAgrees DEF ExactOut, Expected
<1>3. CASE pool.venue = "cp"
  BY <1>3, CpAgrees DEF ExactOut, Expected
<1> QED BY <1>1, <1>2, <1>3

\* The fee is taken off the input.
LEMMA NetWithin ==
  ASSUME NEW fee, fee.num \in Nat, fee.den \in Nat, ValidFee(fee), NEW amount \in Nat
  PROVE  InputAfterFee(amount, fee) \in Int /\ InputAfterFee(amount, fee) <= amount
<1> DEFINE num == fee.num
           den == fee.den
<1>0. num \in Nat /\ den \in Nat /\ num # 0 /\ den # 0 /\ num < den
  BY DEF ValidFee
<1>1. InputAfterFee(amount, fee) = IF fee.pump THEN (amount * den) \div (den + num) - 1
                                               ELSE (amount * (den - num)) \div den
  BY DEF InputAfterFee
<1> HIDE DEF num, den
<1>2. ASSUME NEW x \in Nat, NEW d \in Nat \ {0}, x <= d
      PROVE  (amount * x) \div d \in Nat /\ (amount * x) \div d <= amount
  <2>1. amount * x <= amount * d /\ amount * x \in Nat /\ amount * d \in Nat /\ amount * d = d * amount + 0
    BY <1>2, TimesMonotone
  <2>2. (amount * d) \div d = amount
    BY <2>1, <1>2, OneQuotient
  <2>3. (amount * x) \div d <= (amount * d) \div d
    BY <2>1, <1>2, DivMonotone
  <2>4. (amount * x) \div d \in Nat
    BY <2>1, <1>2, DivMod
  <2> QED BY <2>2, <2>3, <2>4
<1>3. (amount * den) \div (den + num) \in Nat /\ (amount * den) \div (den + num) <= amount
  BY <1>0, <1>2
<1>4. (amount * (den - num)) \div den \in Nat /\ (amount * (den - num)) \div den <= amount
  <2>1. den - num \in Nat /\ den - num <= den
    BY <1>0
  <2> QED BY <1>0, <1>2, <2>1
<1> QED BY <1>1, <1>3, <1>4

\* A reserve below a word caps an input below a word.
LEMMA CapWithin ==
  ASSUME NEW fee, fee.num \in Nat, fee.den \in Nat, ValidFee(fee), NEW reserve \in 0 .. WORD - 1
  PROVE  FeeCap(reserve, fee) \in Nat /\ FeeCap(reserve, fee) < WORD
<1> DEFINE num == fee.num
           den == fee.den
<1>0. num \in Nat /\ den \in Nat \ {0} /\ num < den /\ reserve \in Nat /\ WORD \in Nat /\ reserve < WORD
  BY WordIsPositive DEF ValidFee
<1>1. FeeCap(reserve, fee) = (reserve * num) \div den
  BY DEF FeeCap
<1> HIDE DEF num, den
<1>2. reserve * num <= reserve * den /\ reserve * num \in Nat /\ reserve * den \in Nat
  BY <1>0, TimesMonotone
<1>3. den * (reserve + 1) <= den * WORD /\ den * (reserve + 1) = reserve * den + den /\ den * WORD \in Nat
  BY <1>0, TimesMonotone
<1>4. reserve * num < den * WORD
  <2> DEFINE u == reserve * num
             v == reserve * den
             z == den * WORD
  <2>1. u \in Nat /\ v \in Nat /\ z \in Nat /\ den \in Nat \ {0} /\ u <= v /\ v + den <= z
    BY <1>0, <1>2, <1>3
  <2> HIDE DEF u, v, z
  <2>2. u < z
    BY <2>1
  <2> QED BY <2>2 DEF u, z
<1>5. (reserve * num) \div den < WORD /\ (reserve * num) \div den \in Nat
  <2> DEFINE u == reserve * num
  <2>1. u \in Nat /\ u < den * WORD
    BY <1>2, <1>4
  <2> HIDE DEF u
  <2>2. u \div den < WORD /\ u \div den \in Nat
    BY <1>0, <2>1, DivBelow, DivMod
  <2> QED BY <2>2 DEF u
<1> QED BY <1>1, <1>5

\* The floor that the service quotes is the one the program computes, whenever
\* either of them gives one and a word holds the exact output.
THEOREM MirrorIsProgram ==
  ASSUME NEW pool \in PricePools, ValidFee(pool.fee), NEW amount \in 0 .. WORD - 1
  PROVE  LET p == KeylessLegFloor(pool, amount)
             m == MirrorFloor(pool, amount)
         IN  /\ ~ Refused(p) => m = p
             /\ ~ Refused(m) /\ ExactOut(pool, InputAfterFee(amount, pool.fee)) < WORD => p = m
<1>0. /\ pool.venue \in {"dlmm", "clmm", "cp"} /\ pool.ok = TRUE /\ pool.rt \in Nat /\ pool.rs \in 0 .. WORD - 1
      /\ pool.price \in 1 .. Wide - 1 /\ pool.solFirst \in BOOLEAN
      /\ pool.fee.num \in Nat /\ pool.fee.den \in Nat
  BY DEF PricePools, PoolsOf, Fees
<1> DEFINE net == InputAfterFee(amount, pool.fee)
           cap == FeeCap(pool.rs, pool.fee)
           e == Expected(pool, net)
           out == ExactOut(pool, net)
           p == KeylessLegFloor(pool, amount)
           m == MirrorFloor(pool, amount)
           shallow == DepthGated(pool) /\ pool.rs < MIN_DEPTH
<1>1. net \in Int /\ net <= amount /\ amount \in Nat
  BY <1>0, NetWithin, WordIsPositive
<1>2. cap \in Nat /\ ~ cap >= WORD
  BY <1>0, CapWithin, WordIsPositive
<1>3. ~ Refused(pool.price) /\ pool.rs \in Nat
  BY <1>0, WordIsPositive DEF Refused
<1>4. /\ p = IF amount > cap THEN OverCap
             ELSE IF ~ PriceVenue(pool) /\ shallow THEN Shallow
             ELSE IF net <= 0 THEN ZeroMin
             ELSE IF Refused(e) THEN BadData
             ELSE IF shallow THEN Shallow
             ELSE FloorFromExpected(e)
      /\ m = IF amount > cap THEN OverCap
             ELSE IF shallow THEN Shallow
             ELSE IF net <= 0 \/ out = 0 \/ Haircut(out) = 0 THEN ZeroMin
             ELSE Haircut(out)
  <2> HIDE DEF net, e, out
  <2> QED BY <1>0, <1>2, <1>3 DEF KeylessLegFloor, MirrorFloor, net, e, out
<1>5. net > 0 => Agrees(out, e)
  <2> SUFFICES ASSUME net > 0 PROVE Agrees(out, e)
    OBVIOUS
  <2>1. net \in 1 .. WORD - 1
    BY <1>1, WordIsPositive
  <2> HIDE DEF net
  <2> QED BY <1>0, <1>3, <2>1, OutputsAgree
<1>6. FloorFromExpected(e) = IF e = 0 THEN ZeroMin
                             ELSE IF Refused(e) \/ e >= WORD THEN BadData
                             ELSE IF Haircut(e) = 0 THEN ZeroMin ELSE Haircut(e)
  BY DEF FloorFromExpected
<1>7. Refused(OverCap) /\ Refused(Shallow) /\ Refused(ZeroMin) /\ Refused(BadData)
  BY DEF Refused, OverCap, Shallow, ZeroMin, BadData
<1> SUFFICES /\ ~ Refused(p) => m = p
             /\ ~ Refused(m) /\ out < WORD => p = m
  OBVIOUS
<1> HIDE DEF net, cap, e, out, p, m, shallow
<1>8. ASSUME ~ Refused(p) PROVE m = p
  <2>1. ~ (amount > cap) /\ ~ (net <= 0) /\ ~ shallow /\ ~ Refused(e) /\ p = FloorFromExpected(e)
    BY <1>4, <1>7, <1>8
  <2>2. e = out
    BY <1>1, <1>5, <2>1 DEF Agrees
  <2> QED BY <1>4, <1>6, <1>7, <1>8, <2>1, <2>2
<1>9. ASSUME ~ Refused(m), out < WORD PROVE p = m
  <2>1. ~ (amount > cap) /\ ~ shallow /\ ~ (net <= 0) /\ out # 0 /\ Haircut(out) # 0 /\ m = Haircut(out)
    BY <1>4, <1>7, <1>9
  <2>2. e = out /\ out \in Nat
    BY <1>1, <1>5, <1>9, <2>1 DEF Agrees
  <2>3. ~ Refused(e) /\ ~ (e >= WORD)
    BY <1>9, <2>2, WordIsPositive DEF Refused
  <2> QED BY <1>4, <1>6, <2>1, <2>2, <2>3
<1> QED BY <1>8, <1>9

-----------------------------------------------------------------------------
(* Pump curves *)

LEMMA QuotientAtLeast ==
  ASSUME NEW m \in Nat, NEW d \in Nat \ {0}, NEW q \in Nat, d * q <= m
  PROVE  q <= m \div d
<1>1. m \div d \in Nat /\ ~ m < d * q
  BY DivMod
<1>2. ~ m \div d < q
  BY <1>1, DivBelow
<1> QED BY <1>1, <1>2

LEMMA DivAntitone ==
  ASSUME NEW m \in Nat, NEW d \in Nat \ {0}, NEW e \in Nat, d <= e
  PROVE  m \div e <= m \div d
<1> DEFINE q == m \div e
<1>1. q \in Nat /\ e * q <= m
  <2>1. e \in Nat \ {0}
    OBVIOUS
  <2> QED BY <2>1, DivMod
<1> HIDE DEF q
<1>2. d * q <= e * q /\ d * q \in Nat /\ e * q \in Nat
  <2>1. q * d <= q * e
    BY <1>1, TimesMonotone
  <2> QED BY <1>1, <2>1
<1>3. d * q <= m
  BY <1>1, <1>2
<1>4. q <= m \div d
  BY <1>1, <1>3, QuotientAtLeast
<1> QED BY <1>4 DEF q

\* A larger input never buys less of a constant-product pool.
LEMMA CpMonotone ==
  ASSUME NEW rt \in Nat, NEW rs \in Nat, NEW m \in Nat \ {0}, NEW n \in Nat, m <= n
  PROVE  (rt * m) \div (rs + m) <= (rt * n) \div (rs + n)
<1> DEFINE q == (rt * m) \div (rs + m)
           d == n - m
<1>1. rt * m \in Nat /\ rs + m \in Nat \ {0} /\ rt * n \in Nat /\ rs + n \in Nat \ {0} /\ d \in Nat
  OBVIOUS
<1>2. q \in Nat /\ (rs + m) * q <= rt * m
  <2> DEFINE u == rt * m
             v == rs + m
  <2>1. u \in Nat /\ v \in Nat \ {0}
    BY <1>1
  <2> HIDE DEF u, v
  <2>2. u \div v \in Nat /\ v * (u \div v) <= u
    BY <2>1, DivMod
  <2> QED BY <2>2 DEF u, v
<1> HIDE DEF q
<1>3. q <= rt
  <2> SUFFICES ASSUME rt + 1 <= q PROVE FALSE
    BY <1>2
  <2>1. m * (rt + 1) <= m * q /\ m * (rt + 1) = rt * m + m
    BY <1>2, TimesMonotone
  <2>2. (rs + m) * q = rs * q + m * q /\ rs * q \in Nat /\ m * q \in Nat
    BY <1>2
  <2> QED BY <1>1, <1>2, <2>1, <2>2
<1>4. (rs + n) * q <= rt * n
  <2>1. d * q <= d * rt /\ d * q \in Nat /\ d * rt \in Nat
    BY <1>1, <1>2, <1>3, TimesMonotone
  <2>2. (rs + n) * q = (rs + m) * q + d * q
    <3>1. rs + n = (rs + m) + d
      OBVIOUS
    <3>2. ASSUME NEW r \in Nat, NEW t \in Nat PROVE (r + t) * q = r * q + t * q
      BY <1>2
    <3> HIDE DEF d
    <3> QED BY <1>1, <3>1, <3>2
  <2>3. rt * n = rt * m + d * rt
    <3>1. n = m + d
      OBVIOUS
    <3>2. ASSUME NEW t \in Nat PROVE rt * (m + t) = rt * m + t * rt
      OBVIOUS
    <3> HIDE DEF d
    <3> QED BY <1>1, <3>1, <3>2
  <2>4. (rs + m) * q \in Nat
    BY <1>1, <1>2
  <2> HIDE DEF d
  <2> QED BY <1>1, <1>2, <2>1, <2>2, <2>3, <2>4
<1>5. q <= (rt * n) \div (rs + n)
  BY <1>1, <1>2, <1>4, QuotientAtLeast
<1> QED BY <1>5 DEF q

\* Pump's fee of k basis points leaves this much of a leg, before the lamport
\* that its rounding may take.
Left(n, k) == (n * 10000) \div (10000 + k)

Bought(pool, inp) == (pool.rt * inp) \div (pool.rs + inp)
Cut(out) == (out * 9900) \div 10000
CapAt(pool, k) == (pool.rs * k) \div 10000

\* A curve whose raw SOL side is below a word.
CurvePool(pool) ==
  /\ pool.venue = "curve" /\ pool.ok = TRUE /\ pool.price = 1
  /\ pool.rt \in Nat /\ pool.rs \in 0 .. RealWord - 1

\* The floor of a leg on it, in one formula.
FloorAt(pool, n, k) ==
  IF n > CapAt(pool, k) THEN OverCap
  ELSE IF Left(n, k) - 1 <= 0 THEN ZeroMin
  ELSE IF Bought(pool, Left(n, k) - 1) >= RealWord THEN BadData
  ELSE IF Cut(Bought(pool, Left(n, k) - 1)) = 0 THEN ZeroMin
  ELSE Cut(Bought(pool, Left(n, k) - 1))

LEMMA RealWordIsPositive == RealWord \in Nat \ {0}
BY SMT DEF RealWord

LEMMA LeftIsNat ==
  ASSUME NEW n \in Nat, NEW k \in Nat
  PROVE  Left(n, k) \in Nat
<1>1. n * 10000 \in Nat /\ 10000 + k \in Nat \ {0}
  OBVIOUS
<1> QED BY <1>1, DivMod DEF Left

LEMMA BoughtIsNat ==
  ASSUME NEW pool, CurvePool(pool), NEW inp \in Nat \ {0}
  PROVE  Bought(pool, inp) \in Nat
<1>0. pool.rt \in Nat /\ pool.rs \in Nat
  BY RealWordIsPositive DEF CurvePool
<1>1. pool.rt * inp \in Nat /\ pool.rs + inp \in Nat \ {0}
  BY <1>0
<1> QED BY <1>1, DivMod DEF Bought

LEMMA CutIsNat ==
  ASSUME NEW out \in Nat
  PROVE  Cut(out) \in Nat /\ 100 * Cut(out) <= 99 * out
<1>1. out * 9900 \in Nat
  OBVIOUS
<1> QED BY <1>1, DivMod DEF Cut

LEMMA CapAtIsSmall ==
  ASSUME NEW pool, CurvePool(pool), NEW k \in 1 .. 1000
  PROVE  CapAt(pool, k) \in Nat /\ CapAt(pool, k) < RealWord /\ CapAt(pool, 1) <= CapAt(pool, k)
<1>1. pool.rs * 1 <= pool.rs * k /\ pool.rs * k <= pool.rs * 10000 /\ pool.rs * 1 \in Nat /\ pool.rs * k \in Nat
  <2>1. pool.rs \in Nat
    BY RealWordIsPositive DEF CurvePool
  <2> QED BY <2>1, TimesMonotone
<1>2. pool.rs * k < 10000 * RealWord
  <2> DEFINE m == pool.rs * k
             r == pool.rs
  <2>1. m \in Nat /\ m <= r * 10000 /\ r \in Nat /\ r < RealWord
    BY <1>1, RealWordIsPositive DEF CurvePool
  <2> HIDE DEF m, r
  <2>2. m < 10000 * RealWord
    BY <2>1, RealWordIsPositive
  <2> QED BY <2>2 DEF m
<1> DEFINE m == pool.rs * k
           o == pool.rs * 1
<1>3. m \in Nat /\ o \in Nat /\ o <= m /\ m < 10000 * RealWord
  BY <1>1, <1>2
<1> HIDE DEF m, o
<1>4. m \div 10000 \in Nat /\ m \div 10000 < RealWord /\ o \div 10000 <= m \div 10000
  BY <1>3, DivMod, DivBelow, DivMonotone, RealWordIsPositive
<1> QED BY <1>4 DEF CapAt, m, o

\* That is what keyless_leg_floor computes.
LEMMA CurveFloor ==
  ASSUME NEW pool, CurvePool(pool), NEW k \in 1 .. 1000, pool.fee = Real!PumpFee(k), NEW n \in Nat
  PROVE  Real!KeylessLegFloor(pool, n) = FloorAt(pool, n, k)
<1> DEFINE net == Real!InputAfterFee(n, pool.fee)
           cap == Real!FeeCap(pool.rs, pool.fee)
           e == Real!Expected(pool, net)
           q == Bought(pool, Left(n, k) - 1)
<1>0. /\ pool.venue = "curve" /\ pool.ok = TRUE /\ pool.price = 1
      /\ pool.rt \in Nat /\ pool.rs \in Nat
      /\ pool.fee.num = k /\ pool.fee.den = 10000 /\ pool.fee.pump = TRUE
  BY RealWordIsPositive DEF CurvePool, Real!PumpFee
<1>1. net = Left(n, k) - 1 /\ cap = CapAt(pool, k)
  BY <1>0 DEF Real!InputAfterFee, Real!FeeCap, Left, CapAt
<1>2. ~ Real!Refused(pool.price) /\ Real!ValidFee(pool.fee) /\ ~ Real!PriceVenue(pool) /\ ~ Real!DepthGated(pool)
  BY <1>0 DEF Real!Refused, Real!ValidFee, Real!PriceVenue, Real!DepthGated
<1>3. cap \in Nat /\ ~ cap >= RealWord
  <2>1. CapAt(pool, k) \in Nat /\ CapAt(pool, k) < RealWord
    BY CapAtIsSmall
  <2> HIDE DEF net, cap, e, q
  <2> QED BY <1>1, <2>1, RealWordIsPositive
<1>4. Real!KeylessLegFloor(pool, n) = IF n > cap THEN OverCap
                                      ELSE IF net <= 0 THEN ZeroMin
                                      ELSE IF Real!Refused(e) THEN BadData
                                      ELSE Real!FloorFromExpected(e)
  <2> HIDE DEF net, cap, e
  <2> QED BY <1>0, <1>2, <1>3 DEF Real!KeylessLegFloor, net, cap, e, Real!OverCap, Real!ZeroMin, Real!BadData, OverCap, ZeroMin, BadData
<1>5. ASSUME ~ net <= 0
      PROVE  /\ q \in Nat /\ Cut(q) \in Nat
             /\ e = IF q >= RealWord THEN BadData ELSE q
  <2>1. net \in Nat \ {0}
    <3>1. k \in Nat
      OBVIOUS
    <3>2. Left(n, k) \in Nat
      BY <3>1, LeftIsNat
    <3>3. net = Left(n, k) - 1
      BY <1>1
    <3> HIDE DEF net
    <3> QED BY <1>5, <3>2, <3>3
  <2>2. q \in Nat
    BY <1>1, <2>1, BoughtIsNat
  <2>3. ~ pool.rs + net = 0
    BY <1>0, <2>1
  <2>4. e = Real!CpOut(pool.rt, pool.rs, net)
    BY <1>0 DEF Real!Expected
  <2>5. e = IF q >= RealWord THEN BadData ELSE q
    <3> HIDE DEF net, e
    <3> QED BY <1>1, <2>3, <2>4 DEF Real!CpOut, Bought, Real!BadData, BadData
  <2> QED BY <2>2, <2>5, CutIsNat
<1>6. Real!FloorFromExpected(e) = IF e = 0 THEN ZeroMin
                                  ELSE IF Real!Refused(e) \/ e >= RealWord THEN BadData
                                  ELSE IF Cut(e) = 0 THEN ZeroMin ELSE Cut(e)
  <2> HIDE DEF e
  <2>1. Real!Haircut(e) = Cut(e)
    <3>1. 10000 - 100 = 9900
      OBVIOUS
    <3> QED BY <3>1 DEF Real!Haircut, Cut
  <2> QED BY <2>1 DEF Real!FloorFromExpected, Real!ZeroMin, Real!BadData, ZeroMin, BadData
<1>7. Cut(0) = 0
  BY DEF Cut
<1> HIDE DEF net, cap, e, q
<1>8. FloorAt(pool, n, k) = IF n > cap THEN OverCap
                            ELSE IF net <= 0 THEN ZeroMin
                            ELSE IF q >= RealWord THEN BadData
                            ELSE IF Cut(q) = 0 THEN ZeroMin ELSE Cut(q)
  BY <1>1 DEF FloorAt, q
<1>9. CASE net <= 0
  BY <1>4, <1>8, <1>9
<1>10. CASE ~ net <= 0 /\ q >= RealWord
  <2>1. Real!Refused(e)
    BY <1>5, <1>10 DEF Real!Refused, BadData
  <2> QED BY <1>4, <1>8, <1>10, <2>1
<1>11. CASE ~ net <= 0 /\ ~ q >= RealWord
  <2>1. e = q /\ q \in Nat /\ Cut(q) \in Nat
    BY <1>5, <1>11
  <2>2. ~ Real!Refused(e)
    BY <2>1 DEF Real!Refused
  <2> QED BY <1>4, <1>6, <1>7, <1>8, <1>11, <2>1, <2>2
<1> QED BY <1>9, <1>10, <1>11

\* One basis point is the strictest fee: it admits no larger input and demands
\* no smaller output than any other.
LEMMA OneBpsIsStrictest ==
  ASSUME NEW pool, CurvePool(pool), NEW k \in 1 .. 1000, NEW n \in Nat, ~ Refused(FloorAt(pool, n, 1))
  PROVE  FloorAt(pool, n, k) = ZeroMin \/ FloorAt(pool, n, k) \in 1 .. FloorAt(pool, n, 1)
<1> DEFINE nk == Left(n, k) - 1
           n1 == Left(n, 1) - 1
           qk == Bought(pool, nk)
           q1 == Bought(pool, n1)
           hk == Cut(qk)
           h1 == Cut(q1)
<1>1. CapAt(pool, 1) \in Nat /\ CapAt(pool, k) \in Nat /\ CapAt(pool, 1) <= CapAt(pool, k)
  <2>1. 1 \in 1 .. 1000
    OBVIOUS
  <2> QED BY <2>1, CapAtIsSmall
<1>2. n1 \in Int /\ nk \in Int /\ nk <= n1
  <2> DEFINE m == n * 10000
             d == 10000 + 1
             e == 10000 + k
  <2>1. m \in Nat /\ d \in Nat \ {0} /\ e \in Nat /\ d <= e
    OBVIOUS
  <2>2. Left(n, k) = m \div e /\ Left(n, 1) = m \div d
    BY DEF Left
  <2> HIDE DEF m, d, e
  <2>3. Left(n, k) <= Left(n, 1)
    BY <2>1, <2>2, DivAntitone
  <2>4. k \in Nat /\ 1 \in Nat
    OBVIOUS
  <2>5. Left(n, k) \in Nat /\ Left(n, 1) \in Nat
    BY <2>4, LeftIsNat
  <2> QED BY <2>3, <2>5
<1>3. FloorAt(pool, n, 1) = IF n > CapAt(pool, 1) THEN OverCap
                            ELSE IF n1 <= 0 THEN ZeroMin
                            ELSE IF q1 >= RealWord THEN BadData
                            ELSE IF h1 = 0 THEN ZeroMin ELSE h1
  BY DEF FloorAt
<1>4. FloorAt(pool, n, k) = IF n > CapAt(pool, k) THEN OverCap
                            ELSE IF nk <= 0 THEN ZeroMin
                            ELSE IF qk >= RealWord THEN BadData
                            ELSE IF hk = 0 THEN ZeroMin ELSE hk
  BY DEF FloorAt
<1> HIDE DEF nk, n1
<1>5. nk > 0 => qk \in Nat /\ hk \in Nat
  <2> SUFFICES ASSUME nk > 0 PROVE qk \in Nat /\ hk \in Nat
    OBVIOUS
  <2>1. nk \in Nat \ {0}
    BY <1>2
  <2> QED BY <2>1, BoughtIsNat, CutIsNat
<1>6. n1 > 0 => q1 \in Nat /\ h1 \in Nat
  <2> SUFFICES ASSUME n1 > 0 PROVE q1 \in Nat /\ h1 \in Nat
    OBVIOUS
  <2>1. n1 \in Nat \ {0}
    BY <1>2
  <2> QED BY <2>1, BoughtIsNat, CutIsNat
<1>7. nk > 0 => qk <= q1 /\ hk <= h1
  <2> SUFFICES ASSUME nk > 0 PROVE qk <= q1 /\ hk <= h1
    OBVIOUS
  <2>1. nk \in Nat \ {0} /\ n1 \in Nat /\ nk <= n1 /\ qk \in Nat /\ q1 \in Nat
    BY <1>2, <1>5, <1>6
  <2>2. qk <= q1
    <3>1. pool.rt \in Nat /\ pool.rs \in Nat
      BY RealWordIsPositive DEF CurvePool
    <3> QED BY <2>1, <3>1, CpMonotone DEF Bought
  <2> HIDE DEF qk, q1
  <2>3. qk * 9900 <= q1 * 9900 /\ qk * 9900 \in Nat /\ q1 * 9900 \in Nat
    BY <2>1, <2>2
  <2>4. hk <= h1
    BY <2>3, DivMonotone DEF Cut
  <2> QED BY <2>2, <2>4
<1> HIDE DEF qk, q1, hk, h1
<1>8. n <= CapAt(pool, 1) /\ n1 > 0 /\ ~ q1 >= RealWord /\ h1 # 0 /\ FloorAt(pool, n, 1) = h1
  BY <1>1, <1>2, <1>3 DEF Refused, OverCap, ZeroMin, BadData
<1>9. CASE nk <= 0
  BY <1>1, <1>4, <1>8, <1>9
<1>10. CASE nk > 0
  <2>1. ~ (n > CapAt(pool, k)) /\ ~ (nk <= 0)
    BY <1>1, <1>2, <1>8, <1>10
  <2>2. ~ (qk >= RealWord)
    BY <1>5, <1>6, <1>7, <1>8, <1>10, RealWordIsPositive
  <2>3. FloorAt(pool, n, k) = IF hk = 0 THEN ZeroMin ELSE hk
    BY <1>4, <2>1, <2>2
  <2>4. hk \in Nat /\ h1 \in Nat /\ hk <= h1
    BY <1>5, <1>6, <1>7, <1>8, <1>10
  <2> QED BY <1>8, <2>3, <2>4
<1> QED BY <1>2, <1>9, <1>10

LEMMA UpToOneBasisPoint ==
  ASSUME NEW amount \in Nat, NEW bps \in Nat
  PROVE  Real!CeilBps(amount, bps) \in Nat /\ 10000 * Real!CeilBps(amount, bps) <= amount * bps + 9999
<1> DEFINE m == amount * bps
<1>1. m \in Nat
  OBVIOUS
<1>2. Real!CeilBps(amount, bps) = (m + 10000 - 1) \div 10000
  BY DEF Real!CeilBps
<1> HIDE DEF m
<1>3. (m + 10000 - 1) \div 10000 \in Nat /\ 10000 * ((m + 10000 - 1) \div 10000) <= m + 9999
  BY <1>1
<1> QED BY <1>2, <1>3 DEF m

\* Two fees rounded up separately exceed the budget by one lamport at most.
LEMMA OvershootIsSmall ==
  ASSUME NEW n \in Nat, NEW protocol \in Nat, NEW creator \in Nat, NEW k, k = protocol + creator
  PROVE  LET net  == Left(n, k)
             fees == Real!CeilBps(net, protocol) + Real!CeilBps(net, creator)
         IN  Real!Overshoot(net, fees, n) \in 0 .. 1
<1> DEFINE net == Left(n, k)
           p == Real!CeilBps(net, protocol)
           c == Real!CeilBps(net, creator)
           u == net * protocol
           v == net * creator
<1>1. k \in Nat /\ net \in Nat
  <2>1. k \in Nat
    OBVIOUS
  <2> QED BY <2>1, LeftIsNat
<1>2. p \in Nat /\ c \in Nat /\ 10000 * p <= u + 9999 /\ 10000 * c <= v + 9999
  <2> HIDE DEF net
  <2>1. p \in Nat /\ 10000 * p <= u + 9999
    BY <1>1, UpToOneBasisPoint
  <2>2. c \in Nat /\ 10000 * c <= v + 9999
    BY <1>1, UpToOneBasisPoint
  <2> QED BY <2>1, <2>2
<1>3. 10000 * net + u + v <= n * 10000 /\ u \in Nat /\ v \in Nat
  <2> DEFINE m == n * 10000
             d == 10000 + k
  <2>1. m \in Nat /\ d \in Nat \ {0} /\ net = m \div d
    BY <1>1 DEF Left
  <2> HIDE DEF m, d, net
  <2>2. d * net <= m
    BY <2>1, DivMod
  <2>3. d * net = 10000 * net + u + v
    <3>1. (10000 + (protocol + creator)) * net = 10000 * net + net * protocol + net * creator
      BY <1>1
    <3> QED BY <3>1 DEF d
  <2>4. u \in Nat /\ v \in Nat
    BY <1>1
  <2> QED BY <2>2, <2>3, <2>4 DEF m
<1> HIDE DEF net, p, c, u, v
<1>4. net + (p + c) <= n + 1
  BY <1>1, <1>2, <1>3
<1>5. Real!Overshoot(net, p + c, n) \in 0 .. 1
  BY <1>1, <1>2, <1>4 DEF Real!Overshoot
<1> QED BY <1>5 DEF net, p, c

\* From MinLeg on, what Pump pays of a leg covers the floor of that leg: the
\* tolerance of the floor is more than the lamport of the fees.
LEMMA PaidCoversFloor ==
  ASSUME NEW pool, CurvePool(pool), NEW protocol \in Nat, NEW creator \in Nat,
         NEW k \in 1 .. 1000, k = protocol + creator,
         NEW n \in Nat, n >= MinLeg, ~ Refused(FloorAt(pool, n, k))
  PROVE  Real!ExpectedOutput(pool.rt, pool.rs, n, protocol, creator) >= FloorAt(pool, n, k)
<1> DEFINE net == Left(n, k)
           fees == Real!CeilBps(net, protocol) + Real!CeilBps(net, creator)
           over == Real!Overshoot(net, fees, n)
           inp == net - over - 1
           q == Bought(pool, net - 1)
           h == Cut(q)
           paid == Bought(pool, inp)
           rt == pool.rt
           rs == pool.rs
<1>0. rt \in Nat /\ rs \in Nat /\ k \in Nat
  BY RealWordIsPositive DEF CurvePool
<1>1. net \in Nat /\ net >= 101
  <2>1. n >= 300
    BY DEF MinLeg
  <2> DEFINE m == n * 10000
             d == 10000 + k
  <2>2. m \in Nat /\ d \in Nat \ {0} /\ net = m \div d /\ d * 101 <= m
    BY <1>0, <2>1 DEF Left
  <2> HIDE DEF m, d, net
  <2>3. 101 <= net
    BY <2>2, QuotientAtLeast
  <2>4. net \in Nat
    BY <2>2, DivMod
  <2> QED BY <2>3, <2>4
<1>2. over \in 0 .. 1
  BY OvershootIsSmall
<1>3. Real!ExpectedOutput(rt, rs, n, protocol, creator)
        = IF inp <= 0 \/ rt = 0 \/ paid = 0 THEN ZeroMin ELSE paid
  <2>1. net = (n * 10000) \div (10000 + protocol + creator)
    <3>1. 10000 + protocol + creator = 10000 + k
      OBVIOUS
    <3> QED BY <3>1 DEF Left
  <2> HIDE DEF net
  <2> QED BY <2>1 DEF Real!ExpectedOutput, Bought, ZeroMin, Real!ZeroMin
<1> HIDE DEF net, over
<1>4. inp \in Nat \ {0} /\ net - 1 \in Nat \ {0} /\ inp >= net - 2
  BY <1>1, <1>2
<1>5. q \in Nat /\ paid \in Nat
  BY <1>4, BoughtIsNat
<1>6. h \in Nat /\ 100 * h <= 99 * q
  BY <1>5, CutIsNat
<1>7. FloorAt(pool, n, k) = h /\ h # 0
  <2>1. FloorAt(pool, n, k) = IF n > CapAt(pool, k) THEN OverCap
                              ELSE IF net - 1 <= 0 THEN ZeroMin
                              ELSE IF q >= RealWord THEN BadData
                              ELSE IF h = 0 THEN ZeroMin ELSE h
    BY DEF FloorAt, net
  <2> HIDE DEF q, h
  <2> QED BY <2>1, <1>6 DEF Refused, OverCap, ZeroMin, BadData
<1>8. (rs + (net - 1)) * q <= rt * (net - 1)
  <2> DEFINE u == rt * (net - 1)
             v == rs + (net - 1)
  <2>0. q = u \div v
    BY DEF Bought
  <2>1. u \in Nat /\ v \in Nat \ {0}
    <3> HIDE DEF rt, rs
    <3>1. ASSUME NEW o \in Nat \ {0} PROVE rt * o \in Nat /\ rs + o \in Nat \ {0}
      BY <1>0
    <3> QED BY <1>4, <3>1
  <2> HIDE DEF u, v, q
  <2>2. v * q <= u
    BY <2>0, <2>1, DivMod
  <2> QED BY <2>2 DEF u, v
<1>9. h <= paid
  <2> DEFINE o == net - 1
             x == (rs + inp) * h
             y == (rs + o) * q
             z == rt * inp
             w == rt * o
  <2>0. o \in Nat \ {0} /\ inp <= o /\ 99 * o <= 100 * inp
    BY <1>1, <1>2, <1>4
  <2> HIDE DEF inp, h, q, o
  <2>1. x \in Nat /\ y \in Nat /\ z \in Nat /\ w \in Nat /\ rs + inp \in Nat \ {0}
    BY <1>0, <1>4, <1>5, <1>6, <2>0
  <2>2. 100 * x <= 99 * y
    <3> DEFINE a1 == rs + inp
               a2 == rs + o
               h1 == 100 * h
               q1 == 99 * q
    <3>1. a1 \in Nat /\ a2 \in Nat /\ a1 <= a2 /\ h1 \in Nat /\ q1 \in Nat /\ h1 <= q1
      BY <1>0, <1>4, <1>5, <1>6, <2>0
    <3>2. 100 * x = a1 * h1 /\ 99 * y = a2 * q1
      <4>1. ASSUME NEW s \in Nat, NEW t \in Nat, NEW l \in Nat PROVE l * (s * t) = s * (l * t)
        OBVIOUS
      <4>2. a1 \in Nat /\ a2 \in Nat /\ h \in Nat /\ q \in Nat
        BY <3>1, <1>5, <1>6
      <4> HIDE DEF a1, a2
      <4>3. 100 * (a1 * h) = a1 * (100 * h) /\ 99 * (a2 * q) = a2 * (99 * q)
        BY <4>1, <4>2
      <4> QED BY <4>3 DEF a1, a2
    <3> HIDE DEF a1, a2, h1, q1
    <3>3. a1 * h1 <= a1 * q1 /\ a1 * q1 \in Nat /\ a1 * h1 \in Nat
      BY <3>1, TimesMonotone
    <3>4. q1 * a1 <= q1 * a2 /\ q1 * a1 = a1 * q1 /\ q1 * a2 = a2 * q1
      BY <3>1, TimesMonotone
    <3> DEFINE r1 == a1 * h1
               r2 == a1 * q1
               r3 == a2 * q1
    <3>5. r1 <= r2 /\ r2 <= r3 /\ r1 \in Int /\ r2 \in Int /\ r3 \in Int
      BY <3>1, <3>3, <3>4
    <3> HIDE DEF r1, r2, r3
    <3>6. r1 <= r3
      BY <3>5
    <3> QED BY <3>2, <3>6 DEF r1, r3
  <2>3. 99 * w <= 100 * z
    <3>1. rt * (99 * o) <= rt * (100 * inp) /\ rt * (99 * o) = 99 * w /\ rt * (100 * inp) = 100 * z
      <4>1. 99 * o \in Int /\ 100 * inp \in Int
        BY <1>4, <2>0 DEF inp
      <4>2. rt * (99 * o) <= rt * (100 * inp)
        BY <1>0, <2>0, <4>1, TimesMonotone
      <4>3. ASSUME NEW t \in Int, NEW l \in Nat PROVE rt * (l * t) = l * (rt * t)
        BY <1>0
      <4>4. inp \in Int /\ o \in Int
        BY <1>4, <2>0
      <4> QED BY <4>2, <4>3, <4>4
    <3> QED BY <3>1
  <2>4. y <= w
    BY <1>8 DEF o
  <2>5. x <= z
    <3> HIDE DEF x, y, z, w
    <3> QED BY <2>1, <2>2, <2>3, <2>4
  <2>6. h <= z \div (rs + inp)
    <3> DEFINE d == rs + inp
    <3>1. z \in Nat /\ d \in Nat \ {0} /\ h \in Nat /\ d * h <= z
      BY <1>6, <2>1, <2>5
    <3> HIDE DEF z, d
    <3>2. h <= z \div d
      BY <3>1, QuotientAtLeast
    <3> QED BY <3>2 DEF d
  <2> QED BY <2>6 DEF Bought
<1>10. rt # 0
  <2> SUFFICES ASSUME rt = 0 PROVE FALSE
    OBVIOUS
  <2>1. (rs + (net - 1)) * q <= 0
    <3> HIDE DEF rt, rs, q
    <3>1. rt * (net - 1) = 0
      BY <1>4
    <3> QED BY <1>8, <3>1
  <2> DEFINE v == rs + (net - 1)
  <2>2. v \in Nat \ {0} /\ v * q <= 0
    <3> HIDE DEF rt, rs, q
    <3>1. ASSUME NEW o \in Nat \ {0} PROVE rs + o \in Nat \ {0}
      BY <1>0
    <3>2. v \in Nat \ {0}
      BY <1>4, <3>1
    <3> QED BY <2>1, <3>2
  <2> HIDE DEF v, q
  <2>3. 1 * q <= v * q
    <3>1. q * 1 <= q * v
      BY <1>5, <2>2, TimesMonotone
    <3> QED BY <1>5, <2>2, <3>1
  <2>4. q = 0
    BY <1>5, <2>2, <2>3
  <2> QED BY <1>6, <1>7, <2>4
<1> HIDE DEF paid, h, inp
<1> QED BY <1>3, <1>4, <1>5, <1>6, <1>7, <1>9, <1>10

-----------------------------------------------------------------------------
(* The properties of an input *)

LEMMA InputShapes ==
  ASSUME input \in TypedInputs
  PROVE  /\ input.kind \in {"split", "caps", "curve", "price", "tiers", "bin"}
         /\ input.kind = "split" => input.weights \in Seq(Nat) /\ input.n \in Nat
         /\ input.kind = "caps"  => input.weights \in Seq(Nat) /\ input.caps \in Seq(Nat)
         /\ input.kind = "curve" => /\ input.pool \in CurvePools
                                    /\ input.protocol \in Nat /\ input.creator \in Nat /\ input.n \in Nat
         /\ input.kind = "price" => input.pool \in PricePools /\ input.n \in 0 .. WORD - 1
         /\ input.kind = "tiers" => input.tiers \in Seq([from : Nat]) /\ input.n \in Nat
         /\ input.kind = "bin"   => input.step \in Nat /\ input.n \in Int
<1> DEFINE S1 == Seq(Nat)
           S2 == Seq([from : Nat])
           S3 == 0 .. WORD - 1
<1>1. \/ input \in [kind : {"split"}, weights : S1, n : Nat, last : Nat]
      \/ input \in [kind : {"caps"}, weights : S1, caps : S1, n : Nat, last : Nat]
      \/ input \in [kind : {"curve"}, pool : CurvePools, protocol : Nat, creator : Nat, n : Nat, last : Nat]
      \/ input \in [kind : {"price"}, pool : PricePools, n : S3, last : S3]
      \/ input \in [kind : {"tiers"}, tiers : S2, n : Nat, last : Nat]
      \/ input \in [kind : {"bin"}, step : Nat, n : Int, last : Int]
  BY Zenon DEF TypedInputs
<1> HIDE DEF S1, S2, S3
<1> SUFFICES /\ input.kind \in {"split", "caps", "curve", "price", "tiers", "bin"}
             /\ input.kind = "split" => input.weights \in S1 /\ input.n \in Nat
             /\ input.kind = "caps"  => input.weights \in S1 /\ input.caps \in S1
             /\ input.kind = "curve" => /\ input.pool \in CurvePools
                                        /\ input.protocol \in Nat /\ input.creator \in Nat /\ input.n \in Nat
             /\ input.kind = "price" => input.pool \in PricePools /\ input.n \in S3
             /\ input.kind = "tiers" => input.tiers \in S2 /\ input.n \in Nat
             /\ input.kind = "bin"   => input.step \in Nat /\ input.n \in Int
  BY DEF S1, S2, S3
<1> QED BY <1>1

LEMMA AtFeeIsCurve ==
  ASSUME input.pool \in CurvePools, NEW fee
  PROVE  CurvePool(AtFee(fee)) /\ AtFee(fee).fee = fee /\ AtFee(fee).rs = input.pool.rs
                               /\ AtFee(fee).rt = input.pool.rt
<1> DEFINE p == input.pool
           S == 0 .. RealWord - 1
<1>1. p \in [venue : {"curve"}, ok : {TRUE}, rt : Nat, rs : S, price : {1}, solFirst : BOOLEAN, fee : Fees]
  BY Zenon DEF CurvePools, PoolsOf
<1>2. AtFee(fee) = [p EXCEPT !.fee = fee]
  BY Zenon DEF AtFee
<1> SUFFICES /\ [p EXCEPT !.fee = fee].venue = "curve" /\ [p EXCEPT !.fee = fee].ok = TRUE
             /\ [p EXCEPT !.fee = fee].price = 1 /\ [p EXCEPT !.fee = fee].rt \in Nat
             /\ [p EXCEPT !.fee = fee].rs \in S /\ [p EXCEPT !.fee = fee].fee = fee
             /\ [p EXCEPT !.fee = fee].rs = p.rs /\ [p EXCEPT !.fee = fee].rt = p.rt
  BY <1>2 DEF CurvePool
<1> HIDE DEF p, S
<1> QED BY <1>1

LEMMA ParsedFee ==
  ASSUME input.protocol \in Nat, input.creator \in Nat
  PROVE  \E k \in 1 .. 1000 :
           /\ Parsed = Real!PumpFee(k) /\ Parsed.num = k
           /\ k = input.protocol + input.creator \/ (k = 1 /\ ~ input.protocol + input.creator \in 1 .. 1000)
<1> DEFINE total == input.protocol + input.creator
<1>1. ASSUME NEW k PROVE Real!PumpFee(k).num = k
  BY DEF Real!PumpFee
<1>2. Parsed = IF total \in 1 .. 1000 THEN Real!PumpFee(total) ELSE Real!PumpFee(1)
  BY Zenon DEF Parsed, Real!ReadFeeConfig, Real!FallbackFee
<1>3. total \in Nat
  OBVIOUS
<1>4. 1 \in 1 .. 1000
  OBVIOUS
<1>5. CASE total \in 1 .. 1000
  <2> WITNESS total \in 1 .. 1000
  <2> QED BY <1>1, <1>2, <1>5, Zenon
<1>6. CASE ~ total \in 1 .. 1000
  <2> WITNESS 1 \in 1 .. 1000
  <2> QED BY <1>1, <1>2, <1>6, Zenon
<1> QED BY <1>5, <1>6

\* The fee table cannot make a floor looser than the fallback's (FallbackNeverLooser).
THEOREM FallbackIsStrictest ==
  ASSUME input \in TypedInputs
  PROVE  FallbackNeverLooser
<1> SUFFICES ASSUME input.kind = "curve"
             PROVE  LET parsed   == Real!KeylessLegFloor(AtFee(Parsed), input.n)
                        fallback == Real!KeylessLegFloor(AtFee(Real!FallbackFee), input.n)
                    IN  /\ Real!FeeCap(input.pool.rs, Real!FallbackFee) <= Real!FeeCap(input.pool.rs, Parsed)
                        /\ ~ Refused(fallback) => parsed = ZeroMin \/ parsed \in 1 .. fallback
  BY Zenon DEF FallbackNeverLooser
<1> DEFINE n == input.n
           p == AtFee(Parsed)
           f == AtFee(Real!FallbackFee)
<1>1. input.pool \in CurvePools /\ n \in Nat /\ input.protocol \in Nat /\ input.creator \in Nat
  BY InputShapes
<1>2. PICK k \in 1 .. 1000 : Parsed = Real!PumpFee(k)
  BY <1>1, ParsedFee
<1>3. /\ CurvePool(p) /\ p.fee = Real!PumpFee(k) /\ p.rs = input.pool.rs /\ p.rt = input.pool.rt
      /\ CurvePool(f) /\ f.fee = Real!PumpFee(1) /\ f.rs = input.pool.rs /\ f.rt = input.pool.rt
  BY <1>1, <1>2, AtFeeIsCurve DEF Real!FallbackFee
<1>4. 1 \in 1 .. 1000
  OBVIOUS
<1> HIDE DEF p, f, n
<1>5. Real!KeylessLegFloor(p, n) = FloorAt(p, n, k) /\ Real!KeylessLegFloor(f, n) = FloorAt(f, n, 1)
  <2>1. Real!KeylessLegFloor(p, n) = FloorAt(p, n, k)
    BY <1>1, <1>3, CurveFloor
  <2>2. Real!KeylessLegFloor(f, n) = FloorAt(f, n, 1)
    BY <1>1, <1>3, <1>4, CurveFloor
  <2> QED BY <2>1, <2>2
<1>6. FloorAt(p, n, k) = FloorAt(f, n, k) /\ CapAt(p, k) = CapAt(f, k)
  <2>1. CapAt(p, k) = CapAt(f, k)
    BY <1>3 DEF CapAt
  <2> DEFINE x == Left(n, k) - 1
  <2>2. Bought(p, x) = Bought(f, x)
    BY <1>3 DEF Bought
  <2>3. \A pool : FloorAt(pool, n, k) = IF n > CapAt(pool, k) THEN OverCap
                                       ELSE IF x <= 0 THEN ZeroMin
                                       ELSE IF Bought(pool, x) >= RealWord THEN BadData
                                       ELSE IF Cut(Bought(pool, x)) = 0 THEN ZeroMin
                                       ELSE Cut(Bought(pool, x))
    BY Zenon DEF FloorAt
  <2> HIDE DEF x
  <2> QED BY <2>1, <2>2, <2>3, Zenon
<1>7. ~ Refused(FloorAt(f, n, 1)) => FloorAt(f, n, k) = ZeroMin \/ FloorAt(f, n, k) \in 1 .. FloorAt(f, n, 1)
  BY <1>1, <1>3, OneBpsIsStrictest
<1>8. Real!FeeCap(input.pool.rs, Real!FallbackFee) = CapAt(f, 1) /\ Real!FeeCap(input.pool.rs, Parsed) = CapAt(f, k)
  <2>1. ASSUME NEW x PROVE Real!FeeCap(input.pool.rs, Real!PumpFee(x)) = CapAt(f, x)
    BY <1>3 DEF Real!FeeCap, Real!PumpFee, CapAt
  <2> QED BY <1>2, <2>1 DEF Real!FallbackFee
<1>9. CapAt(f, 1) <= CapAt(f, k)
  BY <1>3, CapAtIsSmall
<1> QED BY <1>5, <1>6, <1>7, <1>8, <1>9 DEF p, f, n

\* An admitted curve leg can be executed: Pump pays its floor (CurveMeetsFloor).
THEOREM CurvePaysFloor ==
  ASSUME input \in TypedInputs
  PROVE  CurveMeetsFloor
<1> SUFFICES ASSUME input.kind = "curve", input.n >= MinLeg, Parsed.num = input.protocol + input.creator,
                    ~ Refused(Real!KeylessLegFloor(AtFee(Parsed), input.n))
             PROVE  Paid >= Real!KeylessLegFloor(AtFee(Parsed), input.n)
  BY Zenon DEF CurveMeetsFloor
<1> DEFINE n == input.n
           p == AtFee(Parsed)
<1>1. input.pool \in CurvePools /\ n \in Nat /\ input.protocol \in Nat /\ input.creator \in Nat
  BY InputShapes
<1>2. PICK k \in 1 .. 1000 : Parsed = Real!PumpFee(k) /\ k = input.protocol + input.creator
  BY <1>1, ParsedFee
<1>3. CurvePool(p) /\ p.fee = Real!PumpFee(k) /\ p.rs = input.pool.rs /\ p.rt = input.pool.rt
  BY <1>1, <1>2, AtFeeIsCurve
<1>4. Paid = Real!ExpectedOutput(p.rt, p.rs, n, input.protocol, input.creator)
  BY <1>3, Zenon DEF Paid
<1> HIDE DEF p, n
<1>5. Real!KeylessLegFloor(p, n) = FloorAt(p, n, k)
  BY <1>1, <1>3, CurveFloor
<1>6. ~ Refused(FloorAt(p, n, k)) /\ n >= MinLeg
  BY <1>5 DEF p, n
<1> DEFINE protocol == input.protocol
           creator == input.creator
<1>7. protocol \in Nat /\ creator \in Nat /\ k = protocol + creator
  BY <1>1, <1>2
<1>8. Paid = Real!ExpectedOutput(p.rt, p.rs, n, protocol, creator)
  BY <1>4
<1> HIDE DEF protocol, creator
<1>9. Paid >= FloorAt(p, n, k)
  <2>1. CurvePool(p)
    BY <1>3, Zenon
  <2>2. n \in Nat
    BY <1>1, Zenon
  <2>3. n >= MinLeg
    BY <1>6, Zenon
  <2>4. ~ Refused(FloorAt(p, n, k))
    BY <1>6, Zenon
  <2>5. protocol \in Nat
    BY <1>7, Zenon
  <2>6. creator \in Nat
    BY <1>7, Zenon
  <2>7. k = protocol + creator
    BY <1>7, Zenon
  <2>8. k \in 1 .. 1000
    OBVIOUS
  <2>9. Real!ExpectedOutput(p.rt, p.rs, n, protocol, creator) >= FloorAt(p, n, k)
    BY ONLY <2>1, <2>2, <2>3, <2>4, <2>5, <2>6, <2>7, <2>8, PaidCoversFloor, ZenonT(60)
  <2> QED BY <1>8, <2>9, Zenon
<1> QED BY <1>5, <1>9 DEF p, n

\* Floors of every input err on the safe side, can be met, are the same in the
\* service, and come of products that never wrap (FloorsSound).
THEOREM FloorsAreSound ==
  ASSUME input \in TypedInputs, Sound(input)
  PROVE  FloorsSound
<1>1. MirrorAgrees
  <2> SUFFICES ASSUME input.kind = "price"
               PROVE  LET p == KeylessLegFloor(input.pool, input.n)
                          m == MirrorFloor(input.pool, input.n)
                      IN  /\ ~ Refused(p) => m = p
                          /\ ~ Refused(m) /\ ExactOut(input.pool, InputAfterFee(input.n, input.pool.fee)) < WORD => p = m
    BY Zenon DEF MirrorAgrees
  <2>1. input.pool \in PricePools /\ input.n \in 0 .. WORD - 1
    BY InputShapes
  <2>2. ValidFee(input.pool.fee)
    BY DEF Sound
  <2> QED BY <2>1, <2>2, MirrorIsProgram, Zenon
<1>2. ReadersAgree
  <2> SUFFICES ASSUME input.kind = "tiers", Sorted(input.tiers)
               PROVE  /\ PickTier(input.tiers, input.n) = LastReached
                      /\ MirrorTier(input.tiers, input.n) = LastReached
                      /\ CurveTier(input.tiers, input.n) = LastReached
    BY Zenon DEF ReadersAgree
  <2> DEFINE S == [from : Nat]
  <2>1. input.tiers \in Seq([from : Nat]) /\ input.n \in Nat
    BY InputShapes
  <2>2. Len(input.tiers) <= 32
    BY DEF Sound
  <2>3. LastReached = Max({0} \cup Reached(input.tiers, input.n))
    BY Zenon DEF LastReached, Reached
  <2> QED BY <2>1, <2>2, <2>3, TiersAgree, Zenon
<1>3. PriceNeverWraps
  <2> SUFFICES ASSUME input.kind = "bin"
               PROVE  LET p == DlmmPrice(input.step, input.n)
                          m == MirrorPrice(input.step, input.n)
                      IN  IF m \in 2 .. Wide - 1 THEN p = m ELSE m = 1 \/ Refused(p)
    BY Zenon DEF PriceNeverWraps
  <2>1. input.step \in Nat /\ input.n \in Int
    BY InputShapes
  <2> QED BY <2>1, PriceIsExact, Zenon
<1> QED BY <1>1, <1>2, <1>3, FallbackIsStrictest, CurvePaysFloor DEF FloorsSound, CurveFloorFair, CopiesAgree

-----------------------------------------------------------------------------
(* The largest total of the vault page.  A total under every leg's bound can  *)
(* exceed the cap of the final leg only, by what the roundings of the others  *)
(* leave it; a correction takes off more than that, but changes the roundings. *)
(* They cannot grow often enough for a third correction.                      *)

CapsFor(caps, weights) == WeightVector(weights) /\ caps \in Seq(Nat) /\ Len(caps) = Len(weights)

LEMMA CapFacts ==
  ASSUME NEW caps, NEW weights, CapsFor(caps, weights)
  PROVE  /\ Len(weights) \in 1 .. 4 /\ Len(weights) \in Nat
         /\ DOMAIN weights = 1 .. Len(weights)
         /\ \A i \in 1 .. Len(weights) : weights[i] \in Nat \ {0} /\ caps[i] \in Nat
         /\ Len(weights) \in 1 .. Len(weights)
         /\ weights[Len(weights)] \in 1 .. BPS_TOTAL /\ caps[Len(weights)] \in Nat
<1>1. /\ Len(weights) \in {1, 2, 3, 4}
      /\ DOMAIN weights = 1 .. Len(weights)
      /\ \A i \in 1 .. Len(weights) : weights[i] \in Nat
  BY WeightCases DEF CapsFor
<1>2. \A i \in 1 .. Len(weights) : weights[i] # 0
  BY <1>1 DEF CapsFor, WeightVector, ValidWeights
<1>3. \A i \in 1 .. Len(weights) : caps[i] \in Nat
  BY <1>1 DEF CapsFor
<1>4. weights[Len(weights)] \in 1 .. BPS_TOTAL
  <2>1. 0 \in Nat
    OBVIOUS
  <2> QED BY <2>1, AllocatedWithin DEF CapsFor
<1>5. Len(weights) \in 1 .. Len(weights)
  BY <1>1
<1> QED BY <1>1, <1>2, <1>3, <1>4, <1>5

\* Under every leg's bound, before the shares are rounded.
UnderBounds(total, caps, weights) == \A i \in 1 .. Len(weights) : total * weights[i] <= caps[i] * BPS_TOTAL

\* By how much the final leg exceeds its cap, and what the roundings of the
\* earlier legs leave it, in parts of a unit.
Excess(total, caps, weights) == LegAmount(total, weights, Len(weights)) - caps[Len(weights)]

LeftOver(total, weights) == BPS_TOTAL * LegAmount(total, weights, Len(weights)) - total * weights[Len(weights)]

LEMMA RestBounds ==
  ASSUME NEW total \in Nat, NEW weights, WeightVector(weights)
  PROVE  /\ LegAmount(total, weights, Len(weights)) \in Int
         /\ LeftOver(total, weights) \in Nat
         /\ LeftOver(total, weights) <= (Len(weights) - 1) * BPS_TOTAL
<1> DEFINE n == Len(weights)
           given == Allocated(total, weights, n)
           last == weights[n]
           taken == BPS_TOTAL - last
           k == n - 1
<1>1. /\ given \in Nat /\ taken \in Nat /\ k \in Nat
      /\ BPS_TOTAL * given <= total * taken
      /\ total * taken <= BPS_TOTAL * (given + k)
      /\ last \in 1 .. BPS_TOTAL
  <2>1. Within(total, given, taken, k) /\ last \in 1 .. BPS_TOTAL
    BY AllocatedWithin
  <2> HIDE DEF given, taken, k
  <2> QED BY <2>1 DEF Within
<1>2. LegAmount(total, weights, n) = total - given
  BY DEF LegAmount
<1>3. LeftOver(total, weights) = BPS_TOTAL * (total - given) - total * last
  BY <1>2 DEF LeftOver
<1> HIDE DEF given, last, k
<1>4. BPS_TOTAL * (total - given) - total * last = total * taken - BPS_TOTAL * given
  <2>1. BPS_TOTAL * (total - given) = BPS_TOTAL * total - BPS_TOTAL * given
    BY <1>1, BpsAssumption
  <2>2. total * (BPS_TOTAL - last) = BPS_TOTAL * total - total * last
    BY <1>1, BpsAssumption
  <2> QED BY <2>1, <2>2, <1>1, BpsAssumption
<1>5. BPS_TOTAL * (given + k) = BPS_TOTAL * given + k * BPS_TOTAL
  BY <1>1, BpsAssumption
<1>6. total * taken \in Nat /\ BPS_TOTAL * given \in Nat /\ k * BPS_TOTAL \in Nat
  BY <1>1, BpsAssumption
<1> HIDE DEF taken
<1>7. LeftOver(total, weights) \in Nat /\ LeftOver(total, weights) <= k * BPS_TOTAL
  BY <1>1, <1>3, <1>4, <1>5, <1>6
<1>8. LegAmount(total, weights, n) \in Int
  BY <1>1, <1>2
<1> QED BY <1>7, <1>8 DEF k

\* Of a total under the bounds only the final leg may be over its cap, and by
\* fewer units than there are earlier legs.
LEMMA OnlyFinalIsOver ==
  ASSUME NEW total \in Nat, NEW caps, NEW weights, CapsFor(caps, weights), UnderBounds(total, caps, weights)
  PROVE  /\ OverLegs(total, caps, weights) = IF Excess(total, caps, weights) > 0 THEN {Len(weights)} ELSE {}
         /\ Excess(total, caps, weights) \in Int
         /\ Excess(total, caps, weights) * BPS_TOTAL <= LeftOver(total, weights)
         /\ Excess(total, caps, weights) <= Len(weights) - 1
<1> DEFINE n == Len(weights)
           e == Excess(total, caps, weights)
           r == LeftOver(total, weights)
           a == LegAmount(total, weights, n)
<1>0. /\ n \in 1 .. 4 /\ n \in Nat /\ DOMAIN weights = 1 .. n /\ n \in 1 .. n
      /\ \A i \in 1 .. n : weights[i] \in Nat \ {0} /\ caps[i] \in Nat
      /\ weights[n] \in 1 .. BPS_TOTAL /\ caps[n] \in Nat
  BY CapFacts
<1>1. a \in Int /\ r \in Nat /\ r <= (n - 1) * BPS_TOTAL
  BY RestBounds DEF CapsFor
<1>2. e = a - caps[n] /\ r = BPS_TOTAL * a - total * weights[n]
  BY DEF Excess, LeftOver
<1>3. total * weights[n] <= caps[n] * BPS_TOTAL
  BY <1>0 DEF UnderBounds
<1>4. ASSUME NEW i \in 1 .. n, i # n PROVE ~ LegAmount(total, weights, i) > caps[i]
  <2> DEFINE s == Share(total, weights[i])
             c == caps[i]
  <2>1. LegAmount(total, weights, i) = s
    BY <1>4 DEF LegAmount
  <2>2. s \in Nat /\ BPS_TOTAL * s <= total * weights[i] /\ total * weights[i] \in Nat
    <3> DEFINE x == weights[i]
    <3>1. x \in Nat
      BY <1>0
    <3> HIDE DEF x
    <3>2. Share(total, x) \in Nat /\ BPS_TOTAL * Share(total, x) <= total * x
      BY <3>1, ShareBounds
    <3>3. total * x \in Nat
      BY <3>1
    <3> QED BY <3>2, <3>3 DEF x
  <2>3. total * weights[i] <= c * BPS_TOTAL /\ c \in Nat
    BY <1>0 DEF UnderBounds
  <2> HIDE DEF s, c
  <2>4. s <= c
    <3> SUFFICES ASSUME c + 1 <= s PROVE FALSE
      BY <2>2, <2>3
    <3>1. BPS_TOTAL * (c + 1) <= BPS_TOTAL * s /\ BPS_TOTAL * (c + 1) = c * BPS_TOTAL + BPS_TOTAL
      BY <2>2, <2>3, BpsAssumption, TimesMonotone
    <3>2. c * BPS_TOTAL \in Nat /\ BPS_TOTAL * s \in Nat
      BY <2>2, <2>3, BpsAssumption
    <3> QED BY <3>1, <3>2, <2>2, <2>3, BpsAssumption
  <2> QED BY <2>1, <2>2, <2>3, <2>4 DEF c
<1>5. LegAmount(total, weights, n) > caps[n] <=> e > 0
  <2> HIDE DEF e
  <2> QED BY <1>0, <1>1, <1>2
<1>6. OverLegs(total, caps, weights) = IF e > 0 THEN {n} ELSE {}
  <2> HIDE DEF e
  <2> QED BY <1>0, <1>4, <1>5 DEF OverLegs
<1> DEFINE c == caps[n]
           u == total * weights[n]
<1>7. c \in Nat /\ u \in Nat /\ a \in Int /\ e = a - c /\ r = BPS_TOTAL * a - u /\ u <= c * BPS_TOTAL
  BY <1>0, <1>1, <1>2, <1>3
<1> HIDE DEF e, r, a, c, u
<1>8. e * BPS_TOTAL = BPS_TOTAL * a - c * BPS_TOTAL /\ e \in Int
  BY <1>7, BpsAssumption
<1>9. e * BPS_TOTAL <= r
  BY <1>7, <1>8, BpsAssumption
<1>10. e <= n - 1
  <2> SUFFICES ASSUME n <= e PROVE FALSE
    BY <1>0, <1>8
  <2>0. n \in Int /\ e \in Int /\ BPS_TOTAL \in Nat /\ n <= e
    BY <1>0, <1>8, BpsAssumption
  <2> HIDE DEF n
  <2>1. BPS_TOTAL * n <= BPS_TOTAL * e /\ (n - 1) * BPS_TOTAL = BPS_TOTAL * n - BPS_TOTAL /\ BPS_TOTAL * n \in Int
    BY <2>0, TimesMonotone
  <2>2. e * BPS_TOTAL = BPS_TOTAL * e /\ e * BPS_TOTAL \in Int
    BY <1>8, BpsAssumption
  <2> QED BY <2>1, <2>2, <1>0, <1>1, <1>9, BpsAssumption
<1> QED BY <1>6, <1>8, <1>9, <1>10 DEF e, r

\* A correction of a total under the bounds.
Correction(total, caps, weights) == (Excess(total, caps, weights) * BPS_TOTAL) \div weights[Len(weights)] + 1

LEMMA CorrectionIs ==
  ASSUME NEW total \in Nat, NEW caps, NEW weights, CapsFor(caps, weights), UnderBounds(total, caps, weights)
  PROVE  Corrected(total, caps, weights)
           = IF total > 0 /\ Excess(total, caps, weights) > 0 THEN total - Correction(total, caps, weights) ELSE total
<1> DEFINE n == Len(weights)
           over == OverLegs(total, caps, weights)
           e == Excess(total, caps, weights)
<1>1. over = IF e > 0 THEN {n} ELSE {}
  BY OnlyFinalIsOver
<1>2. Corrected(total, caps, weights)
        = IF total <= 0 \/ over = {} THEN total
          ELSE total - (((LegAmount(total, weights, CHOOSE i \in over : \A j \in over : i <= j)
                            - caps[CHOOSE i \in over : \A j \in over : i <= j]) * BPS_TOTAL)
                          \div weights[CHOOSE i \in over : \A j \in over : i <= j] + 1)
  BY Zenon DEF Corrected
<1>3. n \in Nat
  BY CapFacts
<1>4. ASSUME over = {n} PROVE (CHOOSE i \in over : \A j \in over : i <= j) = n
  <2>1. n \in {n} /\ \A j \in {n} : n <= j
    BY <1>3
  <2>2. (CHOOSE i \in {n} : \A j \in {n} : i <= j) \in {n}
    BY <2>1, Zenon
  <2> QED BY <1>4, <2>2
<1> HIDE DEF over
<1>5. CASE total > 0 /\ e > 0
  <2>1. over = {n} /\ ~ (total <= 0) /\ over # {}
    <3> HIDE DEF e, n
    <3> QED BY <1>1, <1>5
  <2>2. (CHOOSE i \in over : \A j \in over : i <= j) = n
    BY <1>4, <2>1
  <2>3. Corrected(total, caps, weights) = total - (((LegAmount(total, weights, n) - caps[n]) * BPS_TOTAL) \div weights[n] + 1)
    BY <1>2, <2>1, <2>2, Zenon
  <2> QED BY <1>5, <2>3 DEF Correction, Excess
<1>6. CASE ~ (total > 0 /\ e > 0)
  <2>1. total <= 0 \/ over = {}
    BY <1>1, <1>6
  <2> QED BY <1>2, <1>6, <2>1
<1> QED BY <1>5, <1>6

\* After it the total is smaller; when it is over again, the roundings have
\* grown by more than a whole for every unit of the new excess.
LEMMA CorrectionHelps ==
  ASSUME NEW total \in Nat, NEW caps, NEW weights, CapsFor(caps, weights), UnderBounds(total, caps, weights),
         Excess(total, caps, weights) > 0,
         NEW next, next = total - Correction(total, caps, weights)
  PROVE  /\ next \in Int /\ next < total /\ Correction(total, caps, weights) \in Nat
         /\ next \in Nat => /\ UnderBounds(next, caps, weights)
                            /\ LeftOver(next, weights)
                                 >= LeftOver(total, weights) + Excess(next, caps, weights) * BPS_TOTAL + 1
<1> DEFINE n == Len(weights)
           w == weights[n]
           c == caps[n]
           e == Excess(total, caps, weights)
           m == e * BPS_TOTAL
           d == m \div w
           r == LeftOver(total, weights)
           a == LegAmount(total, weights, n)
<1>0. /\ n \in 1 .. 4 /\ n \in Nat /\ n \in 1 .. n
      /\ \A i \in 1 .. n : weights[i] \in Nat \ {0} /\ caps[i] \in Nat
      /\ w \in Nat \ {0} /\ c \in Nat
  BY CapFacts
<1>1. e \in Nat \ {0} /\ m \in Nat
  <2>1. e \in Int
    BY OnlyFinalIsOver
  <2>2. e \in Nat \ {0}
    BY <2>1
  <2> HIDE DEF e
  <2> QED BY <2>2, BpsAssumption
<1>2. next = total - (d + 1)
  BY DEF Correction
<1>3. a \in Int /\ r \in Nat /\ e = a - c /\ r = BPS_TOTAL * a - total * w
  <2>1. a \in Int /\ r \in Nat
    BY RestBounds DEF CapsFor
  <2> QED BY <2>1 DEF Excess, LeftOver
<1> HIDE DEF e, m, r, a, w, c
<1>4. d \in Nat /\ m < w * d + w
  <2>0. m \in Nat /\ w \in Nat \ {0}
    BY <1>0, <1>1
  <2>1. d \in Nat /\ m % w \in 0 .. w - 1 /\ m = w * d + (m % w)
    BY <2>0, DivMod
  <2> HIDE DEF d
  <2> QED BY <2>0, <2>1
<1> HIDE DEF d
<1>5. next \in Int /\ next < total
  BY <1>2, <1>4
<1>6. Correction(total, caps, weights) \in Nat
  BY <1>4 DEF Correction, d, m, e, w
<1>7. next * w + m + 1 <= total * w
  <2>1. next * w = total * w - (w * d + w)
    <3>1. ASSUME NEW x \in Nat PROVE (total - (d + 1)) * x = total * x - (x * d + x)
      BY <1>4
    <3> QED BY <1>0, <1>2, <3>1
  <2>2. total * w \in Nat /\ w * d \in Nat
    BY <1>0, <1>4
  <2> QED BY <2>1, <2>2, <1>0, <1>1, <1>4
<1>8. next * w + r + 1 <= c * BPS_TOTAL
  <2>1. m = BPS_TOTAL * a - c * BPS_TOTAL
    BY <1>0, <1>3, BpsAssumption DEF m
  <2>2. total * w \in Int /\ next * w \in Int /\ c * BPS_TOTAL \in Int /\ BPS_TOTAL * a \in Int
    BY <1>0, <1>3, <1>5, BpsAssumption
  <2> QED BY <1>1, <1>3, <1>7, <2>1, <2>2
<1>9. ASSUME next \in Nat PROVE UnderBounds(next, caps, weights)
  <2> SUFFICES ASSUME NEW i \in 1 .. n PROVE next * weights[i] <= caps[i] * BPS_TOTAL
    BY DEF UnderBounds
  <2> DEFINE x == weights[i]
             y == caps[i]
  <2>1. x \in Nat /\ y \in Nat /\ total * x <= y * BPS_TOTAL
    BY <1>0 DEF UnderBounds
  <2> HIDE DEF x, y
  <2>2. x * next <= x * total /\ x * next = next * x /\ x * total = total * x
    BY <1>5, <1>9, <2>1, TimesMonotone
  <2>3. next * x \in Nat /\ total * x \in Nat /\ y * BPS_TOTAL \in Nat
    BY <1>9, <2>1, BpsAssumption
  <2>4. next * x <= y * BPS_TOTAL
    BY <2>1, <2>2, <2>3
  <2> QED BY <2>4 DEF x, y
<1>10. ASSUME next \in Nat PROVE LeftOver(next, weights) >= r + Excess(next, caps, weights) * BPS_TOTAL + 1
  <2> DEFINE b == LegAmount(next, weights, n)
             f == Excess(next, caps, weights)
             q == LeftOver(next, weights)
  <2>1. b \in Int /\ q \in Nat
    BY <1>10, RestBounds DEF CapsFor
  <2>2. f = b - c /\ q = BPS_TOTAL * b - next * w
    BY DEF Excess, LeftOver, c, w
  <2> HIDE DEF b, f, q
  <2>3. f * BPS_TOTAL = BPS_TOTAL * b - c * BPS_TOTAL
    BY <1>0, <2>1, <2>2, BpsAssumption
  <2>4. BPS_TOTAL * b \in Int /\ c * BPS_TOTAL \in Int /\ next * w \in Int
    BY <1>0, <1>10, <2>1, BpsAssumption
  <2>5. q >= r + f * BPS_TOTAL + 1
    BY <1>3, <1>8, <2>1, <2>2, <2>3, <2>4
  <2> QED BY <2>5 DEF q, f
<1> QED BY <1>5, <1>6, <1>9, <1>10 DEF r

LEMMA SmallestBoundIs ==
  ASSUME NEW caps, NEW weights, CapsFor(caps, weights)
  PROVE  /\ SmallestBound(caps, weights) \in Nat
         /\ \A total \in Nat : total <= SmallestBound(caps, weights) => UnderBounds(total, caps, weights)
<1> DEFINE n == Len(weights)
           bounds == {Bound(caps, weights, i) : i \in DOMAIN weights}
           least == CHOOSE b \in bounds : \A x \in bounds : b <= x
<1>0. /\ n \in Nat /\ DOMAIN weights = 1 .. n /\ n \in 1 .. n
      /\ \A i \in 1 .. n : weights[i] \in Nat \ {0} /\ caps[i] \in Nat
  BY CapFacts
<1>1. \A i \in 1 .. n : /\ Bound(caps, weights, i) \in Nat
                        /\ weights[i] * Bound(caps, weights, i) <= caps[i] * BPS_TOTAL
  <2> TAKE i \in 1 .. n
  <2> DEFINE w == weights[i]
             m == caps[i] * BPS_TOTAL
  <2>1. w \in Nat \ {0} /\ m \in Nat
    <3>1. caps[i] \in Nat
      BY <1>0
    <3> QED BY <1>0, <3>1, BpsAssumption
  <2> HIDE DEF w, m
  <2>2. m \div w \in Nat
    BY <2>1, DivMod
  <2>3. w * (m \div w) <= m
    BY <2>1, DivMod
  <2>4. Bound(caps, weights, i) = m \div w
    BY DEF Bound, w, m
  <2>5. Bound(caps, weights, i) \in Nat /\ w * Bound(caps, weights, i) <= m
    BY <2>2, <2>3, <2>4
  <2> QED BY <2>5 DEF w, m
<1>2. bounds \subseteq Nat /\ bounds # {}
  BY <1>0, <1>1
<1>3. least \in bounds /\ \A x \in bounds : least <= x
  <2> HIDE DEF bounds
  <2>1. \E b \in bounds : \A x \in bounds : b <= x
    BY <1>2, LeastNatural
  <2> QED BY <2>1, Zenon
<1>4. SmallestBound(caps, weights) = least
  BY Zenon DEF SmallestBound
<1> HIDE DEF least
<1>5. least \in Nat
  BY <1>2, <1>3
<1>6. ASSUME NEW total \in Nat, total <= least PROVE UnderBounds(total, caps, weights)
  <2> SUFFICES ASSUME NEW i \in 1 .. n PROVE total * weights[i] <= caps[i] * BPS_TOTAL
    BY DEF UnderBounds
  <2> DEFINE w == weights[i]
             m == caps[i] * BPS_TOTAL
             b == Bound(caps, weights, i)
  <2>1. w \in Nat /\ m \in Nat /\ b \in Nat /\ w * b <= m
    <3>1. caps[i] \in Nat
      BY <1>0
    <3> QED BY <1>0, <1>1, <3>1, BpsAssumption
  <2>2. least <= b
    BY <1>0, <1>3
  <2> HIDE DEF w, m, b
  <2>3. total <= b
    BY <1>5, <1>6, <2>1, <2>2
  <2>4. w * total <= w * b /\ w * total = total * w /\ w * total \in Nat /\ w * b \in Nat
    BY <2>1, <2>3, TimesMonotone
  <2>5. total * w <= m
    BY <2>1, <2>4
  <2> QED BY <2>5 DEF w, m
<1> QED BY <1>4, <1>5, <1>6

\* What the eight corrections of capTotal end with.
LEMMA EightCorrections ==
  ASSUME NEW caps, NEW weights, NEW x0, NEW x1, NEW x2, NEW x,
         x0 = SmallestBound(caps, weights),
         x1 = Corrected(x0, caps, weights), x2 = Corrected(x1, caps, weights),
         x = x2, Corrected(x, caps, weights) = x
  PROVE  CapTotal(caps, weights) = IF x > 0 THEN x ELSE 0
<1> DEFINE Is(f) == f = [k \in 0 .. Rounds |->
                           IF k = 0 THEN SmallestBound(caps, weights) ELSE Corrected(f[k - 1], caps, weights)]
           after == CHOOSE f : Is(f)
           g == [k \in 0 .. Rounds |-> IF k = 0 THEN x0 ELSE IF k = 1 THEN x1 ELSE x]
<1>1. CapTotal(caps, weights) = IF after[Rounds] > 0 THEN after[Rounds] ELSE 0
  BY Zenon DEF CapTotal
<1>2. Is(g)
  <2>1. ASSUME NEW k \in 0 .. Rounds
        PROVE  g[k] = IF k = 0 THEN SmallestBound(caps, weights) ELSE Corrected(g[k - 1], caps, weights)
    <3>1. CASE k = 0
      BY <3>1
    <3>2. CASE k = 1
      <4>1. 0 \in 0 .. Rounds /\ 1 \in 0 .. Rounds /\ k - 1 = 0
        BY <3>2 DEF Rounds
      <4>2. g[k] = x1 /\ g[k - 1] = x0
        BY <3>2, <4>1
      <4> QED BY <3>2, <4>2
    <3>3. CASE k = 2
      <4>1. 1 \in 0 .. Rounds /\ 2 \in 0 .. Rounds /\ k - 1 = 1
        BY <3>3 DEF Rounds
      <4>2. g[k] = x /\ g[k - 1] = x1
        BY <3>3, <4>1
      <4> QED BY <3>3, <4>2
    <3>4. CASE k > 2
      <4>1. k - 1 \in 0 .. Rounds /\ k - 1 # 0 /\ k - 1 # 1 /\ k # 0 /\ k # 1
        BY <3>4 DEF Rounds
      <4>2. g[k] = x /\ g[k - 1] = x
        BY <4>1
      <4> QED BY <4>1, <4>2
    <3>5. k = 0 \/ k = 1 \/ k = 2 \/ k > 2
      BY DEF Rounds
    <3> QED BY <3>1, <3>2, <3>3, <3>4, <3>5
  <2> QED BY <2>1
<1>3. Is(after)
  <2> HIDE DEF Is, g
  <2> QED BY <1>2, Zenon
<1> HIDE DEF after, g
<1>4. /\ after[0] = x0
      /\ \A k \in 1 .. Rounds : after[k] = Corrected(after[k - 1], caps, weights)
  BY <1>3 DEF Rounds
<1>5. after[1] = x1 /\ after[2] = x
  <2>1. 1 \in 1 .. Rounds /\ 1 - 1 = 0 /\ 2 \in 1 .. Rounds /\ 2 - 1 = 1
    BY DEF Rounds
  <2> QED BY <1>4, <2>1
<1>6. ASSUME NEW k \in 3 .. Rounds, after[k - 1] = x PROVE after[k] = x
  <2>1. k \in 1 .. Rounds
    BY DEF Rounds
  <2> QED BY <1>4, <1>6, <2>1
<1>7. after[3] = x /\ after[4] = x /\ after[5] = x /\ after[6] = x /\ after[7] = x /\ after[8] = x
  <2>1. /\ 3 \in 3 .. Rounds /\ 4 \in 3 .. Rounds /\ 5 \in 3 .. Rounds /\ 6 \in 3 .. Rounds
        /\ 7 \in 3 .. Rounds /\ 8 \in 3 .. Rounds
        /\ 3 - 1 = 2 /\ 4 - 1 = 3 /\ 5 - 1 = 4 /\ 6 - 1 = 5 /\ 7 - 1 = 6 /\ 8 - 1 = 7
    BY DEF Rounds
  <2>2. after[3] = x
    BY <1>5, <1>6, <2>1
  <2>3. after[4] = x
    BY <1>6, <2>1, <2>2
  <2>4. after[5] = x
    BY <1>6, <2>1, <2>3
  <2>5. after[6] = x
    BY <1>6, <2>1, <2>4
  <2>6. after[7] = x
    BY <1>6, <2>1, <2>5
  <2>7. after[8] = x
    BY <1>6, <2>1, <2>6
  <2> QED BY <2>2, <2>3, <2>4, <2>5, <2>6, <2>7
<1> QED BY <1>1, <1>7 DEF Rounds

\* Nothing is over the cap of a total of nothing.
LEMMA NothingIsUnder ==
  ASSUME NEW caps, NEW weights, CapsFor(caps, weights)
  PROVE  UnderBounds(0, caps, weights) /\ OverLegs(0, caps, weights) = {}
<1> DEFINE n == Len(weights)
           given == Allocated(0, weights, n)
<1>0. /\ n \in Nat /\ \A i \in 1 .. n : weights[i] \in Nat \ {0} /\ caps[i] \in Nat
      /\ caps[n] \in Nat
  BY CapFacts
<1>1. UnderBounds(0, caps, weights)
  <2> SUFFICES ASSUME NEW i \in 1 .. n PROVE 0 * weights[i] <= caps[i] * BPS_TOTAL
    BY DEF UnderBounds
  <2> DEFINE x == weights[i]
             y == caps[i]
  <2>1. x \in Nat /\ y \in Nat
    BY <1>0
  <2> HIDE DEF x, y
  <2>2. 0 * x = 0 /\ y * BPS_TOTAL \in Nat
    BY <2>1, BpsAssumption
  <2>3. 0 * x <= y * BPS_TOTAL
    BY <2>2
  <2> QED BY <2>3 DEF x, y
<1>2. given \in Nat
  <2>1. 0 \in Nat
    OBVIOUS
  <2>2. Within(0, given, BPS_TOTAL - weights[n], n - 1)
    BY <2>1, AllocatedWithin DEF CapsFor
  <2> HIDE DEF given
  <2> QED BY <2>2 DEF Within
<1>3. Excess(0, caps, weights) = 0 - given - caps[n]
  BY DEF Excess, LegAmount
<1> HIDE DEF given
<1>4. ~ Excess(0, caps, weights) > 0
  BY <1>0, <1>2, <1>3
<1>5. 0 \in Nat
  OBVIOUS
<1> QED BY <1>1, <1>4, <1>5, OnlyFinalIsOver

\* What corrections cost.
LEMMA CostsAdd ==
  ASSUME NEW w \in 1 .. BPS_TOTAL, NEW e \in Nat, NEW f \in Nat, NEW k \in Nat, e + f + 1 <= k
  PROVE  ((e * BPS_TOTAL) \div w + 1) + ((f * BPS_TOTAL) \div w + 1) <= (k * BPS_TOTAL) \div w + 1
<1> DEFINE m == e * BPS_TOTAL
           o == f * BPS_TOTAL
           p == k * BPS_TOTAL
           c == m \div w
           d == o \div w
<1>0. w \in Nat \ {0} /\ BPS_TOTAL \in Nat \ {0} /\ w <= BPS_TOTAL
  BY BpsAssumption
<1>1. m \in Nat /\ o \in Nat /\ p \in Nat
  BY <1>0
<1>2. m + o + BPS_TOTAL <= p
  <2>1. BPS_TOTAL * (e + f + 1) <= BPS_TOTAL * k
    <3>1. e + f + 1 \in Int
      OBVIOUS
    <3> QED BY <1>0, <3>1, TimesMonotone
  <2>2. BPS_TOTAL * (e + f + 1) = m + o + BPS_TOTAL
    BY <1>0
  <2>3. BPS_TOTAL * k = p
    BY <1>0
  <2> QED BY <2>1, <2>2, <2>3
<1>3. c \in Nat /\ w * c <= m
  <2> HIDE DEF m
  <2> QED BY <1>0, <1>1, DivMod
<1>4. d \in Nat /\ w * d <= o
  <2> HIDE DEF o
  <2> QED BY <1>0, <1>1, DivMod
<1> HIDE DEF c, d, m, o, p
<1>5. w * (c + d + 1) <= p
  <2>1. w * (c + d + 1) = w * c + w * d + w /\ w * c \in Nat /\ w * d \in Nat
    BY <1>0, <1>3, <1>4
  <2> QED BY <1>0, <1>1, <1>2, <1>3, <1>4, <2>1
<1>6. c + d + 1 \in Nat
  BY <1>3, <1>4
<1>7. c + d + 1 <= p \div w
  BY <1>0, <1>1, <1>5, <1>6, QuotientAtLeast
<1>8. p \div w \in Nat
  BY <1>0, <1>1, DivMod
<1>9. (c + 1) + (d + 1) <= p \div w + 1
  BY <1>3, <1>4, <1>7, <1>8
<1> QED BY <1>9 DEF c, d, m, o, p

\* The total that is called the largest clears every cap after at most two
\* corrections, and they cost no more than the roundings of the earlier legs.
THEOREM CapTotalFits ==
  ASSUME NEW caps, NEW weights, CapsFor(caps, weights)
  PROVE  /\ CapTotal(caps, weights) \in Nat
         /\ CapTotal(caps, weights) <= SmallestBound(caps, weights)
         /\ OverLegs(CapTotal(caps, weights), caps, weights) = {}
         /\ OfferNearBest(caps, weights)
<1> DEFINE n == Len(weights)
           w == weights[n]
           E(x) == Excess(x, caps, weights)
           R(x) == LeftOver(x, weights)
           C(x) == Correction(x, caps, weights)
           x0 == SmallestBound(caps, weights)
           x1 == Corrected(x0, caps, weights)
           x2 == Corrected(x1, caps, weights)
           best == CapTotal(caps, weights)
           slack == ((n - 1) * BPS_TOTAL) \div w + 1
<1>0. /\ n \in 1 .. 4 /\ n \in Nat /\ n \in 1 .. n /\ w \in 1 .. BPS_TOTAL /\ w \in Nat \ {0}
      /\ BPS_TOTAL \in Nat \ {0} /\ WeightVector(weights)
  BY CapFacts, BpsAssumption DEF CapsFor
<1>1. x0 \in Nat /\ \A total \in Nat : total <= x0 => UnderBounds(total, caps, weights)
  BY SmallestBoundIs
<1>2. SUFFICES best \in Nat /\ best <= x0 /\ OverLegs(best, caps, weights) = {} /\ x0 <= best + slack
  <2> HIDE DEF best, x0
  <2>1. ((n - 1) * BPS_TOTAL) \div w \in Nat
    <3> DEFINE m == (n - 1) * BPS_TOTAL
    <3>1. m \in Nat
      BY <1>0
    <3> HIDE DEF m
    <3>2. m \div w \in Nat
      BY <1>0, <3>1, DivMod
    <3> QED BY <3>2 DEF m
  <2> DEFINE q == ((n - 1) * BPS_TOTAL) \div w
  <2>2. ASSUME best \in Nat, x0 <= best + (q + 1) PROVE x0 <= best + q + 1
    <3> HIDE DEF q
    <3> QED BY <1>1, <2>1, <2>2 DEF q
  <2> QED BY <2>2 DEF OfferNearBest, best, x0
<1>3. slack \in Nat /\ slack >= 1
  <2> DEFINE m == (n - 1) * BPS_TOTAL
  <2>1. m \in Nat
    BY <1>0
  <2> HIDE DEF m
  <2>2. m \div w \in Nat
    BY <1>0, <2>1, DivMod
  <2> QED BY <2>2 DEF m
<1>4. ASSUME NEW x \in Int, x <= 0 PROVE Corrected(x, caps, weights) = x
  BY <1>4 DEF Corrected
<1>5. ASSUME NEW x \in Nat, UnderBounds(x, caps, weights)
      PROVE  /\ E(x) \in Int /\ R(x) \in Nat /\ E(x) * BPS_TOTAL <= R(x) /\ R(x) <= (n - 1) * BPS_TOTAL
             /\ E(x) <= n - 1
             /\ Corrected(x, caps, weights) = IF x > 0 /\ E(x) > 0 THEN x - C(x) ELSE x
             /\ ~ E(x) > 0 => OverLegs(x, caps, weights) = {}
  <2>1. E(x) \in Int /\ E(x) * BPS_TOTAL <= R(x) /\ E(x) <= n - 1 /\ (~ E(x) > 0 => OverLegs(x, caps, weights) = {})
    BY <1>5, OnlyFinalIsOver
  <2>2. R(x) \in Nat /\ R(x) <= (n - 1) * BPS_TOTAL
    BY <1>0, RestBounds
  <2>3. Corrected(x, caps, weights) = IF x > 0 /\ E(x) > 0 THEN x - C(x) ELSE x
    BY <1>5, CorrectionIs
  <2> QED BY <2>1, <2>2, <2>3
<1>6. ASSUME NEW x \in Nat, UnderBounds(x, caps, weights), E(x) > 0, NEW y, y = x - C(x)
      PROVE  /\ y \in Int /\ y < x /\ C(x) \in Nat
             /\ y \in Nat => UnderBounds(y, caps, weights) /\ R(y) >= R(x) + E(y) * BPS_TOTAL + 1
  BY <1>6, CorrectionHelps
<1>7. UnderBounds(0, caps, weights) /\ OverLegs(0, caps, weights) = {}
  BY NothingIsUnder
<1>8. ASSUME NEW e \in Nat, e <= n - 1 PROVE (e * BPS_TOTAL) \div w + 1 <= slack
  <2> DEFINE m == e * BPS_TOTAL
             o == (n - 1) * BPS_TOTAL
  <2>1. m \in Nat /\ o \in Nat /\ m <= o
    <3>1. BPS_TOTAL * e <= BPS_TOTAL * (n - 1) /\ BPS_TOTAL * e = m /\ BPS_TOTAL * (n - 1) = o
      BY <1>0, <1>8, TimesMonotone
    <3> QED BY <1>0, <3>1
  <2> HIDE DEF m, o
  <2>2. m \div w <= o \div w /\ m \div w \in Nat /\ o \div w \in Nat
    BY <1>0, <2>1, DivMonotone, DivMod
  <2>3. m \div w + 1 <= o \div w + 1
    BY <2>2
  <2> QED BY <2>3 DEF m, o
<1>9. \A x : C(x) = (E(x) * BPS_TOTAL) \div w + 1
  BY Zenon DEF Correction
<1>10. ASSUME NEW x \in Int, x = x2, Corrected(x, caps, weights) = x PROVE best = IF x > 0 THEN x ELSE 0
  BY <1>10, EightCorrections
<1> HIDE DEF x0, best, slack, E, R, C, w, n
<1>11. x0 <= x0
  BY <1>1
<1>12. CASE ~ (x0 > 0 /\ E(x0) > 0)
  <2>1. x1 = x0
    BY <1>1, <1>5, <1>11, <1>12
  <2>2. x2 = x0
    BY <2>1
  <2>3. best = IF x0 > 0 THEN x0 ELSE 0
    BY <1>1, <1>10, <2>1, <2>2
  <2>4. best = x0
    BY <1>1, <2>3
  <2>5. OverLegs(x0, caps, weights) = {}
    <3>1. CASE x0 > 0
      BY <1>1, <1>5, <1>11, <1>12, <3>1
    <3>2. CASE ~ x0 > 0
      <4>1. x0 = 0
        BY <1>1, <3>2
      <4> QED BY <1>7, <4>1
    <3> QED BY <3>1, <3>2
  <2> QED BY <1>1, <1>3, <2>4, <2>5
<1>13. CASE x0 > 0 /\ E(x0) > 0
  <2>1. x1 = x0 - C(x0)
    BY <1>1, <1>5, <1>11, <1>13
  <2>2. /\ x1 \in Int /\ x1 < x0 /\ C(x0) \in Nat
        /\ x1 \in Nat => UnderBounds(x1, caps, weights) /\ R(x1) >= R(x0) + E(x1) * BPS_TOTAL + 1
    BY <1>1, <1>6, <1>11, <1>13, <2>1
  <2>3. E(x0) \in Nat /\ E(x0) <= n - 1 /\ R(x0) \in Nat /\ E(x0) * BPS_TOTAL <= R(x0)
    BY <1>1, <1>5, <1>11, <1>13
  <2>4. C(x0) <= slack
    BY <1>8, <1>9, <2>3
  <2> HIDE DEF x1
  <2>5. CASE x1 <= 0
    <3>1. Corrected(x1, caps, weights) = x1
      BY <1>4, <2>2, <2>5
    <3>2. best = 0
      BY <1>10, <2>2, <2>5, <3>1 DEF x2
    <3> QED BY <1>1, <1>3, <1>7, <2>1, <2>2, <2>4, <2>5, <3>2
  <2>6. CASE x1 > 0 /\ ~ E(x1) > 0
    <3>0. x1 \in Nat /\ UnderBounds(x1, caps, weights)
      BY <2>2, <2>6
    <3>1. Corrected(x1, caps, weights) = x1 /\ OverLegs(x1, caps, weights) = {}
      BY <1>5, <2>6, <3>0
    <3>2. best = x1
      BY <1>10, <2>2, <2>6, <3>1 DEF x2
    <3> QED BY <1>1, <1>3, <2>1, <2>2, <2>4, <3>0, <3>1, <3>2
  <2>7. CASE x1 > 0 /\ E(x1) > 0
    <3>0. x1 \in Nat /\ UnderBounds(x1, caps, weights)
      BY <2>2, <2>7
    <3>1. x2 = x1 - C(x1)
      BY <1>5, <2>7, <3>0 DEF x2
    <3>2. /\ x2 \in Int /\ x2 < x1 /\ C(x1) \in Nat
          /\ x2 \in Nat => UnderBounds(x2, caps, weights) /\ R(x2) >= R(x1) + E(x2) * BPS_TOTAL + 1
      BY <1>6, <2>7, <3>0, <3>1
    <3>3. E(x1) \in Nat /\ R(x1) \in Nat /\ R(x1) <= (n - 1) * BPS_TOTAL
      BY <1>5, <2>7, <3>0
    <3>4. R(x1) >= R(x0) + E(x1) * BPS_TOTAL + 1
      BY <2>2, <3>0
    <3> HIDE DEF x2
    <3> DEFINE e == E(x0)
               f == E(x1)
    <3>5. e + f + 1 <= n - 1
      <4>1. e * BPS_TOTAL + f * BPS_TOTAL + 1 <= (n - 1) * BPS_TOTAL
        <5> DEFINE p == e * BPS_TOTAL
                   q == f * BPS_TOTAL
                   s == (n - 1) * BPS_TOTAL
        <5>1. p \in Int /\ q \in Int /\ s \in Int
          BY <1>0, <2>3, <3>3
        <5>2. p <= R(x0) /\ R(x1) >= R(x0) + q + 1 /\ R(x1) <= s
          BY <2>3, <3>3, <3>4
        <5> HIDE DEF p, q, s
        <5>3. p + q + 1 <= s
          BY <2>3, <3>3, <5>1, <5>2
        <5> QED BY <5>3 DEF p, q, s
      <4>2. e \in Nat /\ f \in Nat
        BY <2>3, <3>3
      <4> HIDE DEF e, f
      <4>3. SUFFICES ASSUME n - 1 <= e + f PROVE FALSE
        BY <1>0, <4>2
      <4>4. BPS_TOTAL * (n - 1) <= BPS_TOTAL * (e + f)
        BY <1>0, <4>2, <4>3, TimesMonotone
      <4>5. BPS_TOTAL * (n - 1) = (n - 1) * BPS_TOTAL /\ BPS_TOTAL * (e + f) = e * BPS_TOTAL + f * BPS_TOTAL
        BY <1>0, <4>2
      <4>6. (n - 1) * BPS_TOTAL \in Int /\ e * BPS_TOTAL \in Int /\ f * BPS_TOTAL \in Int
        BY <1>0, <4>2
      <4> QED BY <4>1, <4>4, <4>5, <4>6
    <3>6. C(x0) + C(x1) <= slack
      <4>1. e \in Nat /\ f \in Nat /\ n - 1 \in Nat
        BY <1>0, <2>3, <3>3
      <4>2. C(x0) = (e * BPS_TOTAL) \div w + 1 /\ C(x1) = (f * BPS_TOTAL) \div w + 1
        BY <1>9
      <4> HIDE DEF e, f
      <4>3. ((e * BPS_TOTAL) \div w + 1) + ((f * BPS_TOTAL) \div w + 1) <= ((n - 1) * BPS_TOTAL) \div w + 1
        BY <1>0, <3>5, <4>1, CostsAdd
      <4> QED BY <4>2, <4>3 DEF slack
    <3>7. CASE x2 <= 0
      <4>1. Corrected(x2, caps, weights) = x2
        BY <1>4, <3>2, <3>7
      <4>2. best = 0
        BY <1>10, <3>2, <3>7, <4>1
      <4> QED BY <1>1, <1>3, <1>7, <2>1, <2>2, <3>1, <3>2, <3>6, <3>7, <4>2
    <3>8. CASE x2 > 0
      <4>0. x2 \in Nat /\ UnderBounds(x2, caps, weights)
        BY <3>2, <3>8
      <4>1. ~ E(x2) > 0
        <5> SUFFICES ASSUME E(x2) > 0 PROVE FALSE
          OBVIOUS
        <5> DEFINE g == E(x2)
                   p == e * BPS_TOTAL
                   q == f * BPS_TOTAL
                   t == g * BPS_TOTAL
        <5>1. g \in Nat \ {0} /\ R(x2) \in Nat /\ R(x2) <= (n - 1) * BPS_TOTAL /\ R(x2) >= R(x1) + t + 1
          BY <1>5, <3>2, <4>0
        <5>2. e \in Nat \ {0} /\ f \in Nat \ {0}
          BY <1>13, <2>3, <2>7, <3>3
        <5>3. p <= R(x0) /\ R(x1) >= R(x0) + q + 1
          BY <2>3, <3>4
        <5> HIDE DEF e, f, g
        <5>4. /\ p >= BPS_TOTAL /\ q >= BPS_TOTAL /\ t >= BPS_TOTAL
              /\ p \in Int /\ q \in Int /\ t \in Int
          <6>1. ASSUME NEW k \in Nat \ {0} PROVE k * BPS_TOTAL >= BPS_TOTAL /\ k * BPS_TOTAL \in Int
            <7>1. BPS_TOTAL * 1 <= BPS_TOTAL * k /\ BPS_TOTAL * k = k * BPS_TOTAL /\ BPS_TOTAL * k \in Int
              BY <1>0, TimesMonotone
            <7> QED BY <1>0, <7>1
          <6> QED BY <5>1, <5>2, <6>1
        <5>5. (n - 1) * BPS_TOTAL <= 3 * BPS_TOTAL
          <6>1. BPS_TOTAL * (n - 1) <= BPS_TOTAL * 3
            BY <1>0, TimesMonotone
          <6> QED BY <1>0, <6>1
        <5> HIDE DEF p, q, t
        <5>6. (n - 1) * BPS_TOTAL \in Int
          BY <1>0
        <5> QED BY <1>0, <2>3, <3>3, <5>1, <5>3, <5>4, <5>5, <5>6
      <4>2. Corrected(x2, caps, weights) = x2 /\ OverLegs(x2, caps, weights) = {}
        BY <1>5, <4>0, <4>1
      <4>3. best = x2
        BY <1>10, <3>2, <3>8, <4>2
      <4> QED BY <1>1, <1>3, <2>1, <2>2, <3>1, <3>2, <3>6, <4>0, <4>2, <4>3
    <3> QED BY <3>2, <3>7, <3>8
  <2> QED BY <2>2, <2>5, <2>6, <2>7
<1> QED BY <1>12, <1>13

\* What the max button offers leaves the vault rent exempt, and where it is
\* less than the largest total it exceeds the final leg's cap by that leg's
\* roundings at most: for every balance, not only the three of the run.
THEOREM MaxBurnAlwaysFits ==
  ASSUME NEW balance \in Nat, NEW caps, NEW weights, CapsFor(caps, weights)
  PROVE  MaxBurnFits(balance, caps, weights)
<1> DEFINE n == Len(weights)
           best == CapTotal(caps, weights)
           offer == MaxBurnNow(balance, caps, weights)
           spend == Spendable(balance)
           excess == Excess(offer, caps, weights)
<1>0. n \in 1 .. 4 /\ n \in Nat /\ caps[n] \in Nat
  BY CapFacts
<1>1. best \in Nat /\ best <= SmallestBound(caps, weights) /\ OverLegs(best, caps, weights) = {}
  BY CapTotalFits
<1>2. spend \in Nat /\ (spend > 0 => balance - spend >= RENT_FLOOR) /\ RENT_FLOOR \in Nat
  BY RentFloorAssumption DEF Spendable
<1>3. offer = IF best < spend THEN best ELSE spend
  BY Zenon DEF MaxBurnNow
<1>4. offer \in Nat /\ offer <= best /\ offer <= spend
  <2> HIDE DEF best, spend, offer
  <2> QED BY <1>1, <1>2, <1>3
<1>5. offer > 0 => balance - offer >= RENT_FLOOR
  <2> HIDE DEF best, spend, offer
  <2> QED BY <1>2, <1>4
<1>6. UnderBounds(offer, caps, weights)
  <2>1. /\ SmallestBound(caps, weights) \in Nat
        /\ \A total \in Nat : total <= SmallestBound(caps, weights) => UnderBounds(total, caps, weights)
    BY SmallestBoundIs
  <2> HIDE DEF best, offer
  <2>2. offer <= SmallestBound(caps, weights)
    BY <1>1, <1>4, <2>1
  <2> QED BY <1>4, <2>1, <2>2
<1>7. /\ OverLegs(offer, caps, weights) = IF excess > 0 THEN {n} ELSE {}
      /\ excess \in Int
      /\ excess <= n - 1
  <2> HIDE DEF offer
  <2> QED BY <1>4, <1>6, OnlyFinalIsOver
<1>8. ASSUME NEW i \in OverLegs(offer, caps, weights)
      PROVE  i = n /\ offer < best /\ LegAmount(offer, weights, n) < caps[n] + n
  <2>1. i = n
    <3> HIDE DEF n, offer, excess
    <3> QED BY <1>7, <1>8
  <2>2. offer < best
    <3>1. offer # best
      BY <1>1, <1>8
    <3> HIDE DEF best, offer
    <3> QED BY <1>1, <1>4, <3>1
  <2>3. LegAmount(offer, weights, n) < caps[n] + n
    <3> DEFINE a == LegAmount(offer, weights, n)
    <3>1. excess = a - caps[n]
      BY Zenon DEF Excess
    <3>2. a \in Int
      <4>1. LegAmount(offer, weights, Len(weights)) \in Int
        <5> HIDE DEF offer
        <5> QED BY <1>4, RestBounds DEF CapsFor
      <4> QED BY <4>1
    <3> HIDE DEF a, excess, n
    <3>3. a < caps[n] + n
      BY <1>0, <1>7, <3>1, <3>2
    <3> QED BY <3>3 DEF a
  <2> QED BY <2>1, <2>2, <2>3
<1> HIDE DEF offer, best, n
<1>9. /\ OverLegs(best, caps, weights) = {}
      /\ offer > 0 => balance - offer >= RENT_FLOOR
      /\ \A i \in OverLegs(offer, caps, weights) :
           i = n /\ offer < best /\ LegAmount(offer, weights, n) < caps[n] + n
  BY <1>1, <1>5, <1>8
<1> QED BY <1>9, Zenon DEF MaxBurnFits, offer, best, n

\* Everything a run says of the amounts, for every input the program admits:
\* the division is exact and fair, and the max button fits.
THEOREM AmountsAreFair ==
  ASSUME input \in TypedInputs, Sound(input)
  PROVE  AmountsFair
<1>1. ASSUME input.kind = "split" PROVE input.n \in Nat /\ WeightVector(input.weights)
  BY <1>1, InputShapes DEF Sound
<1>2. ASSUME input.kind = "caps" PROVE CapsFor(input.caps, input.weights)
  <2>1. input.caps \in Seq(Nat)
    BY <1>2, InputShapes
  <2>2. WeightVector(input.weights) /\ Len(input.caps) = Len(input.weights)
    BY <1>2 DEF Sound
  <2> QED BY <2>1, <2>2 DEF CapsFor
<1>3. ShareExact
  <2> SUFFICES ASSUME input.kind = "split", NEW i \in DOMAIN input.weights
               PROVE  Share(input.n, input.weights[i]) = (input.n * input.weights[i]) \div BPS_TOTAL
    BY Zenon DEF ShareExact
  <2> DEFINE w == input.weights
             bps == input.weights[i]
             total == input.n
  <2>1. total \in Nat /\ WeightVector(w)
    BY <1>1
  <2>2. bps \in Nat
    <3>1. DOMAIN w = 1 .. Len(w) /\ \A j \in 1 .. Len(w) : w[j] \in Nat
      <4> HIDE DEF w
      <4> QED BY <2>1, WeightCases
    <3> QED BY <3>1
  <2> HIDE DEF bps, total
  <2>3. Share(total, bps) = (total * bps) \div BPS_TOTAL
    BY <2>1, <2>2, ShareIsFloor
  <2> QED BY <2>3 DEF bps, total
<1>4. FinalFair
  BY <1>1, FinalLegFair, Zenon DEF FinalFair
<1>5. SumsToTotal
  BY <1>1, LegsSum, Zenon DEF SumsToTotal
<1>6. MaxOffered
  <2> SUFFICES ASSUME input.kind = "caps"
               PROVE  /\ \A balance \in {4, 12, 1000} : MaxBurnFits(balance, input.caps, input.weights)
                      /\ OfferNearBest(input.caps, input.weights)
    BY Zenon DEF MaxOffered
  <2>1. OfferNearBest(input.caps, input.weights)
    BY <1>2, CapTotalFits, Zenon
  <2>2. ASSUME NEW balance \in Nat PROVE MaxBurnFits(balance, input.caps, input.weights)
    BY <1>2, MaxBurnAlwaysFits, Zenon
  <2>3. \A balance \in {4, 12, 1000} : balance \in Nat
    OBVIOUS
  <2>4. ASSUME NEW balance \in {4, 12, 1000} PROVE MaxBurnFits(balance, input.caps, input.weights)
    <3>1. balance \in Nat
      BY <2>3
    <3> HIDE DEF MaxBurnFits
    <3> QED BY <2>2, <3>1
  <2> HIDE DEF MaxBurnFits
  <2> QED BY <2>1, <2>4
<1> QED BY <1>3, <1>4, <1>5, <1>6 DEF AmountsFair, DivisionFair

-----------------------------------------------------------------------------
(* The series of inputs *)

InputInv == input \in TypedInputs /\ Sound(input)

LEMMA InputInitial == InputInit => InputInv
BY InputsAssumption DEF InputInit, InputInv

\* The next input of a series is one of the same kind: the totals and the market
\* caps go up, the rest of it stays.
LEMMA InputStepKeeps ==
  ASSUME InputInv, [NextInput]_input
  PROVE  InputInv'
<1> DEFINE S1 == Seq(Nat)
           S2 == Seq([from : Nat])
           S3 == 0 .. WORD - 1
           P1 == CurvePools
           P2 == PricePools
<1>1. CASE UNCHANGED input
  BY <1>1 DEF InputInv
<1>2. CASE NextInput
  <2>0. /\ \A m \in Nat : m + 1 \in Nat
        /\ \A m \in S3 : \A k \in S3 : m < k => m + 1 \in S3
        /\ \A m \in Int : m + 1 \in Int
    BY FloorConstants
  <2>1. \/ input \in [kind : {"split"}, weights : S1, n : Nat, last : Nat]
        \/ input \in [kind : {"caps"}, weights : S1, caps : S1, n : Nat, last : Nat]
        \/ input \in [kind : {"curve"}, pool : P1, protocol : Nat, creator : Nat, n : Nat, last : Nat]
        \/ input \in [kind : {"price"}, pool : P2, n : S3, last : S3]
        \/ input \in [kind : {"tiers"}, tiers : S2, n : Nat, last : Nat]
        \/ input \in [kind : {"bin"}, step : Nat, n : Int, last : Int]
    BY Zenon DEF InputInv, TypedInputs
  <2>2. input.n < input.last /\ input' = [input EXCEPT !.n = input.n + 1]
    BY <1>2 DEF NextInput
  <2> HIDE DEF S1, S2, S3, P1, P2
  <2>3. \/ input' \in [kind : {"split"}, weights : S1, n : Nat, last : Nat]
        \/ input' \in [kind : {"caps"}, weights : S1, caps : S1, n : Nat, last : Nat]
        \/ input' \in [kind : {"curve"}, pool : P1, protocol : Nat, creator : Nat, n : Nat, last : Nat]
        \/ input' \in [kind : {"price"}, pool : P2, n : S3, last : S3]
        \/ input' \in [kind : {"tiers"}, tiers : S2, n : Nat, last : Nat]
        \/ input' \in [kind : {"bin"}, step : Nat, n : Int, last : Int]
    BY <2>0, <2>1, <2>2
  <2>4. input' \in TypedInputs
    BY <2>3, Zenon DEF TypedInputs, S1, S2, S3, P1, P2
  <2>5. /\ input'.kind = input.kind
        /\ input.kind \in {"split", "caps"} => input'.weights = input.weights
        /\ input.kind = "caps" => input'.caps = input.caps
        /\ input.kind = "price" => input'.pool = input.pool
        /\ input.kind = "tiers" => input'.tiers = input.tiers
    BY <2>1, <2>2
  <2>6. Sound(input)'
    BY <2>5 DEF InputInv, Sound
  <2> QED BY <2>4, <2>6 DEF InputInv
<1> QED BY <1>1, <1>2

=============================================================================
