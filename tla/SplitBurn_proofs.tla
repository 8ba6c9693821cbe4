-------------------------- MODULE SplitBurn_proofs --------------------------
(***************************************************************************)
(* What holds of SplitBurn for every configuration, every set of calls and *)
(* any number of account changes by the routes.                            *)
(***************************************************************************)
EXTENDS SplitBurn, Arithmetic_proofs, TLAPS

-----------------------------------------------------------------------------
(* What passing a list of checks means *)

LEMMA AdmissionMeans ==
  ASSUME NEW c, NEW lg, AllHold(AdmissionChecks(c, lg))
  PROVE  /\ \A i \in Legs : FloorOk(c, lg, i)
         /\ RemainderOk(SolEnd(c, lg))
<1> DEFINE ch == AdmissionChecks(c, lg)
<1>1. 7 \in DOMAIN ch /\ 11 \in DOMAIN ch
  BY DEF AdmissionChecks
<1>2. ch[7][1] /\ ch[11][1]
  BY <1>1 DEF AllHold
<1>3. ch[7][1] = (\A i \in Legs : FloorOk(c, lg, i))
  BY DEF AdmissionChecks
<1>4. ch[11][1] = RemainderOk(SolEnd(c, lg))
  BY DEF AdmissionChecks
<1> QED BY <1>2, <1>3, <1>4

LEMMA LegMeans ==
  ASSUME NEW c, NEW lg, NEW i, AllHold(LegChecks(c, lg, i))
  PROVE  /\ TargetPreCallBalanceOk(lg, i)
         /\ lg.sol >= Amount(c, i)
<1> DEFINE ch == LegChecks(c, lg, i)
<1>1. 3 \in DOMAIN ch /\ 5 \in DOMAIN ch
  BY DEF LegChecks
<1>2. ch[3][1] /\ ch[5][1]
  BY <1>1 DEF AllHold
<1>3. ch[3][1] = TargetPreCallBalanceOk(lg, i)
  BY DEF LegChecks
<1>4. ch[5][1] = (BareSystemAccount(lg) /\ lg.sol >= Amount(c, i))
  BY DEF LegChecks
<1> QED BY <1>2, <1>3, <1>4

LEMMA PostMeans ==
  ASSUME NEW c, NEW lg, NEW i, AllHold(PostChecks(c, lg, i))
  PROVE  /\ WsolConsumed(lg)
         /\ lg.amt[i] - base.amt >= c.min[i]
<1> DEFINE ch == PostChecks(c, lg, i)
<1>1. 2 \in DOMAIN ch /\ 5 \in DOMAIN ch
  BY DEF PostChecks
<1>2. ch[2][1] /\ ch[5][1]
  BY <1>1 DEF AllHold
<1>3. ch[2][1] = WsolConsumed(lg)
  BY DEF PostChecks
<1>4. ch[5][1] = (lg.amt[i] - base.amt >= c.min[i])
  BY DEF PostChecks
<1> QED BY <1>2, <1>3, <1>4

LEMMA SweepMeans ==
  ASSUME NEW c, NEW lg, AllHold(SweepChecks(c, lg))
  PROVE  /\ FinalCreditsOk(c, lg)
         /\ SweptBad(c, lg) = {}
         /\ \A i \in Legs : PreExisting(c, lg, i) <= burned[i]
         /\ BareSystemAccount(lg)
         /\ lg.wctl = "ours"
<1> DEFINE ch == SweepChecks(c, lg)
<1>1. 1 \in DOMAIN ch /\ 2 \in DOMAIN ch /\ 3 \in DOMAIN ch /\ 4 \in DOMAIN ch /\ 5 \in DOMAIN ch
  BY DEF SweepChecks
<1>2. ch[1][1] /\ ch[2][1] /\ ch[3][1] /\ ch[4][1] /\ ch[5][1]
  BY <1>1 DEF AllHold
<1>3. ch[1][1] = FinalCreditsOk(c, lg)
  BY DEF SweepChecks
<1>4. ch[2][1] = (SweptBad(c, lg) = {})
  BY DEF SweepChecks
<1>5. ch[4][1] = BareSystemAccount(lg)
  BY DEF SweepChecks
<1>6. ch[5][1] = (lg.wctl = "ours")
  BY DEF SweepChecks
<1>7. ch[3][1] = (\A i \in Legs : PreExisting(c, lg, i) <= burned[i])
  BY DEF SweepChecks
<1> QED BY <1>2, <1>3, <1>4, <1>5, <1>6, <1>7

-----------------------------------------------------------------------------
(* Facts about the constants *)

LEMMA LegsFacts == /\ Legs = 1 .. Len(Weights)
                   /\ Len(Weights) \in Nat \ {0}
                   /\ 1 \in Legs
<1>1. WeightVector(Weights)
  BY WeightsAssumption DEF WeightVector
<1> QED BY <1>1, WeightCases DEF Legs

\* The legs' inputs are natural numbers: the final one by FinalLegFair.
LEMMA AmountNat ==
  ASSUME NEW c, c.total \in Nat, NEW i \in Legs
  PROVE  Amount(c, i) \in Nat
<1> DEFINE n == Len(Weights)
<1>1. WeightVector(Weights)
  BY WeightsAssumption DEF WeightVector
<1>2. n \in {1, 2, 3, 4} /\ Legs = 1 .. n /\ \A j \in 1 .. n : Weights[j] \in Nat
  BY <1>1, WeightCases DEF Legs
<1>3. \A j \in 1 .. n : Share(c.total, Weights[j]) \in Nat
  BY <1>2, ShareBounds
<1>4. CASE i # n
  BY <1>2, <1>3, <1>4 DEF Amount, LegAmount
<1>5. CASE i = n
  <2>1. Amount(c, i) >= Share(c.total, Weights[n])
    BY <1>1, <1>5, FinalLegFair DEF FinalLegIsFair, Amount
  <2>2. Amount(c, i) = c.total - Allocated(c.total, Weights, n)
    BY <1>5 DEF Amount, LegAmount
  <2>3. Allocated(c.total, Weights, n) \in Nat
    BY <1>2, <1>3 DEF Allocated
  <2> QED BY <1>2, <1>3, <2>1, <2>2, <2>3
<1> QED BY <1>4, <1>5

LEMMA CallFacts ==
  ASSUME NEW c \in Calls
  PROVE  /\ c \in CallType
         /\ c.total \in Nat
         /\ c.min \in [Legs -> Nat]
         /\ \A i \in Legs : Amount(c, i) \in Nat
<1>1. c \in CallType
  BY BoundsAssumption
<1>2. c.total \in Nat /\ c.min \in [Legs -> Nat]
  BY <1>1 DEF CallType
<1> QED BY <1>1, <1>2, AmountNat

LEMMA SumNat ==
  ASSUME NEW S, NEW f \in [Accums -> Nat]
  PROVE  SumOver(S, f) \in Nat
BY DEF SumOver, Accums

-----------------------------------------------------------------------------
(* Types.  TypeOK is not inductive: the venue's debit stays within Nat only
   because the leg was funded before the call. *)

CallRunning == phase # "idle" => call \in Calls

Funded ==
  phase = "cpi" =>
    IF call.kind[leg] = "curve" THEN ledger.sol >= Amount(call, leg)
                                ELSE ledger.wsol >= Amount(call, leg)

TypeInv == TypeOK /\ CallRunning /\ Funded

LEMMA EndTypes ==
  ASSUME NEW lg \in Ledger, NEW c, End(lg, c)
  PROVE  TypeInv'
<1>1. 1 \in Legs
  BY LegsFacts
<1>2. NoBase \in [sol : Nat, wsol : Nat, amt : Nat, rent : [Accums -> Nat]]
  BY DEF NoBase
<1>3. Zeros \in [Legs -> Nat]
  BY DEF Zeros
<1>4. 0 \in 0 .. MaxTouches
  BY BoundsAssumption
<1> QED BY <1>1, <1>2, <1>3, <1>4 DEF End, TypeInv, TypeOK, CallRunning, Funded

LEMMA InitTypes == Init => TypeInv
<1> SUFFICES ASSUME Init PROVE TypeInv
  OBVIOUS
<1>1. ledger \in Ledger
  <2> DEFINE ctl0 == [a \in Accts |-> IF a \in Legs THEN "ours" ELSE AuxStatus[a]]
  <2>1. ctl0 \in [Accts -> Status]
    BY AuxAssumption DEF Accts, Status
  <2>2. [a \in Accts |-> 0] \in [Accts -> Nat] /\ [x \in Accums |-> 0] \in [Accums -> Nat]
    OBVIOUS
  <2>3. ledger \in [sol : SolAmounts, bare : {TRUE}, wsol : {0}, raw : {0}, wctl : {"ours"},
                   amt : {[a \in Accts |-> 0]}, ctl : {ctl0},
                   rent : {[x \in Accums |-> 0]}, market : Markets]
    BY DEF Init
  <2>4. "ours" \in Status /\ TRUE \in BOOLEAN /\ 0 \in Nat /\ SolAmounts \subseteq Nat
    BY BoundsAssumption DEF Status
  <2> HIDE DEF ctl0
  <2> QED BY <2>1, <2>2, <2>3, <2>4 DEF Ledger
<1>2. 1 \in Legs /\ 0 \in 0 .. MaxTouches
  BY LegsFacts, BoundsAssumption
<1>3. NoBase \in [sol : Nat, wsol : Nat, amt : Nat, rent : [Accums -> Nat]]
  BY DEF NoBase
<1>4. Zeros \in [Legs -> Nat]
  BY DEF Zeros
<1> QED BY <1>1, <1>2, <1>3, <1>4 DEF Init, TypeInv, TypeOK, CallRunning, Funded

LEMMA SubmitTypes ==
  ASSUME TypeInv, NEW c \in Calls, Submit(c)
  PROVE  TypeInv'
<1>1. CASE Fail(AdmissionChecks(c, ledger))
  BY <1>1, EndTypes DEF Fail, TypeInv, TypeOK
<1>2. CASE ~ Fail(AdmissionChecks(c, ledger))
  BY <1>2 DEF Submit, TypeInv, TypeOK, CallRunning, Funded
<1> QED BY <1>1, <1>2

LEMMA BeginLegTypes ==
  ASSUME TypeInv, BeginLeg
  PROVE  TypeInv'
<1>1. CASE Fail(LegChecks(call, ledger, leg))
  BY <1>1, EndTypes DEF Fail, TypeInv, TypeOK
<1>2. CASE ~ Fail(LegChecks(call, ledger, leg))
  <2> DEFINE amount == Amount(call, leg)
  <2>1. phase = "leg" /\ phase' = "cpi" /\ call \in Calls /\ leg \in Legs
    BY <1>2 DEF BeginLeg, TypeInv, TypeOK, CallRunning
  <2>2. amount \in Nat /\ ledger.sol >= amount
    BY <1>2, <2>1, CallFacts, LegMeans DEF BeginLeg
  <2>3. ledger \in Ledger /\ ledger.sol \in Nat /\ ledger.wsol \in Nat /\ ledger.raw \in Nat
        /\ ledger.amt \in [Accts -> Nat] /\ ledger.rent \in [Accums -> Nat]
    BY DEF TypeInv, TypeOK, Ledger
  <2>4. ledger' = FundWsol(ledger, call.kind[leg], amount)
    BY <1>2 DEF BeginLeg
  <2>5. ledger' \in Ledger
    <3> HIDE DEF amount
    <3>1. CASE call.kind[leg] = "curve"
      BY <2>3, <2>4, <3>1 DEF FundWsol
    <3>2. CASE call.kind[leg] # "curve"
      <4>1. ledger' = [ledger EXCEPT !.sol = ledger.sol - amount, !.wsol = ledger.wsol + ledger.raw + amount, !.raw = 0]
        BY <2>3, <2>4, <3>2 DEF FundWsol, Ledger
      <4>2. ledger.sol - amount \in Nat /\ ledger.wsol + ledger.raw + amount \in Nat
        BY <2>2, <2>3
      <4> QED BY <2>3, <4>1, <4>2 DEF Ledger
    <3> QED BY <3>1, <3>2
  <2>6. base' \in [sol : Nat, wsol : Nat, amt : Nat, rent : [Accums -> Nat]]
    BY <1>2, <2>1, <2>3 DEF BeginLeg, WsolBefore, Accts
  <2>7. Funded'
    <3>1. call' = call /\ leg' = leg
      BY <1>2 DEF BeginLeg
    <3>2. Amount(call', leg') = amount
      BY <3>1
    <3> HIDE DEF amount
    <3>3. CASE call.kind[leg] = "curve"
      BY <2>2, <2>3, <2>4, <3>1, <3>2, <3>3 DEF FundWsol, Funded
    <3>4. CASE call.kind[leg] # "curve"
      BY <2>2, <2>3, <2>4, <3>1, <3>2, <3>4 DEF FundWsol, Funded, Ledger
    <3> QED BY <3>3, <3>4
  <2> QED BY <1>2, <2>1, <2>5, <2>6, <2>7 DEF BeginLeg, TypeInv, TypeOK, CallRunning
<1> QED BY <1>1, <1>2

LEMMA VenueSwapTypes ==
  ASSUME TypeInv, NEW out \in Outputs, VenueSwap(out)
  PROVE  TypeInv'
<1> DEFINE amount == Amount(call, leg)
           refunds == OpenIn(AccumSlice(call, leg), ledger)
           back == SumOver(refunds, ledger.rent)
           rent2 == [x \in Accums |-> IF x \in refunds THEN 0 ELSE ledger.rent[x]]
<1>1. phase = "cpi" /\ phase' = "back" /\ call \in Calls /\ leg \in Legs /\ out \in Nat
  BY BoundsAssumption DEF VenueSwap, TypeInv, TypeOK, CallRunning
<1>2. ledger \in Ledger /\ ledger.sol \in Nat /\ ledger.wsol \in Nat
      /\ ledger.amt \in [Accts -> Nat] /\ ledger.rent \in [Accums -> Nat] /\ leg \in Accts
  BY <1>1 DEF TypeInv, TypeOK, Ledger, Accts
<1>3. amount \in Nat
  BY <1>1, CallFacts
<1>4. back \in Nat /\ rent2 \in [Accums -> Nat]
  BY <1>2, SumNat
<1>5. [ledger.amt EXCEPT ![leg] = ledger.amt[leg] + out] \in [Accts -> Nat]
  BY <1>1, <1>2
<1>6. ledger' \in Ledger
  <2>1. CASE call.kind[leg] = "curve"
    <3>1. ledger' = [ledger EXCEPT !.sol = ledger.sol - amount,
                                   !.amt = [ledger.amt EXCEPT ![leg] = ledger.amt[leg] + out]]
      BY <1>2, <2>1 DEF VenueSwap, Ledger
    <3>2. ledger.sol - amount \in Nat
      BY <1>1, <1>2, <1>3, <2>1 DEF TypeInv, Funded
    <3> QED BY <1>2, <1>5, <3>1, <3>2 DEF Ledger
  <2>2. CASE call.kind[leg] # "curve"
    <3>1. ledger' = [ledger EXCEPT !.wsol = ledger.wsol - amount,
                                   !.amt = [ledger.amt EXCEPT ![leg] = ledger.amt[leg] + out],
                                   !.sol = ledger.sol + back,
                                   !.rent = rent2]
      BY <1>2, <2>2 DEF VenueSwap, Ledger
    <3>2. ledger.wsol - amount \in Nat /\ ledger.sol + back \in Nat
      BY <1>1, <1>2, <1>3, <1>4, <2>2 DEF TypeInv, Funded
    <3> HIDE DEF amount, back, rent2
    <3> QED BY <1>2, <1>4, <1>5, <3>1, <3>2 DEF Ledger
  <2> QED BY <2>1, <2>2
<1> QED BY <1>1, <1>6 DEF VenueSwap, TypeInv, TypeOK, CallRunning, Funded

LEMMA FinishLegTypes ==
  ASSUME TypeInv, FinishLeg
  PROVE  TypeInv'
<1>1. CASE Fail(PostChecks(call, ledger, leg))
  BY <1>1, EndTypes DEF Fail, TypeInv, TypeOK
<1>2. CASE ~ Fail(PostChecks(call, ledger, leg))
  <2>1. phase = "back" /\ phase' \in {"leg", "sweep"} /\ call \in Calls /\ leg \in Legs
    BY <1>2 DEF FinishLeg, TypeInv, TypeOK, CallRunning
  <2>2. ledger \in Ledger /\ ledger.amt \in [Accts -> Nat] /\ leg \in Accts
    BY <2>1 DEF TypeInv, TypeOK, Ledger, Accts
  <2>3. ledger' = [ledger EXCEPT !.amt = [ledger.amt EXCEPT ![leg] = 0]]
    BY <1>2, <2>2 DEF FinishLeg, Ledger
  <2>4. ledger' \in Ledger
    BY <2>2, <2>3 DEF Ledger
  <2>5. burned' \in [Legs -> Nat]
    BY <1>2, <2>1, <2>2 DEF FinishLeg, TypeInv, TypeOK
  <2>6. LegCredit(call, leg) \in Nat
    BY SumNat DEF LegCredit, TypeInv, TypeOK
  <2>7. credited' \in Nat
    BY <1>2, <2>6 DEF FinishLeg, TypeInv, TypeOK
  <2>8. leg' \in Legs
    BY <1>2, <2>1, LegsFacts DEF FinishLeg, LastLeg
  <2> QED BY <1>2, <2>1, <2>4, <2>5, <2>7, <2>8
          DEF FinishLeg, TypeInv, TypeOK, CallRunning, Funded
<1> QED BY <1>1, <1>2

LEMMA SweepTypes ==
  ASSUME TypeInv, Sweep
  PROVE  TypeInv'
<1>1. End(entry, FirstError(SweepChecks(call, ledger))) \/ End(ledger, 0)
  BY DEF Sweep, Fail
<1> QED BY <1>1, EndTypes DEF TypeInv, TypeOK

LEMMA TouchTypes ==
  ASSUME TypeInv, NEW lg \in Ledger, Touch(lg)
  PROVE  TypeInv'
BY BoundsAssumption DEF Touch, TypeInv, TypeOK, CallRunning, Funded

LEMMA ReceiveTypes ==
  ASSUME TypeInv, NEW lg \in Ledger, Receive(lg)
  PROVE  TypeInv'
BY DEF Receive, TypeInv, TypeOK, CallRunning, Funded

LEMMA EnvironmentTypes ==
  ASSUME TypeInv, Environment
  PROVE  TypeInv'
<1> USE BoundsAssumption
<1>1. /\ ledger \in Ledger /\ ledger.amt \in [Accts -> Nat] /\ ledger.ctl \in [Accts -> Status]
      /\ ledger.rent \in [Accums -> Nat] /\ ledger.wsol \in Nat /\ ledger.raw \in Nat
  BY DEF TypeInv, TypeOK, Ledger
<1>2. ASSUME NEW n \in SolAmounts, NEW b \in BOOLEAN, TouchVault(n, b) PROVE TypeInv'
  <2>1. [ledger EXCEPT !.sol = n, !.bare = b] \in Ledger
    BY <1>1 DEF Ledger
  <2> QED BY <1>2, <2>1, TouchTypes DEF TouchVault
<1>3. ASSUME NEW n \in Amounts, NEW s \in Status, TouchWsol(n, s) PROVE TypeInv'
  <2>1. [ledger EXCEPT !.wsol = n, !.wctl = s] \in Ledger
    BY <1>1 DEF Ledger
  <2> QED BY <1>3, <2>1, TouchTypes DEF TouchWsol
<1>4. ASSUME NEW a \in Accts, NEW n \in Amounts, NEW s \in Status, TouchToken(a, n, s) PROVE TypeInv'
  <2>1. [ledger.amt EXCEPT ![a] = n] \in [Accts -> Nat] /\ [ledger.ctl EXCEPT ![a] = s] \in [Accts -> Status]
    BY <1>1
  <2>2. [ledger EXCEPT !.amt = [ledger.amt EXCEPT ![a] = n], !.ctl = [ledger.ctl EXCEPT ![a] = s]] \in Ledger
    BY <1>1, <2>1 DEF Ledger
  <2>3. [ledger EXCEPT !.amt[a] = n, !.ctl[a] = s]
          = [ledger EXCEPT !.amt = [ledger.amt EXCEPT ![a] = n], !.ctl = [ledger.ctl EXCEPT ![a] = s]]
    BY <1>1 DEF Ledger
  <2> QED BY <1>4, <2>2, <2>3, TouchTypes DEF TouchToken
<1>5. ASSUME NEW x \in Accums, NEW n \in Amounts, TouchAccumulator(x, n) PROVE TypeInv'
  <2>1. [ledger EXCEPT !.rent[x] = n] \in Ledger
    BY <1>1 DEF Ledger
  <2> QED BY <1>5, <2>1, TouchTypes DEF TouchAccumulator
<1>6. ASSUME NEW m \in Markets, TouchMarket(m) \/ Trade(m) PROVE TypeInv'
  <2>1. [ledger EXCEPT !.market = m] \in Ledger
    BY <1>1 DEF Ledger
  <2> QED BY <1>6, <2>1, TouchTypes, ReceiveTypes DEF TouchMarket, Trade
<1>7. ASSUME NEW n \in SolAmounts, Donate(n) PROVE TypeInv'
  <2>1. [ledger EXCEPT !.sol = n] \in Ledger
    BY <1>1 DEF Ledger
  <2> QED BY <1>7, <2>1, ReceiveTypes DEF Donate
<1>8. ASSUME NEW n \in Amounts, DonateRaw(n) PROVE TypeInv'
  <2>1. n - ledger.wsol \in Nat
    BY <1>1, <1>8 DEF DonateRaw
  <2>2. [ledger EXCEPT !.raw = n - ledger.wsol] \in Ledger
    BY <1>1, <2>1 DEF Ledger
  <2> QED BY <1>8, <2>2, ReceiveTypes DEF DonateRaw
<1>9. ASSUME NEW a \in Accts, NEW n \in Amounts, DonateToken(a, n) PROVE TypeInv'
  <2>1. [ledger EXCEPT !.amt[a] = n] \in Ledger
    BY <1>1 DEF Ledger
  <2> QED BY <1>9, <2>1, ReceiveTypes DEF DonateToken
<1>10. ASSUME NEW x \in Accums, NEW n \in Amounts, OpenAccum(x, n) PROVE TypeInv'
  <2>1. [ledger EXCEPT !.rent[x] = n] \in Ledger
    BY <1>1 DEF Ledger
  <2> QED BY <1>10, <2>1, ReceiveTypes DEF OpenAccum
<1> QED BY <1>2, <1>3, <1>4, <1>5, <1>6, <1>7, <1>8, <1>9, <1>10 DEF Environment

LEMMA NextTypes == TypeInv /\ [Next]_vars => TypeInv'
<1>1. ASSUME TypeInv, UNCHANGED vars PROVE TypeInv'
  BY <1>1 DEF vars, TypeInv, TypeOK, CallRunning, Funded
<1> QED BY <1>1, SubmitTypes, BeginLegTypes, VenueSwapTypes, FinishLegTypes, SweepTypes, EnvironmentTypes DEF Next

LEMMA TypeInvariant == Spec => []TypeInv
BY InitTypes, NextTypes, PTL DEF Spec

\* Every variable keeps its type: in particular neither a leg's funding nor a
\* venue's debit drives a balance below zero, although the amounts of the legs
\* are differences of rounded shares.
THEOREM TypeCorrect == Spec => []TypeOK
<1>1. TypeInv => TypeOK
  BY DEF TypeInv
<1> QED BY <1>1, TypeInvariant, PTL

-----------------------------------------------------------------------------
(* The state a failure restores, and what a commit leaves behind.  Outside a
   transaction the accounts are those of entry; entry itself is intact and
   rent exempt; a route reaches only the accounts of its pool; and the balance
   the sweep will insist on was found rent exempt before the first leg. *)

IdleAtEntry == phase = "idle" => ledger = entry

EntryIntact ==
  /\ entry.bare
  /\ entry.wctl = "ours"
  /\ \A i \in Legs : entry.ctl[i] = "ours"
  /\ \A a \in Aux : AuxStatus[a] = "ours" => entry.ctl[a] = "ours"

OutOfReach ==
  phase # "idle" => \A a \in Accts \ TokenPool(call) : ledger.ctl[a] = entry.ctl[a]

EntryExempt == RemainderOk(entry.sol)

PlannedRemainder == phase # "idle" => RemainderOk(SolEnd(call, entry))

VaultInv == IdleAtEntry /\ EntryIntact /\ OutOfReach /\ EntryExempt /\ PlannedRemainder

LEMMA AcctMeans ==
  ASSUME NEW c, NEW lg, NEW a \in TokenPool(c), SweptBad(c, lg) = {}, entry.ctl[a] = "ours"
  PROVE  lg.ctl[a] = "ours"
<1> DEFINE ch == AcctChecks(lg, a)
<1>1. AllHold(ch)
  BY DEF SweptBad
<1>2. ch = << <<lg.ctl[a] # "lost",                               6023>>,
              <<lg.ctl[a] = "ours",                               6035>>,
              <<MintOf(a) = 0 \/ ~ Moved(a, lg) \/ lg.amt[a] = 0, 6023>>,
              <<MintOf(a) # 0 \/ ~ Moved(a, lg),                  6043>> >>
  BY DEF AcctChecks
<1>3. 2 \in DOMAIN ch /\ ch[2][1] = (lg.ctl[a] = "ours")
  BY <1>2
<1> QED BY <1>1, <1>3 DEF AllHold

LEMMA LegsInPool ==
  ASSUME NEW c
  PROVE  Legs \subseteq TokenPool(c)
BY DEF TokenPool, TokenSlice

LEMMA SliceInPool ==
  ASSUME NEW c, NEW i \in Legs
  PROVE  TokenSlice(c, i) \subseteq TokenPool(c)
BY DEF TokenPool

LEMMA EndVault ==
  ASSUME VaultInv, NEW c, End(entry, c)
  PROVE  VaultInv'
BY DEF End, VaultInv, IdleAtEntry, EntryIntact, OutOfReach, EntryExempt, PlannedRemainder, RemainderOk

\* Steps inside a transaction that leave the control of every account outside
\* the pool alone.
LEMMA InsideVault ==
  ASSUME VaultInv, phase # "idle", phase' # "idle", entry' = entry, call' = call,
         \A a \in Accts \ TokenPool(call) : ledger'.ctl[a] = ledger.ctl[a]
  PROVE  VaultInv'
BY DEF VaultInv, IdleAtEntry, EntryIntact, OutOfReach, EntryExempt, PlannedRemainder,
       RemainderOk, SolEnd, KnownCredit, CreditsOf, OpenIn

\* Between transactions somebody sends value; control does not change.
LEMMA ReceiveVault ==
  ASSUME TypeInv, VaultInv, NEW lg, Receive(lg), lg.bare = ledger.bare,
         lg.wctl = ledger.wctl, lg.ctl = ledger.ctl, RemainderOk(lg.sol)
  PROVE  VaultInv'
<1>1. phase = "idle" /\ phase' = "idle" /\ ledger' = lg /\ entry' = lg /\ ledger = entry
  BY DEF Receive, VaultInv, IdleAtEntry
<1> QED BY <1>1 DEF VaultInv, IdleAtEntry, EntryIntact, OutOfReach, EntryExempt, PlannedRemainder, RemainderOk

LEMMA SubmitVault ==
  ASSUME TypeInv, VaultInv, NEW c \in Calls, Submit(c)
  PROVE  VaultInv'
<1>1. CASE Fail(AdmissionChecks(c, ledger))
  BY <1>1, EndVault DEF Fail
<1>2. CASE ~ Fail(AdmissionChecks(c, ledger))
  <2>1. phase = "idle" /\ phase' = "leg" /\ call' = c /\ ledger' = ledger /\ entry' = entry /\ ledger = entry
    BY <1>2 DEF Submit, VaultInv, IdleAtEntry
  <2>2. RemainderOk(SolEnd(c, entry))
    BY <1>2, <2>1, AdmissionMeans DEF Submit
  <2>3. PlannedRemainder'
    BY <2>1, <2>2 DEF PlannedRemainder, RemainderOk, SolEnd, KnownCredit, CreditsOf, OpenIn
  <2> QED BY <2>1, <2>3 DEF VaultInv, IdleAtEntry, EntryIntact, OutOfReach, EntryExempt, RemainderOk
<1> QED BY <1>1, <1>2

LEMMA LegStepVault ==
  ASSUME TypeInv, VaultInv, BeginLeg \/ FinishLeg \/ \E out \in Outputs : VenueSwap(out)
  PROVE  VaultInv'
<1>1. ledger \in Ledger /\ leg \in Legs
  BY DEF TypeInv, TypeOK
<1>2. CASE BeginLeg
  <2>1. CASE Fail(LegChecks(call, ledger, leg))
    BY <2>1, EndVault DEF Fail
  <2>2. CASE ~ Fail(LegChecks(call, ledger, leg))
    <3>1. ledger'.ctl = ledger.ctl
      BY <1>1, <1>2, <2>2 DEF BeginLeg, FundWsol, Ledger
    <3> QED BY <1>2, <2>2, <3>1, InsideVault DEF BeginLeg
  <2> QED BY <2>1, <2>2
<1>3. CASE FinishLeg
  <2>1. CASE Fail(PostChecks(call, ledger, leg))
    BY <2>1, EndVault DEF Fail
  <2>2. CASE ~ Fail(PostChecks(call, ledger, leg))
    <3>1. ledger'.ctl = ledger.ctl
      BY <1>1, <1>3, <2>2 DEF FinishLeg, Ledger
    <3>2. phase = "back" /\ phase' # "idle" /\ entry' = entry /\ call' = call
      BY <1>3, <2>2 DEF FinishLeg
    <3> QED BY <3>1, <3>2, InsideVault
  <2> QED BY <2>1, <2>2
<1>4. ASSUME NEW out \in Outputs, VenueSwap(out) PROVE VaultInv'
  <2>1. ledger'.ctl = ledger.ctl
    BY <1>1, <1>4 DEF VenueSwap, Ledger
  <2> QED BY <1>4, <2>1, InsideVault DEF VenueSwap
<1> QED BY <1>2, <1>3, <1>4

LEMMA SweepVault ==
  ASSUME TypeInv, VaultInv, Sweep
  PROVE  VaultInv'
<1>1. CASE Fail(SweepChecks(call, ledger))
  BY <1>1, EndVault DEF Fail
<1>2. CASE ~ Fail(SweepChecks(call, ledger))
  <2>1. phase = "sweep" /\ AllHold(SweepChecks(call, ledger)) /\ End(ledger, 0)
    BY <1>2 DEF Sweep
  <2>2. phase' = "idle" /\ ledger' = ledger /\ entry' = ledger
    BY <2>1 DEF End
  <2>3. /\ FinalCreditsOk(call, ledger) /\ SweptBad(call, ledger) = {}
        /\ ledger.bare /\ ledger.wctl = "ours"
    BY <2>1, SweepMeans DEF BareSystemAccount
  <2>4. \A i \in Legs : ledger.ctl[i] = "ours"
    BY <2>3, AcctMeans, LegsInPool DEF VaultInv, EntryIntact
  <2>5. ASSUME NEW a \in Aux, AuxStatus[a] = "ours" PROVE ledger.ctl[a] = "ours"
    <3>1. entry.ctl[a] = "ours" /\ a \in Accts
      BY <2>5 DEF VaultInv, EntryIntact, Accts
    <3>2. CASE a \in TokenPool(call)
      BY <2>3, <3>1, <3>2, AcctMeans
    <3>3. CASE a \notin TokenPool(call)
      BY <2>1, <3>1, <3>3 DEF VaultInv, OutOfReach
    <3> QED BY <3>2, <3>3
  <2>6. RemainderOk(ledger.sol)
    BY <2>1, <2>3 DEF FinalCreditsOk, VaultInv, PlannedRemainder
  <2> QED BY <2>2, <2>3, <2>4, <2>5, <2>6
          DEF VaultInv, IdleAtEntry, EntryIntact, OutOfReach, EntryExempt, PlannedRemainder, RemainderOk
<1> QED BY <1>1, <1>2

LEMMA EnvironmentVault ==
  ASSUME TypeInv, VaultInv, Environment
  PROVE  VaultInv'
<1>1. ledger \in Ledger /\ leg \in Legs /\ ledger.ctl \in [Accts -> Status]
  BY DEF TypeInv, TypeOK, Ledger
<1>2. phase = "idle" => RemainderOk(ledger.sol)
  BY DEF VaultInv, IdleAtEntry, EntryExempt
<1>3. ASSUME NEW lg, Touch(lg), \A a \in Accts \ TokenPool(call) : lg.ctl[a] = ledger.ctl[a]
      PROVE  VaultInv'
  BY <1>3, InsideVault DEF Touch
<1>4. ASSUME NEW n, NEW b, TouchVault(n, b) PROVE VaultInv'
  BY <1>1, <1>3, <1>4 DEF TouchVault, Ledger
<1>5. ASSUME NEW n, NEW s, TouchWsol(n, s) PROVE VaultInv'
  BY <1>1, <1>3, <1>5 DEF TouchWsol, Ledger
<1>6. ASSUME NEW a \in Accts, NEW n, NEW s, TouchToken(a, n, s) PROVE VaultInv'
  <2> DEFINE lg == [ledger EXCEPT !.amt[a] = n, !.ctl[a] = s]
  <2>1. a \in TokenPool(call)
    BY <1>1, <1>6, SliceInPool DEF TouchToken
  <2>2. lg.ctl = [ledger.ctl EXCEPT ![a] = s]
    BY <1>1 DEF Ledger
  <2>3. \A d \in Accts \ TokenPool(call) : lg.ctl[d] = ledger.ctl[d]
    BY <1>1, <2>1, <2>2
  <2>4. Touch(lg)
    BY <1>6 DEF TouchToken
  <2> HIDE DEF lg
  <2> QED BY <1>3, <2>3, <2>4
<1>7. ASSUME NEW x, NEW n, TouchAccumulator(x, n) PROVE VaultInv'
  BY <1>1, <1>3, <1>7 DEF TouchAccumulator, Ledger
<1>8. ASSUME NEW m, TouchMarket(m) PROVE VaultInv'
  BY <1>1, <1>3, <1>8 DEF TouchMarket, Ledger
<1>9. ASSUME NEW m, Trade(m) PROVE VaultInv'
  BY <1>1, <1>2, <1>9, ReceiveVault DEF Trade, Receive, Ledger
<1>10. ASSUME NEW n, Donate(n) PROVE VaultInv'
  <2>1. RemainderOk([ledger EXCEPT !.sol = n].sol)
    BY <1>1, <1>10 DEF Donate, RemainderOk, Ledger
  <2> QED BY <1>1, <1>10, <2>1, ReceiveVault DEF Donate, Ledger
<1>11. ASSUME NEW n, DonateRaw(n) PROVE VaultInv'
  BY <1>1, <1>2, <1>11, ReceiveVault DEF DonateRaw, Receive, Ledger
<1>12. ASSUME NEW a, NEW n, DonateToken(a, n) PROVE VaultInv'
  BY <1>1, <1>2, <1>12, ReceiveVault DEF DonateToken, Receive, Ledger
<1>13. ASSUME NEW x, NEW n, OpenAccum(x, n) PROVE VaultInv'
  BY <1>1, <1>2, <1>13, ReceiveVault DEF OpenAccum, Receive, Ledger
<1> QED BY <1>4, <1>5, <1>6, <1>7, <1>8, <1>9, <1>10, <1>11, <1>12, <1>13 DEF Environment

LEMMA InitVault == Init => VaultInv
<1> SUFFICES ASSUME Init PROVE VaultInv
  OBVIOUS
<1>1. /\ ledger.bare = TRUE /\ ledger.wctl = "ours" /\ RemainderOk(ledger.sol)
      /\ ledger.ctl = [a \in Accts |-> IF a \in Legs THEN "ours" ELSE AuxStatus[a]]
  BY DEF Init, RemainderOk
<1>2. entry = ledger /\ phase = "idle"
  BY DEF Init
<1>3. \A i \in Legs : ledger.ctl[i] = "ours"
  BY <1>1 DEF Accts
<1>4. \A a \in Aux : AuxStatus[a] = "ours" => ledger.ctl[a] = "ours"
  BY <1>1 DEF Accts
<1> QED BY <1>1, <1>2, <1>3, <1>4
        DEF VaultInv, IdleAtEntry, EntryIntact, OutOfReach, EntryExempt, PlannedRemainder

LEMMA NextVault == TypeInv /\ VaultInv /\ [Next]_vars => VaultInv'
<1>1. ASSUME VaultInv, UNCHANGED vars PROVE VaultInv'
  <2>1. UNCHANGED <<ledger, entry, phase, call>>
    BY <1>1 DEF vars
  <2> QED BY <1>1, <2>1 DEF VaultInv, IdleAtEntry, EntryIntact, OutOfReach, EntryExempt,
             PlannedRemainder, RemainderOk, SolEnd, KnownCredit, CreditsOf, OpenIn
<1> QED BY <1>1, SubmitVault, LegStepVault, SweepVault, EnvironmentVault DEF Next

LEMMA VaultInvariant == Spec => [](TypeInv /\ VaultInv)
BY InitTypes, NextTypes, InitVault, NextVault, PTL DEF Spec

\* Whatever the routes of a transaction did with the vault's signature, no
\* transaction ends with the vault's accounts in other hands.
THEOREM VaultStaysIntact == Spec => []VaultIntact
<1>1. VaultInv => VaultIntact
  BY DEF VaultInv, IdleAtEntry, EntryIntact, VaultIntact
<1> QED BY <1>1, VaultInvariant, PTL

\* No transaction leaves the vault below the rent floor, so the check made
\* before the first leg is enough.
THEOREM VaultStaysRentExempt == Spec => []RentExempt
<1>1. VaultInv => RentExempt
  BY DEF VaultInv, IdleAtEntry, EntryExempt, RemainderOk, RentExempt
<1> QED BY <1>1, VaultInvariant, PTL

-----------------------------------------------------------------------------
(* The burn is at least the floor.  The caller's minima were compared with the
   floors of the market before the transaction; a leg is measured from the
   balance before the transaction; and its delta reached the minimum. *)

PlannedFloors ==
  phase # "idle" =>
    \A i \in Legs : call.min[i] >= LegFloor(i, Amount(call, i), entry.market)

LegBase == phase \in {"cpi", "back"} => base.amt = entry.amt[leg]

BurnedSoFar ==
  phase # "idle" =>
    \A i \in Legs : i < leg \/ phase = "sweep" => burned[i] >= entry.amt[i] + call.min[i]

FloorInv == PlannedFloors /\ LegBase /\ BurnedSoFar

LEMMA IdleFloor ==
  ASSUME phase' = "idle"
  PROVE  FloorInv'
BY DEF FloorInv, PlannedFloors, LegBase, BurnedSoFar

LEMMA SubmitFloor ==
  ASSUME TypeInv, VaultInv, phase = "idle" => leg = 1, NEW c \in Calls, Submit(c)
  PROVE  FloorInv'
<1>1. CASE Fail(AdmissionChecks(c, ledger))
  BY <1>1, IdleFloor DEF Fail, End
<1>2. CASE ~ Fail(AdmissionChecks(c, ledger))
  <2>1. /\ phase = "idle" /\ phase' = "leg" /\ call' = c /\ entry' = entry
        /\ ledger = entry /\ leg' = 1 /\ AllHold(AdmissionChecks(c, ledger))
    BY <1>2 DEF Submit, VaultInv, IdleAtEntry
  <2>2. \A i \in Legs : c.min[i] >= LegFloor(i, Amount(c, i), entry.market)
    BY <2>1, AdmissionMeans DEF FloorOk
  <2>3. \A i \in Legs : ~ (i < 1)
    BY LegsFacts
  <2> QED BY <2>1, <2>2, <2>3 DEF FloorInv, PlannedFloors, LegBase, BurnedSoFar, Amount
<1> QED BY <1>1, <1>2

\* Account changes that are neither a burn nor a new leg.
LEMMA InsideFloor ==
  ASSUME FloorInv, phase # "idle", UNCHANGED <<entry, phase, call, leg, base, burned>>
  PROVE  FloorInv'
BY DEF FloorInv, PlannedFloors, LegBase, BurnedSoFar, Amount

LEMMA LegStepFloor ==
  ASSUME TypeInv, FloorInv, BeginLeg \/ FinishLeg \/ \E out \in Outputs : VenueSwap(out)
  PROVE  FloorInv'
<1>1. leg \in Legs /\ leg \in Nat /\ Legs \subseteq Nat /\ phase \in {"idle", "leg", "cpi", "back", "sweep"}
  BY LegsFacts DEF TypeInv, TypeOK
<1>2. CASE BeginLeg
  <2>1. CASE Fail(LegChecks(call, ledger, leg))
    BY <2>1, IdleFloor DEF Fail, End
  <2>2. CASE ~ Fail(LegChecks(call, ledger, leg))
    <3>1. /\ phase = "leg" /\ phase' = "cpi" /\ base'.amt = ledger.amt[leg]
          /\ AllHold(LegChecks(call, ledger, leg))
          /\ UNCHANGED <<entry, call, leg, burned>>
      BY <1>2, <2>2 DEF BeginLeg
    <3>2. base'.amt = entry.amt[leg]
      BY <3>1, LegMeans DEF TargetPreCallBalanceOk
    <3> QED BY <3>1, <3>2 DEF FloorInv, PlannedFloors, LegBase, BurnedSoFar, Amount
  <2> QED BY <2>1, <2>2
<1>3. CASE FinishLeg
  <2>1. CASE Fail(PostChecks(call, ledger, leg))
    BY <2>1, IdleFloor DEF Fail, End
  <2>2. CASE ~ Fail(PostChecks(call, ledger, leg))
    <3>1. /\ phase = "back" /\ phase' \in {"leg", "sweep"} /\ UNCHANGED <<entry, call>>
          /\ burned' = [burned EXCEPT ![leg] = ledger.amt[leg]]
          /\ AllHold(PostChecks(call, ledger, leg))
          /\ (phase' = "sweep" /\ leg = Len(Weights) /\ leg' = leg) \/ (phase' = "leg" /\ leg' = leg + 1)
      BY <1>3, <2>2 DEF FinishLeg, LastLeg
    <3>2. ledger.amt[leg] - base.amt >= call.min[leg] /\ base.amt = entry.amt[leg]
      BY <3>1, PostMeans DEF FloorInv, LegBase
    <3>3. /\ ledger.amt[leg] \in Nat /\ entry.amt[leg] \in Nat /\ call.min[leg] \in Nat
          /\ burned \in [Legs -> Nat]
      BY <1>1, <3>1, CallFacts DEF TypeInv, TypeOK, CallRunning, Ledger, Accts
    <3>4. ledger.amt[leg] >= entry.amt[leg] + call.min[leg]
      BY <3>2, <3>3
    <3>5. ASSUME NEW i \in Legs, i < leg' \/ phase' = "sweep"
          PROVE  burned'[i] >= entry.amt[i] + call.min[i]
      <4>1. CASE i = leg
        BY <3>1, <3>3, <3>4, <4>1
      <4>2. CASE i # leg
        <5>1. i < leg
          BY <1>1, <3>1, <3>5, <4>2, LegsFacts
        <5> QED BY <3>1, <3>3, <4>2, <5>1 DEF FloorInv, BurnedSoFar
      <4> QED BY <4>1, <4>2
    <3>6. BurnedSoFar'
      BY <3>1, <3>5 DEF BurnedSoFar
    <3> QED BY <3>1, <3>6 DEF FloorInv, PlannedFloors, LegBase, Amount
  <2> QED BY <2>1, <2>2
<1>4. ASSUME NEW out \in Outputs, VenueSwap(out) PROVE FloorInv'
  BY <1>4 DEF VenueSwap, FloorInv, PlannedFloors, LegBase, BurnedSoFar, Amount
<1> QED BY <1>2, <1>3, <1>4

LEMMA EnvironmentFloor ==
  ASSUME FloorInv, Environment
  PROVE  FloorInv'
<1>1. ASSUME NEW lg, Touch(lg) PROVE FloorInv'
  BY <1>1, InsideFloor DEF Touch
<1>2. ASSUME NEW lg, Receive(lg) PROVE FloorInv'
  BY <1>2, IdleFloor DEF Receive
<1> QED BY <1>1, <1>2 DEF Environment, TouchVault, TouchWsol, TouchToken, TouchAccumulator, TouchMarket,
                         Trade, Donate, DonateRaw, DonateToken, OpenAccum

\* A transaction starts with its first leg, with nothing credited.
FirstLegNext == phase = "idle" => leg = 1 /\ credited = 0

LEMMA NextFirstLeg == FirstLegNext /\ [Next]_vars => FirstLegNext'
<1> SUFFICES ASSUME FirstLegNext, [Next]_vars PROVE FirstLegNext'
  OBVIOUS
<1> USE DEF FirstLegNext
<1>1. ASSUME NEW lg, NEW c, End(lg, c) PROVE FirstLegNext'
  BY <1>1 DEF End
<1>2. ASSUME NEW c \in Calls, Submit(c) PROVE FirstLegNext'
  BY <1>1, <1>2 DEF Submit, Fail
<1>3. CASE BeginLeg
  BY <1>1, <1>3 DEF BeginLeg, Fail
<1>4. CASE FinishLeg
  BY <1>1, <1>4 DEF FinishLeg, Fail
<1>5. CASE Sweep
  BY <1>1, <1>5 DEF Sweep, Fail
<1>6. ASSUME NEW out \in Outputs, VenueSwap(out) PROVE FirstLegNext'
  BY <1>6 DEF VenueSwap
<1>7. CASE Environment
  <2>1. ASSUME NEW lg, Touch(lg) PROVE FirstLegNext'
    BY <2>1 DEF Touch
  <2>2. ASSUME NEW lg, Receive(lg) PROVE FirstLegNext'
    BY <2>2 DEF Receive
  <2> QED BY <1>7, <2>1, <2>2 DEF Environment, TouchVault, TouchWsol, TouchToken, TouchAccumulator,
                                  TouchMarket, Trade, Donate, DonateRaw, DonateToken, OpenAccum
<1>8. CASE UNCHANGED vars
  BY <1>8 DEF vars
<1> QED BY <1>2, <1>3, <1>4, <1>5, <1>6, <1>7, <1>8 DEF Next

LEMMA NextFloor == TypeInv /\ VaultInv /\ FirstLegNext /\ FloorInv /\ [Next]_vars => FloorInv'
<1>1. ASSUME FloorInv, UNCHANGED vars PROVE FloorInv'
  BY <1>1 DEF vars, FloorInv, PlannedFloors, LegBase, BurnedSoFar, Amount
<1>2. ASSUME Sweep PROVE FloorInv'
  BY <1>2, IdleFloor DEF Sweep, Fail, End
<1> QED BY <1>1, <1>2, SubmitFloor, LegStepFloor, EnvironmentFloor DEF Next, FirstLegNext

LEMMA FloorInvariant == Spec => [](FirstLegNext /\ FloorInv)
<1>1. Init => FirstLegNext /\ FloorInv
  BY DEF Init, FirstLegNext, FloorInv, PlannedFloors, LegBase, BurnedSoFar
<1> QED BY <1>1, VaultInvariant, NextFirstLeg, NextFloor, PTL DEF Spec

\* Every committed burn destroys, for every leg, what its account held before
\* plus the floor of the market before any of its own trades.
THEOREM BurnAlwaysCoversFloor == Spec => BurnCoversFloor
<1>1. ASSUME TypeInv, FloorInv, Commits, NEW i \in Legs
      PROVE  burned[i] >= entry.amt[i] + LegFloor(i, Amount(call, i), entry.market)
  <2>1. phase = "sweep" /\ call \in Calls
    BY <1>1 DEF Commits, TypeInv, CallRunning
  <2>2. /\ burned[i] \in Nat /\ entry.amt[i] \in Nat /\ call.min[i] \in Nat
        /\ entry.market \in Markets
    BY <1>1, <2>1, CallFacts DEF TypeInv, TypeOK, Ledger, Accts
  <2>3. LegFloor(i, Amount(call, i), entry.market) \in Nat
    BY <2>1, <2>2, FloorAssumption
  <2>4. /\ burned[i] >= entry.amt[i] + call.min[i]
        /\ call.min[i] >= LegFloor(i, Amount(call, i), entry.market)
    BY <1>1, <2>1 DEF FloorInv, BurnedSoFar, PlannedFloors
  <2> QED BY <2>2, <2>3, <2>4
<1>2. TypeInv /\ FloorInv =>
        [Commits => \A i \in Legs : burned[i] >= entry.amt[i] + LegFloor(i, Amount(call, i), entry.market)]_vars
  BY <1>1
<1> QED BY <1>2, VaultInvariant, FloorInvariant, PTL DEF BurnCoversFloor

-----------------------------------------------------------------------------
(* What a commit spends.  A transaction reaches only the accounts of its pools;
   the wrapped account keeps its balance and what was sent to it raw from leg to
   leg, whichever leg's funding synchronised the latter; and a transaction that
   ends without an error passed the sweep. *)

\* A set of a few small numbers has a least one.
LEMMA LeastOfFive ==
  ASSUME NEW S, S \subseteq 1 .. 5, S # {}
  PROVE  \E k \in S : \A j \in S : k <= j
<1>1. CASE 1 \in S
  BY <1>1
<1>2. CASE 1 \notin S /\ 2 \in S
  BY <1>2
<1>3. CASE 1 \notin S /\ 2 \notin S /\ 3 \in S
  BY <1>3
<1>4. CASE 1 \notin S /\ 2 \notin S /\ 3 \notin S /\ 4 \in S
  BY <1>4
<1>5. CASE 1 \notin S /\ 2 \notin S /\ 3 \notin S /\ 4 \notin S
  <2>1. \A k \in S : k = 5
    BY <1>5
  <2>2. 5 \in S
    BY <2>1
  <2> QED BY <2>1, <2>2
<1> QED BY <1>1, <1>2, <1>3, <1>4, <1>5

LEMMA LegsAtMostFour == Legs \subseteq 1 .. 4
<1>1. WeightVector(Weights)
  BY WeightsAssumption DEF WeightVector
<1> QED BY <1>1, WeightCases DEF Legs

\* A failed list of checks names the error of one of them.
LEMMA FirstErrorIsOne ==
  ASSUME NEW checks, DOMAIN checks \subseteq 1 .. 5, ~ AllHold(checks)
  PROVE  \E k \in DOMAIN checks : ~ checks[k][1] /\ FirstError(checks) = checks[k][2]
<1> DEFINE failing == {k \in DOMAIN checks : ~ checks[k][1]}
<1>1. failing \subseteq 1 .. 5 /\ failing # {}
  BY DEF AllHold
<1>2. \E k \in failing : \A j \in failing : k <= j
  <2> HIDE DEF failing
  <2> QED BY <1>1, LeastOfFive
<1>3. Min(failing) \in failing
  BY <1>2 DEF Min
<1> QED BY <1>3 DEF FirstError

LEMMA AcctErrors ==
  ASSUME NEW lg, NEW a, ~ AllHold(AcctChecks(lg, a))
  PROVE  FirstError(AcctChecks(lg, a)) # 0
<1> DEFINE ch == AcctChecks(lg, a)
<1>1. DOMAIN ch \subseteq 1 .. 5 /\ \A k \in DOMAIN ch : ch[k][2] # 0
  <2>1. CASE entry.ctl[a] # "lost"
    BY <2>1 DEF AcctChecks
  <2>2. CASE entry.ctl[a] = "lost"
    BY <2>2 DEF AcctChecks
  <2> QED BY <2>1, <2>2
<1> HIDE DEF ch
<1>2. \E k \in DOMAIN ch : FirstError(ch) = ch[k][2]
  BY <1>1, FirstErrorIsOne DEF ch
<1> QED BY <1>1, <1>2 DEF ch

LEMMA SweepErrors ==
  ASSUME NEW c, NEW lg, ~ AllHold(SweepChecks(c, lg))
  PROVE  FirstError(SweepChecks(c, lg)) # 0
<1> DEFINE ch == SweepChecks(c, lg)
<1>1. DOMAIN ch = 1 .. 5
  BY DEF SweepChecks
<1>2. PICK k \in DOMAIN ch : ~ ch[k][1] /\ FirstError(ch) = ch[k][2]
  BY <1>1, FirstErrorIsOne
<1>3. CASE k # 2
  <2>1. ch[1][2] = 6019 /\ ch[3][2] = 6043 /\ ch[4][2] = 6012 /\ ch[5][2] = ControlError(lg.wctl)
    BY DEF SweepChecks
  <2>2. ControlError(lg.wctl) # 0
    BY DEF ControlError
  <2> QED BY <1>1, <1>2, <1>3, <2>1, <2>2
<1>4. CASE k = 2
  <2>1. ch[2][1] = (SweptBad(c, lg) = {}) /\ ch[2][2] = SweepError(c, lg)
    BY DEF SweepChecks
  <2>2. SweptBad(c, lg) # {}
    BY <1>2, <1>4, <2>1
  <2>3. (CHOOSE a \in SweptBad(c, lg) : TRUE) \in SweptBad(c, lg)
    BY <2>2
  <2>4. SweepError(c, lg) # 0
    BY <2>2, <2>3, AcctErrors DEF SweepError, SweptBad
  <2> QED BY <1>2, <1>4, <2>1, <2>4
<1> QED BY <1>3, <1>4

LEMMA CommitMeans ==
  ASSUME Next, Commits
  PROVE  AllHold(SweepChecks(call, ledger)) /\ ledger' = ledger
<1>1. phase = "sweep" /\ phase' = "idle" /\ code' = 0
  BY DEF Commits
<1>2. ~ Environment
  BY <1>1 DEF Environment, TouchVault, TouchWsol, TouchToken, TouchAccumulator, TouchMarket, Touch,
              Trade, Donate, DonateRaw, DonateToken, OpenAccum, Receive
<1>3. Sweep
  BY <1>1, <1>2 DEF Next, Submit, BeginLeg, VenueSwap, FinishLeg
<1>4. ~ Fail(SweepChecks(call, ledger))
  BY <1>1, SweepErrors DEF Fail, End
<1> QED BY <1>3, <1>4 DEF Sweep, End

RentOutOfReach ==
  phase # "idle" => \A x \in Accums \ AccumPool(call) : ledger.rent[x] = entry.rent[x]

TokensOutOfReach ==
  phase # "idle" => \A a \in Accts \ TokenPool(call) : ledger.amt[a] = entry.amt[a]

WsolWhole ==
  /\ phase \in {"leg", "sweep"} => ledger.wsol + ledger.raw = entry.wsol + entry.raw
  /\ phase \in {"cpi", "back"} => base.wsol + ledger.raw = entry.wsol + entry.raw

KeptInv == RentOutOfReach /\ TokensOutOfReach /\ WsolWhole

LEMMA IdleKept ==
  ASSUME phase' = "idle"
  PROVE  KeptInv'
BY DEF KeptInv, RentOutOfReach, TokensOutOfReach, WsolWhole

LEMMA SubmitKept ==
  ASSUME VaultInv, NEW c \in Calls, Submit(c)
  PROVE  KeptInv'
<1>1. CASE Fail(AdmissionChecks(c, ledger))
  BY <1>1, IdleKept DEF Fail, End
<1>2. CASE ~ Fail(AdmissionChecks(c, ledger))
  <2>1. phase = "idle" /\ phase' = "leg" /\ call' = c /\ ledger' = ledger /\ entry' = entry /\ ledger = entry
    BY <1>2 DEF Submit, VaultInv, IdleAtEntry
  <2> QED BY <2>1 DEF KeptInv, RentOutOfReach, TokensOutOfReach, WsolWhole
<1> QED BY <1>1, <1>2

\* Steps inside a transaction that touch its own accounts only.
LEMMA InsideKept ==
  ASSUME KeptInv, phase # "idle", entry' = entry, call' = call,
         \A x \in Accums \ AccumPool(call) : ledger'.rent[x] = ledger.rent[x],
         \A a \in Accts \ TokenPool(call) : ledger'.amt[a] = ledger.amt[a],
         WsolWhole'
  PROVE  KeptInv'
BY DEF KeptInv, RentOutOfReach, TokensOutOfReach

LEMMA BeginLegKept ==
  ASSUME TypeInv, KeptInv, BeginLeg
  PROVE  KeptInv'
<1>1. CASE Fail(LegChecks(call, ledger, leg))
  BY <1>1, IdleKept DEF Fail, End
<1>2. CASE ~ Fail(LegChecks(call, ledger, leg))
  <2> DEFINE amount == Amount(call, leg)
  <2>1. /\ phase = "leg" /\ phase' = "cpi" /\ UNCHANGED <<entry, call>>
        /\ base'.wsol = WsolBefore(ledger, call.kind[leg])
        /\ ledger' = FundWsol(ledger, call.kind[leg], amount)
    BY <1>2 DEF BeginLeg
  <2>2. ledger \in Ledger /\ ledger.wsol \in Nat /\ ledger.raw \in Nat
    BY DEF TypeInv, TypeOK, Ledger
  <2>3. ledger'.rent = ledger.rent /\ ledger'.amt = ledger.amt
    BY <2>1, <2>2 DEF FundWsol, Ledger
  <2>4. base'.wsol + ledger'.raw = ledger.wsol + ledger.raw
    BY <2>1, <2>2 DEF FundWsol, WsolBefore, Ledger
  <2>5. WsolWhole'
    BY <2>1, <2>4 DEF KeptInv, WsolWhole
  <2> QED BY <2>1, <2>3, <2>5, InsideKept
<1> QED BY <1>1, <1>2

LEMMA VenueSwapKept ==
  ASSUME TypeInv, KeptInv, NEW out \in Outputs, VenueSwap(out)
  PROVE  KeptInv'
<1> DEFINE refunds == OpenIn(AccumSlice(call, leg), ledger)
           rent2 == [x \in Accums |-> IF x \in refunds THEN 0 ELSE ledger.rent[x]]
           amt2 == [ledger.amt EXCEPT ![leg] = ledger.amt[leg] + out]
<1>1. /\ phase = "cpi" /\ phase' = "back" /\ UNCHANGED <<entry, call, base>> /\ leg \in Legs
  BY DEF VenueSwap, TypeInv, TypeOK
<1>2. ledger \in Ledger /\ ledger.amt \in [Accts -> Nat] /\ ledger.rent \in [Accums -> Nat]
  BY DEF TypeInv, TypeOK, Ledger
<1>3. ledger'.amt = amt2 /\ ledger'.raw = ledger.raw
  BY <1>2 DEF VenueSwap, Ledger
<1>4. ledger'.rent \in {ledger.rent, rent2}
  BY <1>2 DEF VenueSwap, Ledger
<1>5. refunds \subseteq AccumPool(call)
  BY <1>1 DEF OpenIn, AccumPool
<1>6. \A x \in Accums \ AccumPool(call) : ledger'.rent[x] = ledger.rent[x]
  <2> HIDE DEF refunds
  <2> QED BY <1>4, <1>5
<1>7. \A a \in Accts \ TokenPool(call) : ledger'.amt[a] = ledger.amt[a]
  BY <1>1, <1>2, <1>3, LegsInPool
<1>8. WsolWhole'
  BY <1>1, <1>3 DEF KeptInv, WsolWhole
<1> QED BY <1>1, <1>6, <1>7, <1>8, InsideKept

LEMMA FinishLegKept ==
  ASSUME TypeInv, KeptInv, FinishLeg
  PROVE  KeptInv'
<1>1. CASE Fail(PostChecks(call, ledger, leg))
  BY <1>1, IdleKept DEF Fail, End
<1>2. CASE ~ Fail(PostChecks(call, ledger, leg))
  <2>1. /\ phase = "back" /\ phase' \in {"leg", "sweep"} /\ UNCHANGED <<entry, call>> /\ leg \in Legs
        /\ AllHold(PostChecks(call, ledger, leg))
        /\ ledger' = [ledger EXCEPT !.amt[leg] = 0]
    BY <1>2 DEF FinishLeg, TypeInv, TypeOK
  <2>2. ledger \in Ledger /\ ledger.amt \in [Accts -> Nat]
    BY DEF TypeInv, TypeOK, Ledger
  <2>3. /\ ledger'.rent = ledger.rent /\ ledger'.amt = [ledger.amt EXCEPT ![leg] = 0]
        /\ ledger'.wsol = ledger.wsol /\ ledger'.raw = ledger.raw
    BY <2>1, <2>2 DEF Ledger
  <2>4. ledger.wsol = base.wsol
    BY <2>1, PostMeans DEF WsolConsumed
  <2>5. WsolWhole'
    BY <2>1, <2>3, <2>4 DEF KeptInv, WsolWhole
  <2>6. \A a \in Accts \ TokenPool(call) : ledger'.amt[a] = ledger.amt[a]
    BY <2>1, <2>2, <2>3, LegsInPool
  <2> QED BY <2>1, <2>3, <2>5, <2>6, InsideKept
<1> QED BY <1>1, <1>2

LEMMA EnvironmentKept ==
  ASSUME TypeInv, KeptInv, Environment
  PROVE  KeptInv'
<1>1. /\ ledger \in Ledger /\ leg \in Legs
      /\ ledger.amt \in [Accts -> Nat] /\ ledger.rent \in [Accums -> Nat]
  BY DEF TypeInv, TypeOK, Ledger
<1>2. ASSUME NEW lg, Touch(lg), lg.raw = ledger.raw,
             \A x \in Accums \ AccumPool(call) : lg.rent[x] = ledger.rent[x],
             \A a \in Accts \ TokenPool(call) : lg.amt[a] = ledger.amt[a]
      PROVE  KeptInv'
  <2>1. phase = "back" /\ UNCHANGED <<entry, call, base, phase>> /\ ledger' = lg
    BY <1>2 DEF Touch
  <2>2. WsolWhole'
    BY <1>2, <2>1 DEF KeptInv, WsolWhole
  <2> QED BY <1>2, <2>1, <2>2, InsideKept
<1>3. ASSUME NEW n, NEW b, TouchVault(n, b) PROVE KeptInv'
  BY <1>1, <1>2, <1>3 DEF TouchVault, Ledger
<1>4. ASSUME NEW n, NEW s, TouchWsol(n, s) PROVE KeptInv'
  BY <1>1, <1>2, <1>4 DEF TouchWsol, Ledger
<1>5. ASSUME NEW a \in Accts, NEW n, NEW s, TouchToken(a, n, s) PROVE KeptInv'
  <2> DEFINE lg == [ledger EXCEPT !.amt[a] = n, !.ctl[a] = s]
  <2>1. a \in TokenPool(call)
    BY <1>1, <1>5, SliceInPool DEF TouchToken
  <2>2. lg.amt = [ledger.amt EXCEPT ![a] = n] /\ lg.rent = ledger.rent /\ lg.raw = ledger.raw
    BY <1>1 DEF Ledger
  <2>3. \A d \in Accts \ TokenPool(call) : lg.amt[d] = ledger.amt[d]
    BY <1>1, <2>1, <2>2
  <2>4. Touch(lg)
    BY <1>5 DEF TouchToken
  <2> HIDE DEF lg
  <2> QED BY <1>2, <2>2, <2>3, <2>4
<1>6. ASSUME NEW x \in Accums, NEW n, TouchAccumulator(x, n) PROVE KeptInv'
  <2> DEFINE lg == [ledger EXCEPT !.rent[x] = n]
  <2>1. x \in AccumPool(call)
    BY <1>1, <1>6 DEF TouchAccumulator, AccumPool
  <2>2. lg.rent = [ledger.rent EXCEPT ![x] = n] /\ lg.amt = ledger.amt /\ lg.raw = ledger.raw
    BY <1>1 DEF Ledger
  <2>3. \A d \in Accums \ AccumPool(call) : lg.rent[d] = ledger.rent[d]
    BY <1>1, <2>1, <2>2
  <2>4. Touch(lg)
    BY <1>6 DEF TouchAccumulator
  <2> HIDE DEF lg
  <2> QED BY <1>2, <2>2, <2>3, <2>4
<1>7. ASSUME NEW m, TouchMarket(m) PROVE KeptInv'
  BY <1>1, <1>2, <1>7 DEF TouchMarket, Ledger
<1>8. ASSUME NEW lg, Receive(lg) PROVE KeptInv'
  BY <1>8, IdleKept DEF Receive
<1> QED BY <1>3, <1>4, <1>5, <1>6, <1>7, <1>8 DEF Environment, Trade, Donate, DonateRaw, DonateToken, OpenAccum

LEMMA NextKept == TypeInv /\ VaultInv /\ KeptInv /\ [Next]_vars => KeptInv'
<1>1. ASSUME KeptInv, UNCHANGED vars PROVE KeptInv'
  BY <1>1 DEF vars, KeptInv, RentOutOfReach, TokensOutOfReach, WsolWhole
<1>2. ASSUME Sweep PROVE KeptInv'
  BY <1>2, IdleKept DEF Sweep, Fail, End
<1> QED BY <1>1, <1>2, SubmitKept, BeginLegKept, VenueSwapKept, FinishLegKept, EnvironmentKept DEF Next

LEMMA KeptInvariant == Spec => []KeptInv
<1>1. Init => KeptInv
  BY DEF Init, KeptInv, RentOutOfReach, TokensOutOfReach, WsolWhole
<1> QED BY <1>1, VaultInvariant, NextKept, PTL DEF Spec

\* A committed burn takes the caller's total and returns the rent of each
\* accumulator its routes closed exactly once, in however many slices the
\* caller listed it: what the sweep compares is what really closed.
THEOREM BurnSpendsExactly == Spec => ExactSpend
<1> DEFINE closed == {x \in Accums : entry.rent[x] > 0 /\ ledger'.rent[x] = 0}
           refunded == CreditsOf("jupiter", call, entry)
<1>1. ASSUME TypeInv, KeptInv, Next, Commits
      PROVE  ledger'.sol = entry.sol - call.total + SumOver(closed, entry.rent)
  <2>1. phase # "idle" /\ call \in CallType /\ ledger' = ledger
    BY <1>1, CommitMeans, BoundsAssumption DEF Commits, TypeInv, CallRunning
  <2>2. /\ CreditsClosed(refunded, ledger)
        /\ CreditsUntouched(CreditsOf("curve", call, entry), ledger, entry)
        /\ ledger.sol = SolEnd(call, entry)
    BY <1>1, CommitMeans, SweepMeans DEF FinalCreditsOk
  <2>3. AccumPool(call) \subseteq Accums
    BY <2>1 DEF AccumPool, AccumSlice, CallType, Accums
  <2>4. refunded \subseteq closed
    BY <2>1, <2>2, <2>3 DEF CreditsOf, OpenIn, CreditsClosed
  <2>5. ASSUME NEW x \in closed PROVE x \in refunded
    <3>1. x \in Accums /\ entry.rent[x] > 0 /\ ledger.rent[x] = 0 /\ entry.rent[x] \in Nat
      BY <1>1, <2>1, <2>5 DEF TypeInv, TypeOK, Ledger
    <3>2. x \in AccumPool(call)
      BY <1>1, <2>1, <3>1 DEF KeptInv, RentOutOfReach
    <3>3. PICK i \in Legs : x \in AccumSlice(call, i) /\ \A j \in Legs : j < i => x \notin AccumSlice(call, j)
      <4> DEFINE holding == {i \in Legs : x \in AccumSlice(call, i)}
      <4>1. holding \subseteq 1 .. 4 /\ holding # {}
        BY <3>2, LegsAtMostFour DEF AccumPool
      <4>2. \E i \in holding : \A j \in holding : i <= j
        <5> HIDE DEF holding
        <5>1. holding \subseteq 1 .. 5 /\ holding # {}
          BY <4>1
        <5> QED BY <5>1, LeastOfFive, Zenon
      <4> QED BY <4>1, <4>2
    <3>4. call.kind[i] \in {"jupiter", "curve"}
      BY <2>1 DEF CallType
    <3>5. CASE call.kind[i] = "jupiter"
      BY <3>1, <3>2, <3>3, <3>5 DEF CreditsOf, OpenIn
    <3>6. CASE call.kind[i] = "curve"
      <4>1. x \in CreditsOf("curve", call, entry)
        BY <3>1, <3>2, <3>3, <3>6 DEF CreditsOf, OpenIn
      <4> QED BY <2>2, <3>1, <4>1 DEF CreditsUntouched
    <3> QED BY <3>4, <3>5, <3>6
  <2>6. closed = refunded
    BY <2>4, <2>5
  <2> QED BY <2>1, <2>2, <2>6 DEF SolEnd, KnownCredit
<1>2. TypeInv /\ KeptInv /\ [Next]_vars =>
        [Commits => ledger'.sol = entry.sol - call.total + SumOver(closed, entry.rent)]_vars
  BY <1>1
<1> QED BY <1>2, VaultInvariant, KeptInvariant, PTL DEF Spec, ExactSpend

LEMMA SweptMeans ==
  ASSUME NEW c, NEW lg, NEW a \in TokenPool(c), SweptBad(c, lg) = {}, entry.ctl[a] # "lost"
  PROVE  /\ MintOf(a) = 0 \/ ~ Moved(a, lg) \/ lg.amt[a] = 0
         /\ MintOf(a) # 0 \/ ~ Moved(a, lg)
<1> DEFINE ch == AcctChecks(lg, a)
<1>1. AllHold(ch)
  BY DEF SweptBad
<1>2. ch = << <<lg.ctl[a] # "lost",                               6023>>,
              <<lg.ctl[a] = "ours",                               6035>>,
              <<MintOf(a) = 0 \/ ~ Moved(a, lg) \/ lg.amt[a] = 0, 6023>>,
              <<MintOf(a) # 0 \/ ~ Moved(a, lg),                  6043>> >>
  BY DEF AcctChecks
<1>3. /\ 3 \in DOMAIN ch /\ ch[3][1] = (MintOf(a) = 0 \/ ~ Moved(a, lg) \/ lg.amt[a] = 0)
      /\ 4 \in DOMAIN ch /\ ch[4][1] = (MintOf(a) # 0 \/ ~ Moved(a, lg))
  BY <1>2
<1> QED BY <1>1, <1>3 DEF AllHold

\* A committed burn loses neither a token nor wrapped SOL that the vault held
\* before it, whichever accounts its routes were handed.
THEOREM BurnLosesNothing == Spec => NothingLost
<1> DEFINE drained(i) == {a \in Accts : /\ MintOf(a) = i /\ entry.ctl[a] # "lost"
                                        /\ ledger'.amt[a] < entry.amt[a]}
           moved(i) == {a \in TokenPool(call) : MintOf(a) = i /\ Moved(a, ledger)}
<1>1. ASSUME TypeInv, KeptInv, Next, Commits
      PROVE  /\ drained(0) = {}
             /\ \A i \in Legs : HeldBefore(drained(i)) <= burned[i]
             /\ ledger'.wsol + ledger'.raw >= entry.wsol + entry.raw
  <2>1. phase = "sweep" /\ call \in CallType /\ ledger' = ledger
    BY <1>1, CommitMeans, BoundsAssumption DEF Commits, TypeInv, CallRunning
  <2>2. SweptBad(call, ledger) = {} /\ \A i \in Legs : PreExisting(call, ledger, i) <= burned[i]
    BY <1>1, CommitMeans, SweepMeans
  <2>3. /\ ledger.amt \in [Accts -> Nat] /\ entry.amt \in [Accts -> Nat]
        /\ ledger.wsol \in Nat /\ ledger.raw \in Nat
    BY <1>1 DEF TypeInv, TypeOK, Ledger
  <2>4. TokenPool(call) \subseteq Accts
    BY <2>1 DEF TokenPool, TokenSlice, CallType, Accts
  <2>5. ASSUME NEW i, NEW a \in drained(i)
        PROVE  a \in TokenPool(call) /\ Moved(a, ledger) /\ MintOf(a) # 0
    <3>1. a \in Accts /\ entry.ctl[a] # "lost" /\ ledger.amt[a] < entry.amt[a]
      BY <2>1
    <3>2. a \in TokenPool(call)
      BY <1>1, <2>1, <2>3, <3>1 DEF KeptInv, TokensOutOfReach
    <3>3. Moved(a, ledger)
      BY <2>3, <3>1 DEF Moved
    <3> QED BY <2>2, <3>1, <3>2, <3>3, SweptMeans
  <2>6. ASSUME NEW i \in Legs, NEW a \in moved(i) PROVE a \in drained(i)
    <3>1. a \in TokenPool(call) /\ a \in Accts /\ MintOf(a) = i /\ Moved(a, ledger) /\ i # 0
      BY <2>4, LegsFacts
    <3>2. ledger.amt[a] = 0
      BY <2>2, <3>1, SweptMeans DEF Moved
    <3> QED BY <2>1, <2>3, <3>1, <3>2 DEF Moved
  <2>7. drained(0) = {}
    BY <2>5
  <2>8. ASSUME NEW i \in Legs PROVE HeldBefore(drained(i)) <= burned[i]
    <3>1. drained(i) = moved(i)
      BY <2>5, <2>6
    <3>2. HeldBefore(moved(i)) <= burned[i]
      BY <2>2 DEF PreExisting
    <3> QED BY <3>1, <3>2
  <2>9. ledger.wsol + ledger.raw = entry.wsol + entry.raw
    BY <1>1, <2>1 DEF KeptInv, WsolWhole
  <2> QED BY <2>1, <2>3, <2>7, <2>8, <2>9
<1>2. TypeInv /\ KeptInv /\ [Next]_vars =>
        /\ [Commits => drained(0) = {} /\ \A i \in Legs : HeldBefore(drained(i)) <= burned[i]]_vars
        /\ [Commits => ledger'.wsol + ledger'.raw >= entry.wsol + entry.raw]_vars
  BY <1>1
<1>3. Spec => NoTokenLost
  BY <1>2, VaultInvariant, KeptInvariant, PTL DEF Spec, NoTokenLost
<1>4. Spec => WsolKept
  BY <1>2, VaultInvariant, KeptInvariant, PTL DEF Spec, WsolKept
<1> QED BY <1>3, <1>4 DEF NothingLost

-----------------------------------------------------------------------------
(* A transaction that no route disturbed.  While nothing but the venues' own
   swaps happened, the accounts are those of the entry less what the legs so
   far took: their inputs left the vault, the accumulators of their Jupiter
   routes were refunded to it, and their targets were burned. *)

\* The inputs of the first k legs.
Spent(c, k) == IF k = Len(Weights) THEN c.total ELSE Allocated(c.total, Weights, k + 1)

\* The accumulators that the first k legs close, and what that returns.
ClosedTo(c, k) == {x \in Accums : \E i \in Legs : i <= k /\ c.kind[i] = "jupiter" /\ x \in AccumSlice(c, i)}

Refunded(c, k) == SumOver(ClosedTo(c, k), entry.rent)

\* Rents as k legs leave them, and an account after k burns.
Rents(c, k, rent) == \A x \in Accums : rent[x] = IF x \in ClosedTo(c, k) THEN 0 ELSE entry.rent[x]

Burnt(k, a) == IF a \in Legs /\ a <= k THEN 0 ELSE entry.amt[a]

SolAfter(c, k) == entry.sol - Spent(c, k) + Refunded(c, k)

Finished == IF phase = "sweep" THEN leg ELSE leg - 1

InOurHands ==
  /\ ledger.bare /\ ledger.wctl = entry.wctl /\ ledger.ctl = entry.ctl
  /\ entry.sol >= call.total
  /\ credited = Refunded(call, Finished)
  /\ \A a \in Accts : a # leg => ledger.amt[a] = Burnt(Finished, a)

BetweenLegs ==
  /\ Rents(call, Finished, ledger.rent)
  /\ ledger.sol = SolAfter(call, Finished)
  /\ ledger.amt[leg] = Burnt(Finished, leg)
  /\ phase = "sweep" => leg = Len(Weights)

LegStarted ==
  /\ base.sol = SolAfter(call, leg - 1)
  /\ Rents(call, leg - 1, base.rent)

LegFunded ==
  /\ LegStarted
  /\ ledger.rent = base.rent /\ ledger.amt[leg] = base.amt
  /\ IF call.kind[leg] = "curve"
       THEN ledger.sol = base.sol /\ ledger.wsol = base.wsol
       ELSE ledger.sol = base.sol - Amount(call, leg) /\ ledger.wsol = base.wsol + Amount(call, leg)

LegTraded ==
  /\ LegStarted
  /\ ledger.amt[leg] >= base.amt
  /\ ledger.wsol = base.wsol
  /\ ledger.sol = ExpectedSol(call, leg)
  /\ \A x \in Accums : ledger.rent[x] =
       IF call.kind[leg] = "jupiter" /\ x \in AccumSlice(call, leg) THEN 0 ELSE base.rent[x]

Undisturbed ==
  phase # "idle" /\ touches = 0 =>
    /\ InOurHands
    /\ phase \in {"leg", "sweep"} => BetweenLegs
    /\ phase = "cpi" => LegFunded
    /\ phase = "back" => LegTraded

\* The inputs of the legs, one by one, are the caller's total.
LEMMA SpentGoes ==
  ASSUME NEW c, c.total \in Nat
  PROVE  /\ Spent(c, 0) = 0
         /\ \A k \in Legs : Spent(c, k) = Spent(c, k - 1) + Amount(c, k)
         /\ \A k \in Legs : Spent(c, k) \in Nat /\ Spent(c, k) <= c.total
<1> DEFINE n == Len(Weights)
<1>1. WeightVector(Weights)
  BY WeightsAssumption DEF WeightVector
<1>2. n \in {1, 2, 3, 4} /\ Legs = 1 .. n /\ \A j \in 1 .. n : Weights[j] \in Nat
  BY <1>1, WeightCases DEF Legs
<1>3. \A j \in 1 .. n : Share(c.total, Weights[j]) \in Nat
  BY <1>2, ShareBounds
<1>4. \A j \in 1 .. n : Amount(c, j) \in Nat
  BY <1>2, AmountNat
<1>5. CASE n = 1
  BY <1>2, <1>3, <1>4, <1>5 DEF Spent, Amount, LegAmount, Allocated
<1>6. CASE n = 2
  BY <1>2, <1>3, <1>4, <1>6 DEF Spent, Amount, LegAmount, Allocated
<1>7. CASE n = 3
  BY <1>2, <1>3, <1>4, <1>7 DEF Spent, Amount, LegAmount, Allocated
<1>8. CASE n = 4
  BY <1>2, <1>3, <1>4, <1>8 DEF Spent, Amount, LegAmount, Allocated
<1> QED BY <1>2, <1>5, <1>6, <1>7, <1>8

\* A leg closes the accumulators of its slice if it goes through Jupiter.
LEMMA ClosedGoes ==
  ASSUME NEW c, NEW k \in Legs
  PROVE  /\ ClosedTo(c, 0) = {}
         /\ \A x \in Accums : x \in ClosedTo(c, k) <=>
              \/ x \in ClosedTo(c, k - 1)
              \/ c.kind[k] = "jupiter" /\ x \in AccumSlice(c, k)
<1>1. Legs \subseteq Nat /\ \A i \in Legs : ~ (i <= 0) /\ (i <= k <=> i <= k - 1 \/ i = k)
  BY LegsFacts
<1> QED BY <1>1 DEF ClosedTo

\* What the leg returns is what its accumulators held before the transaction.
LEMMA RefundGoes ==
  ASSUME TypeInv, NEW k \in Legs, call \in Calls, Rents(call, k - 1, base.rent)
  PROVE  /\ LegCredit(call, k) \in Nat
         /\ Refunded(call, k) = Refunded(call, k - 1) + LegCredit(call, k)
         /\ Refunded(call, k - 1) \in Nat
<1>1. /\ entry.rent \in [Accums -> Nat] /\ base.rent \in [Accums -> Nat]
  BY DEF TypeInv, TypeOK, Ledger
<1>2. \A x \in Accums : base.rent[x] = IF x \in ClosedTo(call, k - 1) THEN 0 ELSE entry.rent[x]
  BY DEF Rents
<1>3. \A x \in Accums : x \in ClosedTo(call, k) <=>
              \/ x \in ClosedTo(call, k - 1)
              \/ call.kind[k] = "jupiter" /\ x \in AccumSlice(call, k)
  BY ClosedGoes
<1>4. call.kind[k] \in {"jupiter", "curve"}
  BY CallFacts DEF CallType
<1>5. "pump" \in Accums /\ "swap" \in Accums
  BY DEF Accums
<1>6. /\ LegCredit(call, k) \in Nat /\ Refunded(call, k - 1) \in Nat
  BY <1>1, SumNat DEF LegCredit, Refunded
<1>7. CASE call.kind[k] = "curve"
  BY <1>3, <1>5, <1>6, <1>7 DEF Refunded, LegCredit, SumOver
<1>8. CASE call.kind[k] = "jupiter"
  <2> DEFINE S == OpenIn(AccumSlice(call, k), base)
  <2>1. \A x \in Accums : x \in S <=> x \in AccumSlice(call, k) /\ base.rent[x] > 0
    BY DEF OpenIn
  <2>2. LegCredit(call, k) = SumOver(S, base.rent)
    BY <1>8 DEF LegCredit
  <2> HIDE DEF S
  <2>3. ASSUME NEW x \in Accums
        PROVE  (IF x \in ClosedTo(call, k) THEN entry.rent[x] ELSE 0) =
                 (IF x \in ClosedTo(call, k - 1) THEN entry.rent[x] ELSE 0) + (IF x \in S THEN base.rent[x] ELSE 0)
    BY <1>1, <1>2, <1>3, <1>8, <2>1
  <2>4. \A x \in Accums : entry.rent[x] \in Nat /\ base.rent[x] \in Nat
    BY <1>1
  <2> QED BY <1>5, <1>6, <2>2, <2>3, <2>4 DEF Refunded, SumOver
<1> QED BY <1>4, <1>6, <1>7, <1>8

LEMMA AdmittedHas ==
  ASSUME NEW c, NEW lg, AllHold(AdmissionChecks(c, lg))
  PROVE  lg.sol >= c.total
<1> DEFINE ch == AdmissionChecks(c, lg)
<1>1. 8 \in DOMAIN ch /\ ch[8][1] = (lg.sol >= c.total)
  BY DEF AdmissionChecks
<1> QED BY <1>1 DEF AllHold

LEMMA IdleUndisturbed ==
  ASSUME phase' = "idle"
  PROVE  Undisturbed'
BY DEF Undisturbed

LEMMA SubmitUndisturbed ==
  ASSUME TypeInv, VaultInv, FirstLegNext, NEW c \in Calls, Submit(c)
  PROVE  Undisturbed'
<1>1. CASE Fail(AdmissionChecks(c, ledger))
  BY <1>1, IdleUndisturbed DEF Fail, End
<1>2. CASE ~ Fail(AdmissionChecks(c, ledger))
  <2>1. /\ phase = "idle" /\ phase' = "leg" /\ call' = c /\ ledger' = ledger /\ entry' = entry /\ ledger = entry
        /\ leg = 1 /\ leg' = 1 /\ credited' = credited /\ AllHold(AdmissionChecks(c, ledger))
    BY <1>2 DEF Submit, VaultInv, IdleAtEntry, FirstLegNext
  <2>2. c.total \in Nat /\ entry.sol >= c.total
    BY <2>1, AdmittedHas, CallFacts
  <2>3. /\ 1 \in Legs /\ Legs \subseteq Nat /\ Legs \subseteq Accts
        /\ \A i \in Legs : ~ (i <= 0)
    BY LegsFacts DEF Accts
  <2>4. Finished' = 0 /\ ClosedTo(c, 0) = {} /\ Spent(c, 0) = 0
    BY <2>1, <2>2, <2>3, ClosedGoes, SpentGoes DEF Finished
  <2>5. SumOver({}, entry.rent) = 0
    BY DEF SumOver
  <2>6. entry.sol \in Nat /\ credited = 0
    BY <2>1 DEF TypeInv, TypeOK, Ledger, FirstLegNext
  <2>7. InOurHands'
    BY <2>1, <2>2, <2>3, <2>4, <2>5, <2>6 DEF InOurHands, Refunded, Burnt, ClosedTo, VaultInv, EntryIntact
  <2>8. Rents(call, Finished, ledger.rent)'
    <3>1. ClosedTo(call', Finished') = {}
      BY <2>1, <2>4
    <3>2. \A x \in Accums : ledger'.rent[x] = entry'.rent[x]
      BY <2>1
    <3> QED BY <3>1, <3>2 DEF Rents
  <2>9. SolAfter(call, Finished)' = entry.sol
    <3>1. Spent(call', Finished') = 0 /\ ClosedTo(call', Finished') = {} /\ entry' = entry
      BY <2>1, <2>4
    <3> QED BY <2>5, <2>6, <3>1 DEF SolAfter, Refunded
  <2>10. Burnt(Finished, leg)' = entry.amt[leg]
    BY <2>1, <2>3, <2>4 DEF Burnt
  <2>11. BetweenLegs'
    BY <2>1, <2>8, <2>9, <2>10 DEF BetweenLegs
  <2> QED BY <2>1, <2>7, <2>11 DEF Undisturbed
<1> QED BY <1>1, <1>2

\* An undisturbed leg is funded.
LEMMA LegChecksHold ==
  ASSUME TypeInv, VaultInv, Undisturbed, phase = "leg", touches = 0, leg \notin call.badLegs
  PROVE  AllHold(LegChecks(call, ledger, leg))
<1> DEFINE ch == LegChecks(call, ledger, leg)
<1>1. InOurHands /\ BetweenLegs /\ Finished = leg - 1
  BY DEF Undisturbed, Finished
<1>2. /\ leg \in Legs /\ Legs \subseteq Nat /\ call \in Calls /\ call.total \in Nat
      /\ call.kind[leg] \in {"jupiter", "curve"}
  BY CallFacts, LegsFacts DEF TypeInv, TypeOK, CallRunning, CallType
<1>3. entry.ctl[leg] = "ours" /\ ledger.ctl[leg] = "ours" /\ ledger.bare
  BY <1>1, <1>2 DEF VaultInv, EntryIntact, InOurHands
<1>4. ledger.amt[leg] = entry.amt[leg]
  BY <1>1, <1>2 DEF BetweenLegs, Burnt
<1>5. ledger.sol >= Amount(call, leg)
  <2>1. /\ Spent(call, leg) = Spent(call, leg - 1) + Amount(call, leg) /\ Spent(call, leg) <= call.total
        /\ Spent(call, leg) \in Nat /\ Amount(call, leg) \in Nat
    BY <1>2, SpentGoes, CallFacts
  <2>2. Spent(call, leg - 1) \in Int
    BY <1>2, SpentGoes, LegsFacts
  <2>3. Refunded(call, leg - 1) \in Nat /\ entry.sol \in Nat
    BY SumNat DEF Refunded, TypeInv, TypeOK, Ledger
  <2>4. ledger.sol = entry.sol - Spent(call, leg - 1) + Refunded(call, leg - 1) /\ entry.sol >= call.total
    BY <1>1 DEF BetweenLegs, SolAfter, InOurHands
  <2> QED BY <1>2, <2>1, <2>2, <2>3, <2>4
<1>6. TargetPreCallBalanceOk(ledger, leg) /\ BareSystemAccount(ledger)
  BY <1>3, <1>4 DEF TargetPreCallBalanceOk, BareSystemAccount
<1>7. DOMAIN ch = 1 .. 5 /\ ch[1][1] = (ledger.ctl[leg] = "ours")
  BY DEF LegChecks
<1>8. ch[2][1] = (call.kind[leg] = "curve" \/ leg \notin call.badLegs)
  BY DEF LegChecks
<1>9. ch[3][1] = TargetPreCallBalanceOk(ledger, leg)
  BY DEF LegChecks
<1>10. ch[4][1] = (call.kind[leg] = "jupiter" \/ (leg \notin call.badLegs /\ BareSystemAccount(ledger)))
  BY DEF LegChecks
<1>11. ch[5][1] = (BareSystemAccount(ledger) /\ ledger.sol >= Amount(call, leg))
  BY DEF LegChecks
<1>12. ch[1][1] /\ ch[2][1] /\ ch[3][1] /\ ch[4][1] /\ ch[5][1]
  <2> HIDE DEF ch
  <2> QED BY <1>3, <1>5, <1>6, <1>7, <1>8, <1>9, <1>10, <1>11
<1> HIDE DEF ch
<1> QED BY <1>7, <1>12 DEF AllHold, ch

\* What an undisturbed leg may lack is its minimum.
LEMMA PostChecksLack ==
  ASSUME TypeInv, VaultInv, Undisturbed, phase = "back", touches = 0, ~ AllHold(PostChecks(call, ledger, leg))
  PROVE  FirstError(PostChecks(call, ledger, leg)) = 6021
<1> DEFINE ch == PostChecks(call, ledger, leg)
           failing == {k \in DOMAIN ch : ~ ch[k][1]}
<1>1. InOurHands /\ LegTraded
  BY DEF Undisturbed
<1>2. /\ leg \in Legs /\ call \in Calls /\ call.kind[leg] \in {"jupiter", "curve"}
  BY CallFacts DEF TypeInv, TypeOK, CallRunning, CallType
<1>3. ledger.ctl[leg] = "ours"
  BY <1>1, <1>2 DEF VaultInv, EntryIntact, InOurHands
<1>4. LegCreditsOk(call, ledger, leg)
  <2>1. AccumSlice(call, leg) \subseteq Accums
    BY <1>2, CallFacts DEF AccumSlice, CallType, Accums
  <2>2. \A x \in Accums : ledger.rent[x] =
          IF call.kind[leg] = "jupiter" /\ x \in AccumSlice(call, leg) THEN 0 ELSE base.rent[x]
    BY <1>1 DEF LegTraded
  <2> QED BY <1>2, <2>1, <2>2 DEF LegCreditsOk, OpenIn, CreditsClosed, CreditsUntouched
<1>5. /\ WsolConsumed(ledger) /\ ledger.sol = ExpectedSol(call, leg) /\ ledger.amt[leg] >= base.amt
  BY <1>1 DEF LegTraded, WsolConsumed
<1>6. /\ DOMAIN ch = 1 .. 7
      /\ ch[1][1] /\ ch[2][1] /\ ch[3][1] /\ ch[4][1] /\ ch[6][1] /\ ch[7][1] /\ ch[5][2] = 6021
  <2>1. DOMAIN ch = 1 .. 7 /\ ch[5][2] = 6021
    BY DEF PostChecks
  <2>2. ch[1][1] = LegCreditsOk(call, ledger, leg)
    BY DEF PostChecks
  <2>3. ch[2][1] = WsolConsumed(ledger)
    BY DEF PostChecks
  <2>4. ch[3][1] = (ledger.sol = ExpectedSol(call, leg)) /\ ch[4][1] = (ledger.amt[leg] >= base.amt)
    BY DEF PostChecks
  <2>5. ch[6][1] = (ledger.ctl[leg] # "lost") /\ ch[7][1] = (ledger.ctl[leg] = "ours")
    BY DEF PostChecks
  <2>6. ledger.ctl[leg] # "lost"
    BY <1>3
  <2> HIDE DEF ch
  <2>7. ch[1][1] /\ ch[2][1]
    BY <1>4, <1>5, <2>2, <2>3, Zenon
  <2>8. ch[3][1] /\ ch[4][1]
    BY <1>5, <2>4
  <2>9. ch[6][1] /\ ch[7][1]
    BY <1>3, <2>5, <2>6
  <2> QED BY <2>1, <2>7, <2>8, <2>9
<1> HIDE DEF ch
<1>7. failing = {5}
  <2>1. failing # {}
    BY DEF ch, AllHold
  <2>2. failing \subseteq {5}
    BY <1>6
  <2> QED BY <2>1, <2>2
<1>8. Min(failing) = 5
  BY <1>7 DEF Min
<1> QED BY <1>6, <1>8 DEF FirstError, ch

\* Legs already swapped for are not disturbed by the next one's funding.
LEMMA BeginLegUndisturbed ==
  ASSUME TypeInv, Undisturbed, BeginLeg
  PROVE  Undisturbed'
<1>1. CASE Fail(LegChecks(call, ledger, leg))
  BY <1>1, IdleUndisturbed DEF Fail, End
<1>2. CASE ~ Fail(LegChecks(call, ledger, leg))
  <2> SUFFICES ASSUME touches' = 0 PROVE Undisturbed'
    BY DEF Undisturbed
  <2> DEFINE amount == Amount(call, leg)
  <2>1. /\ phase = "leg" /\ phase' = "cpi" /\ UNCHANGED <<entry, call, leg, credited, touches>>
        /\ base' = [sol |-> ledger.sol, wsol |-> WsolBefore(ledger, call.kind[leg]),
                    amt |-> ledger.amt[leg], rent |-> ledger.rent]
        /\ ledger' = FundWsol(ledger, call.kind[leg], amount)
    BY <1>2 DEF BeginLeg
  <2>2. InOurHands /\ BetweenLegs /\ Finished = leg - 1 /\ Finished' = leg - 1
    BY <2>1 DEF Undisturbed, Finished
  <2>3. ledger \in Ledger /\ ledger.sol \in Nat /\ ledger.wsol \in Nat /\ ledger.raw \in Nat
    BY DEF TypeInv, TypeOK, Ledger
  <2>4. /\ ledger'.bare = ledger.bare /\ ledger'.wctl = ledger.wctl /\ ledger'.ctl = ledger.ctl
        /\ ledger'.amt = ledger.amt /\ ledger'.rent = ledger.rent
        /\ IF call.kind[leg] = "curve"
             THEN ledger'.sol = ledger.sol /\ ledger'.wsol = ledger.wsol
             ELSE ledger'.sol = ledger.sol - amount /\ ledger'.wsol = ledger.wsol + ledger.raw + amount
    BY <2>1, <2>3 DEF FundWsol, Ledger
  <2>5. InOurHands'
    BY <2>1, <2>2, <2>4 DEF InOurHands, Refunded, Burnt, ClosedTo
  <2>6. /\ base'.sol = ledger.sol /\ base'.rent = ledger.rent /\ base'.amt = ledger.amt[leg]
        /\ base'.wsol = IF call.kind[leg] = "curve" THEN ledger.wsol ELSE ledger.wsol + ledger.raw
    BY <2>1 DEF WsolBefore
  <2>7. LegStarted'
    BY <2>1, <2>2, <2>6 DEF LegStarted, BetweenLegs, Rents, SolAfter, Spent, Refunded, ClosedTo
  <2>8. Amount(call', leg') = amount
    BY <2>1
  <2>9. LegFunded'
    <3> HIDE DEF amount
    <3> QED BY <2>1, <2>4, <2>6, <2>7, <2>8 DEF LegFunded
  <2> QED BY <2>1, <2>5, <2>9 DEF Undisturbed
<1> QED BY <1>1, <1>2

LEMMA VenueSwapUndisturbed ==
  ASSUME TypeInv, Undisturbed, NEW out \in Outputs, VenueSwap(out)
  PROVE  Undisturbed'
<1> SUFFICES ASSUME touches' = 0 PROVE Undisturbed'
  BY DEF Undisturbed
<1> DEFINE amount == Amount(call, leg)
           refunds == OpenIn(AccumSlice(call, leg), ledger)
           rent2 == [x \in Accums |-> IF x \in refunds THEN 0 ELSE ledger.rent[x]]
           amt2 == [ledger.amt EXCEPT ![leg] = ledger.amt[leg] + out]
<1>1. /\ phase = "cpi" /\ phase' = "back" /\ UNCHANGED <<entry, call, leg, base, credited, touches>>
      /\ leg \in Legs /\ call \in Calls /\ out \in Nat
  BY BoundsAssumption DEF VenueSwap, TypeInv, TypeOK, CallRunning
<1>2. InOurHands /\ LegFunded /\ Finished = leg - 1 /\ Finished' = leg - 1
  BY <1>1 DEF Undisturbed, Finished
<1>3. /\ ledger \in Ledger /\ ledger.amt \in [Accts -> Nat] /\ ledger.rent \in [Accums -> Nat]
      /\ ledger.sol \in Nat /\ ledger.wsol \in Nat /\ leg \in Accts
      /\ base.sol \in Nat /\ base.wsol \in Nat /\ base.amt \in Nat
  BY <1>1 DEF TypeInv, TypeOK, Ledger, Accts
<1>4. amount \in Nat /\ call.kind[leg] \in {"jupiter", "curve"}
  BY <1>1, CallFacts DEF CallType
<1>5. /\ ledger'.bare = ledger.bare /\ ledger'.wctl = ledger.wctl /\ ledger'.ctl = ledger.ctl /\ ledger'.amt = amt2
  BY <1>3 DEF VenueSwap, Ledger
<1>6. /\ ledger'.amt[leg] = ledger.amt[leg] + out
      /\ \A a \in Accts : a # leg => ledger'.amt[a] = ledger.amt[a]
  BY <1>3, <1>5
<1>7. InOurHands'
  <2> HIDE DEF amt2
  <2> QED BY <1>1, <1>2, <1>5, <1>6 DEF InOurHands, Refunded, Burnt, ClosedTo
<1>8. LegStarted'
  BY <1>1, <1>2 DEF LegFunded, LegStarted, Rents, SolAfter, Spent, Refunded, ClosedTo
<1>9. ledger.rent = base.rent /\ ledger.amt[leg] = base.amt
  BY <1>2 DEF LegFunded
<1>10. ledger'.amt[leg] >= base.amt
  <2> HIDE DEF amt2
  <2> QED BY <1>1, <1>3, <1>6, <1>9
<1>11. ExpectedSol(call, leg)' = base.sol - amount + LegCredit(call, leg)
  BY <1>1 DEF ExpectedSol, LegCredit
<1>12. /\ ledger'.wsol = base.wsol /\ ledger'.sol = base.sol - amount + LegCredit(call, leg)
       /\ \A x \in Accums : ledger'.rent[x] =
            IF call.kind[leg] = "jupiter" /\ x \in AccumSlice(call, leg) THEN 0 ELSE base.rent[x]
  <2>1. CASE call.kind[leg] = "curve"
    <3>1. ledger' = [ledger EXCEPT !.sol = ledger.sol - amount, !.amt = amt2]
      BY <1>3, <2>1 DEF VenueSwap, Ledger
    <3>2. ledger'.sol = ledger.sol - amount /\ ledger'.wsol = ledger.wsol /\ ledger'.rent = ledger.rent
      BY <1>3, <3>1 DEF Ledger
    <3>3. ledger.sol = base.sol /\ ledger.wsol = base.wsol
      BY <1>2, <2>1 DEF LegFunded
    <3>4. LegCredit(call, leg) = 0
      BY <2>1 DEF LegCredit
    <3> HIDE DEF amount, amt2
    <3> QED BY <1>3, <1>4, <1>9, <2>1, <3>2, <3>3, <3>4
  <2>2. CASE call.kind[leg] = "jupiter"
    <3> DEFINE credit == LegCredit(call, leg)
    <3>1. credit = SumOver(refunds, ledger.rent) /\ credit \in Nat
      BY <1>3, <1>9, <2>2, SumNat DEF LegCredit, OpenIn
    <3>2. ledger' = [ledger EXCEPT !.wsol = ledger.wsol - amount, !.amt = amt2, !.sol = ledger.sol + credit, !.rent = rent2]
      BY <1>3, <2>2, <3>1 DEF VenueSwap, Ledger
    <3>3. ledger'.sol = ledger.sol + credit /\ ledger'.wsol = ledger.wsol - amount /\ ledger'.rent = rent2
      <4> HIDE DEF amount, amt2, credit, rent2
      <4> QED BY <1>3, <3>2 DEF Ledger
    <3>4. ledger.sol = base.sol - amount /\ ledger.wsol = base.wsol + amount
      BY <1>2, <2>2 DEF LegFunded
    <3>5. ASSUME NEW x \in Accums
          PROVE  rent2[x] = IF x \in AccumSlice(call, leg) THEN 0 ELSE ledger.rent[x]
      BY <1>3 DEF OpenIn
    <3> HIDE DEF amount, amt2, credit, rent2
    <3>6. ledger'.wsol = base.wsol /\ ledger'.sol = base.sol - amount + credit
      BY <1>3, <1>4, <3>1, <3>3, <3>4
    <3> QED BY <1>9, <2>2, <3>3, <3>5, <3>6 DEF credit
  <2> QED BY <1>4, <2>1, <2>2
<1>13. LegTraded'
  <2> HIDE DEF amount, amt2
  <2>1. AccumSlice(call', leg') = AccumSlice(call, leg)
    BY <1>1
  <2> QED BY <1>1, <1>8, <1>10, <1>11, <1>12, <2>1 DEF LegTraded
<1> QED BY <1>1, <1>7, <1>13 DEF Undisturbed

LEMMA FinishLegUndisturbed ==
  ASSUME TypeInv, Undisturbed, FinishLeg
  PROVE  Undisturbed'
<1>1. CASE Fail(PostChecks(call, ledger, leg))
  BY <1>1, IdleUndisturbed DEF Fail, End
<1>2. CASE ~ Fail(PostChecks(call, ledger, leg))
  <2> SUFFICES ASSUME touches' = 0 PROVE Undisturbed'
    BY DEF Undisturbed
  <2> DEFINE credit == LegCredit(call, leg)
  <2>1. /\ phase = "back" /\ UNCHANGED <<entry, call, base, touches>>
        /\ ledger' = [ledger EXCEPT !.amt[leg] = 0]
        /\ credited' = credited + credit
        /\ \/ phase' = "sweep" /\ leg = Len(Weights) /\ leg' = leg
           \/ phase' = "leg" /\ leg' = leg + 1
    BY <1>2 DEF FinishLeg, LastLeg
  <2>2. /\ leg \in Legs /\ leg \in Nat /\ call \in Calls /\ call.total \in Nat /\ Legs \subseteq Nat
        /\ call.kind[leg] \in {"jupiter", "curve"} /\ Amount(call, leg) \in Nat
    BY <2>1, CallFacts, LegsFacts DEF TypeInv, TypeOK, CallRunning, CallType
  <2>3. InOurHands /\ LegTraded /\ Finished = leg - 1 /\ Finished' = leg
    BY <2>1, <2>2 DEF Undisturbed, Finished
  <2>4. /\ ledger \in Ledger /\ ledger.amt \in [Accts -> Nat] /\ leg \in Accts /\ entry.sol \in Nat
    BY <2>2 DEF TypeInv, TypeOK, Ledger, Accts
  <2>5. /\ ledger'.bare = ledger.bare /\ ledger'.wctl = ledger.wctl /\ ledger'.ctl = ledger.ctl
        /\ ledger'.rent = ledger.rent /\ ledger'.sol = ledger.sol
        /\ ledger'.amt = [ledger.amt EXCEPT ![leg] = 0]
    BY <2>1, <2>4 DEF Ledger
  <2>6. /\ credit \in Nat
        /\ Refunded(call, leg) = Refunded(call, leg - 1) + credit
        /\ Refunded(call, leg - 1) \in Nat
    BY <2>2, <2>3, RefundGoes DEF LegTraded, LegStarted
  <2>7. Spent(call, leg) = Spent(call, leg - 1) + Amount(call, leg) /\ Spent(call, leg) \in Nat
    BY <2>2, SpentGoes
  <2>8. Spent(call, leg - 1) \in Int
    <3>1. CASE leg = 1
      BY <2>2, <3>1, SpentGoes
    <3>2. CASE leg # 1
      <4>1. leg - 1 \in Legs
        BY <2>2, <3>2, LegsFacts
      <4> QED BY <2>2, <4>1, SpentGoes
    <3> QED BY <3>1, <3>2
  <2>9. \A a \in Accts : ledger'.amt[a] = Burnt(leg, a)
    <3>1. ledger'.amt[leg] = 0 /\ Burnt(leg, leg) = 0
      BY <2>2, <2>4, <2>5 DEF Burnt
    <3>2. ASSUME NEW a \in Accts, a # leg PROVE ledger'.amt[a] = Burnt(leg, a)
      <4>1. ledger'.amt[a] = ledger.amt[a] /\ ledger.amt[a] = Burnt(leg - 1, a)
        BY <2>3, <2>4, <2>5, <3>2 DEF InOurHands
      <4>2. a \in Legs => (a <= leg <=> a <= leg - 1)
        BY <2>2, <3>2
      <4> QED BY <4>1, <4>2 DEF Burnt
    <3> QED BY <3>1, <3>2
  <2>10. Burnt(Finished, leg)' = Burnt(leg, leg') /\ \A a : Burnt(Finished, a)' = Burnt(leg, a)
    BY <2>1, <2>3 DEF Burnt
  <2>11. leg' \in Legs /\ leg' \in Accts
    <3>1. leg' \in Legs
      BY <1>2, FinishLegTypes DEF TypeInv, TypeOK
    <3> QED BY <3>1 DEF Accts
  <2>12. Refunded(call, Finished)' = Refunded(call, leg)
    BY <2>1, <2>3 DEF Refunded, ClosedTo
  <2>13. InOurHands'
    <3>1. credited = Refunded(call, leg - 1)
      BY <2>3 DEF InOurHands
    <3>2. credited' = Refunded(call, leg)
      <4> HIDE DEF credit
      <4> QED BY <2>1, <2>6, <3>1
    <3> QED BY <2>1, <2>3, <2>5, <2>9, <2>10, <2>12, <3>2 DEF InOurHands
  <2>14. Rents(call, leg, ledger.rent)
    <3>1. \A x \in Accums : ledger.rent[x] =
            IF call.kind[leg] = "jupiter" /\ x \in AccumSlice(call, leg) THEN 0 ELSE base.rent[x]
      BY <2>3 DEF LegTraded
    <3>2. \A x \in Accums : base.rent[x] = IF x \in ClosedTo(call, leg - 1) THEN 0 ELSE entry.rent[x]
      BY <2>3 DEF LegTraded, LegStarted, Rents
    <3>3. \A x \in Accums : x \in ClosedTo(call, leg) <=>
              \/ x \in ClosedTo(call, leg - 1)
              \/ call.kind[leg] = "jupiter" /\ x \in AccumSlice(call, leg)
      BY <2>2, ClosedGoes
    <3> QED BY <3>1, <3>2, <3>3 DEF Rents
  <2>15. Rents(call, Finished, ledger.rent)'
    BY <2>1, <2>3, <2>5, <2>14 DEF Rents, ClosedTo
  <2>16. ledger.sol = SolAfter(call, leg)
    <3>1. /\ ledger.sol = base.sol - Amount(call, leg) + credit
          /\ base.sol = entry.sol - Spent(call, leg - 1) + Refunded(call, leg - 1)
      BY <2>3 DEF LegTraded, LegStarted, ExpectedSol, SolAfter
    <3> HIDE DEF credit
    <3> QED BY <2>2, <2>4, <2>6, <2>7, <2>8, <3>1 DEF SolAfter
  <2>17. SolAfter(call, Finished)' = SolAfter(call, leg)
    BY <2>1, <2>3, <2>12 DEF SolAfter
  <2>18. BetweenLegs'
    <3>1. ledger'.amt[leg'] = Burnt(Finished, leg)'
      BY <2>9, <2>10, <2>11
    <3> QED BY <2>1, <2>2, <2>5, <2>15, <2>16, <2>17, <3>1 DEF BetweenLegs
  <2> QED BY <2>1, <2>13, <2>18 DEF Undisturbed
<1> QED BY <1>1, <1>2

\* What a set of at most one account held.
LEMMA HeldByOne ==
  ASSUME NEW S, NEW a, S \subseteq {a}, entry.amt[a] \in Nat
  PROVE  HeldBefore(S) \in Nat /\ HeldBefore(S) <= entry.amt[a]
<1> DEFINE one(s) == CHOOSE x \in s : TRUE
           Sums(f) == f = [s \in SUBSET S |-> IF s = {} THEN 0 ELSE entry.amt[one(s)] + f[s \ {one(s)}]]
           g == CHOOSE f : Sums(f)
           h == [s \in SUBSET S |-> IF s = {} THEN 0 ELSE entry.amt[a]]
<1>1. HeldBefore(S) = g[S]
  BY Zenon DEF HeldBefore, MapThenSumSet, MapThenFoldSet
<1>2. \A s \in SUBSET S : s # {} => one(s) = a /\ s \ {one(s)} = {} /\ {} \in SUBSET S
  <2> SUFFICES ASSUME NEW s \in SUBSET S, s # {} PROVE one(s) = a /\ s \ {one(s)} = {}
    OBVIOUS
  <2>1. one(s) \in s
    OBVIOUS
  <2>2. s = {a}
    OBVIOUS
  <2> QED BY <2>1, <2>2
<1>3. Sums(h)
  <2>1. ASSUME NEW s \in SUBSET S
        PROVE  h[s] = IF s = {} THEN 0 ELSE entry.amt[one(s)] + h[s \ {one(s)}]
    <3>1. CASE s = {}
      BY <3>1
    <3>2. CASE s # {}
      <4>1. one(s) = a /\ s \ {one(s)} = {} /\ {} \in SUBSET S
        BY <1>2, <3>2
      <4>2. h[s] = entry.amt[a] /\ h[{}] = 0
        BY <3>2, <4>1
      <4> HIDE DEF h, one
      <4> QED BY <3>2, <4>1, <4>2
    <3> QED BY <3>1, <3>2
  <2>2. h = [s \in SUBSET S |-> h[s]]
    BY Zenon
  <2> HIDE DEF h, one
  <2> QED BY <2>1, <2>2, Zenon
<1>4. Sums(g)
  <2> HIDE DEF Sums, h
  <2> QED BY <1>3, Zenon
<1>5. g[S] = IF S = {} THEN 0 ELSE entry.amt[one(S)] + g[S \ {one(S)}]
  <2>1. S \in SUBSET S
    OBVIOUS
  <2> HIDE DEF g, one
  <2> QED BY <1>4, <2>1, Zenon
<1>6. CASE S = {}
  <2> HIDE DEF g, one
  <2> QED BY <1>1, <1>5, <1>6
<1>7. CASE S # {}
  <2>1. S \in SUBSET S
    OBVIOUS
  <2>2. one(S) = a /\ S \ {one(S)} = {} /\ {} \in SUBSET S
    BY <1>2, <1>7, <2>1
  <2> HIDE DEF one, g
  <2>3. g[{}] = 0
    BY <1>4, <2>2, Zenon
  <2> QED BY <1>1, <1>5, <1>7, <2>2, <2>3
<1> QED BY <1>6, <1>7

\* Every leg returned what is committed to, unless two legs disagree on an
\* accumulator.
LEMMA AllReturned ==
  ASSUME TypeInv, Undisturbed, phase = "sweep", touches = 0, ~ Contested
  PROVE  FinalCreditsOk(call, ledger)
<1> DEFINE n == Len(Weights)
           closed == CreditsOf("jupiter", call, entry)
           kept == CreditsOf("curve", call, entry)
<1>1. /\ Finished = n /\ n \in Legs /\ Legs = 1 .. n /\ call \in Calls /\ call \in CallType /\ call.total \in Nat
      /\ InOurHands /\ BetweenLegs
  BY LegsFacts, CallFacts DEF Undisturbed, Finished, BetweenLegs, TypeInv, CallRunning
<1>2. AccumPool(call) \subseteq Accums /\ entry.rent \in [Accums -> Nat] /\ entry.sol \in Nat
  <2>1. \A i \in Legs : AccumSlice(call, i) \subseteq Accums
    BY <1>1 DEF AccumSlice, CallType, Accums
  <2>2. AccumPool(call) \subseteq Accums
    BY <2>1 DEF AccumPool
  <2>3. entry.rent \in [Accums -> Nat] /\ entry.sol \in Nat
    BY DEF TypeInv, TypeOK, Ledger
  <2> QED BY <2>2, <2>3
<1>3. \A x \in Accums : x \in ClosedTo(call, n) <=> \E i \in Legs : call.kind[i] = "jupiter" /\ x \in AccumSlice(call, i)
  BY <1>1 DEF ClosedTo
<1>4. \A x \in kept : x \in Accums /\ entry.rent[x] > 0 /\ x \notin ClosedTo(call, n)
  BY <1>2, <1>3 DEF CreditsOf, OpenIn, Contested
<1>5. \A x \in closed : x \in Accums /\ entry.rent[x] > 0 /\ x \in ClosedTo(call, n)
  BY <1>2, <1>3 DEF CreditsOf, OpenIn
<1>6. ASSUME NEW x \in ClosedTo(call, n), entry.rent[x] > 0 PROVE x \in closed
  <2>1. x \in Accums /\ x \in AccumPool(call)
    BY <1>3 DEF ClosedTo, AccumPool
  <2>2. PICK i \in Legs : x \in AccumSlice(call, i) /\ \A j \in Legs : j < i => x \notin AccumSlice(call, j)
    <3> DEFINE holding == {i \in Legs : x \in AccumSlice(call, i)}
    <3>1. holding \subseteq 1 .. 5 /\ holding # {}
      BY <2>1, LegsAtMostFour DEF AccumPool
    <3>2. \E i \in holding : \A j \in holding : i <= j
      <4> HIDE DEF holding
      <4> QED BY <3>1, LeastOfFive, Zenon
    <3> QED BY <1>1, <3>2
  <2>3. call.kind[i] \in {"jupiter", "curve"}
    BY <1>1 DEF CallType
  <2>4. x \in OpenIn(AccumPool(call), entry)
    BY <1>6, <2>1 DEF OpenIn
  <2>5. call.kind[i] # "curve"
    <3>1. x \notin kept
      BY <1>4
    <3> QED BY <2>2, <2>4, <3>1 DEF CreditsOf
  <2> QED BY <2>2, <2>3, <2>4, <2>5 DEF CreditsOf
<1> HIDE DEF closed, kept
<1>7. KnownCredit(call, entry) = Refunded(call, n)
  <2>1. \A x \in Accums : (IF x \in closed THEN entry.rent[x] ELSE 0) = (IF x \in ClosedTo(call, n) THEN entry.rent[x] ELSE 0)
    <3> SUFFICES ASSUME NEW x \in Accums
                 PROVE  (IF x \in closed THEN entry.rent[x] ELSE 0) = (IF x \in ClosedTo(call, n) THEN entry.rent[x] ELSE 0)
      OBVIOUS
    <3>1. entry.rent[x] \in Nat
      BY <1>2
    <3>2. CASE entry.rent[x] = 0
      BY <3>2
    <3>3. CASE entry.rent[x] > 0
      BY <1>5, <1>6, <3>3
    <3> QED BY <3>1, <3>2, <3>3
  <2>2. "pump" \in Accums /\ "swap" \in Accums
    BY DEF Accums
  <2> QED BY <2>1, <2>2 DEF KnownCredit, Refunded, SumOver, closed
<1>8. \A x \in Accums : ledger.rent[x] = IF x \in ClosedTo(call, n) THEN 0 ELSE entry.rent[x]
  BY <1>1 DEF BetweenLegs, Rents
<1>9. CreditsClosed(closed, ledger) /\ CreditsUntouched(kept, ledger, entry)
  BY <1>4, <1>5, <1>8 DEF CreditsClosed, CreditsUntouched
<1>10. credited = KnownCredit(call, entry)
  BY <1>1, <1>7 DEF InOurHands
<1>11. ledger.sol = SolEnd(call, entry)
  BY <1>1, <1>7 DEF BetweenLegs, SolAfter, SolEnd, Spent
<1> QED BY <1>9, <1>10, <1>11 DEF FinalCreditsOk, closed, kept

\* Only targets moved, and what they held was burned.
LEMMA NothingStrays ==
  ASSUME TypeInv, VaultInv, FloorInv, Undisturbed, phase = "sweep", touches = 0,
         \A a \in TokenPool(call) : entry.ctl[a] # "claimed"
  PROVE  SweptBad(call, ledger) = {} /\ \A i \in Legs : PreExisting(call, ledger, i) <= burned[i]
<1> DEFINE n == Len(Weights)
<1>1. /\ Finished = n /\ leg = n /\ Legs = 1 .. n /\ n \in Legs /\ call \in Calls /\ call \in CallType
      /\ InOurHands /\ BetweenLegs
  BY LegsFacts, CallFacts DEF Undisturbed, Finished, BetweenLegs, TypeInv, CallRunning
<1>2. TokenPool(call) \subseteq Accts /\ ledger.ctl = entry.ctl /\ entry.ctl \in [Accts -> Status] /\ entry.amt \in [Accts -> Nat]
  <2>1. \A i \in Legs : TokenSlice(call, i) \subseteq Accts
    BY <1>1 DEF TokenSlice, CallType, Accts
  <2>2. TokenPool(call) \subseteq Accts
    BY <2>1 DEF TokenPool
  <2>3. entry.ctl \in [Accts -> Status] /\ entry.amt \in [Accts -> Nat]
    BY DEF TypeInv, TypeOK, Ledger
  <2>4. ledger.ctl = entry.ctl
    BY <1>1 DEF InOurHands
  <2> QED BY <2>2, <2>3, <2>4
<1>3. \A a \in Accts : ledger.amt[a] = IF a \in Legs THEN 0 ELSE entry.amt[a]
  BY <1>1 DEF InOurHands, BetweenLegs, Burnt
<1>4. ASSUME NEW a \in TokenPool(call) PROVE AllHold(AcctChecks(ledger, a))
  <2>1. a \in Accts /\ entry.ctl[a] \in {"ours", "lost"}
    BY <1>2, <1>4 DEF Status
  <2>2. MintOf(a) = 0 => ~ Moved(a, ledger)
    <3>1. a \in Legs => MintOf(a) # 0
      BY <1>1 DEF MintOf
    <3> QED BY <1>3, <2>1, <3>1 DEF Moved
  <2>3. ~ Moved(a, ledger) \/ ledger.amt[a] = 0
    BY <1>3, <2>1 DEF Moved
  <2>4. CASE entry.ctl[a] = "ours"
    <3> DEFINE ch == AcctChecks(ledger, a)
    <3>1. DOMAIN ch = 1 .. 4 /\ ch[1][1] = (ledger.ctl[a] # "lost") /\ ch[2][1] = (ledger.ctl[a] = "ours")
      BY <2>4 DEF AcctChecks
    <3>2. ch[3][1] = (MintOf(a) = 0 \/ ~ Moved(a, ledger) \/ ledger.amt[a] = 0)
      BY <2>4 DEF AcctChecks
    <3>3. ch[4][1] = (MintOf(a) # 0 \/ ~ Moved(a, ledger))
      BY <2>4 DEF AcctChecks
    <3>4. ledger.ctl[a] # "lost" /\ ledger.ctl[a] = "ours"
      BY <1>2, <2>4
    <3> HIDE DEF ch
    <3>5. ch[1][1] /\ ch[2][1] /\ ch[3][1] /\ ch[4][1]
      BY <2>2, <2>3, <3>1, <3>2, <3>3, <3>4, Zenon
    <3> QED BY <3>1, <3>5 DEF AllHold, ch
  <2>5. CASE entry.ctl[a] = "lost"
    <3> DEFINE ch == AcctChecks(ledger, a)
    <3>1. DOMAIN ch = {1} /\ ch[1][1] = (ledger.ctl[a] = "lost" \/ ledger.amt[a] = 0)
      BY <2>5 DEF AcctChecks
    <3>2. ledger.ctl[a] = "lost"
      BY <1>2, <2>5
    <3> HIDE DEF ch
    <3> QED BY <3>1, <3>2 DEF AllHold, ch
  <2> QED BY <2>1, <2>4, <2>5
<1>5. ASSUME NEW i \in Legs PROVE PreExisting(call, ledger, i) <= burned[i]
  <2> DEFINE S == {a \in TokenPool(call) : MintOf(a) = i /\ Moved(a, ledger)}
  <2>1. S \subseteq {i}
    BY <1>2, <1>3 DEF MintOf, Moved
  <2>2. i \in Accts /\ entry.amt[i] \in Nat /\ burned[i] \in Nat /\ call.min[i] \in Nat
    BY <1>1, <1>2, CallFacts DEF Accts, TypeInv, TypeOK
  <2>3. HeldBefore(S) <= entry.amt[i] /\ HeldBefore(S) \in Nat
    <3> HIDE DEF S
    <3> QED BY <2>1, <2>2, HeldByOne
  <2>4. burned[i] >= entry.amt[i] + call.min[i]
    BY DEF FloorInv, BurnedSoFar
  <2>5. PreExisting(call, ledger, i) = HeldBefore(S)
    BY Zenon DEF PreExisting
  <2> HIDE DEF S
  <2> QED BY <2>2, <2>3, <2>4, <2>5
<1> QED BY <1>4, <1>5 DEF SweptBad

LEMMA SweepChecksHold ==
  ASSUME TypeInv, VaultInv, FloorInv, Undisturbed, phase = "sweep", touches = 0, ~ Contested,
         \A a \in TokenPool(call) : entry.ctl[a] # "claimed"
  PROVE  AllHold(SweepChecks(call, ledger))
<1> DEFINE ch == SweepChecks(call, ledger)
<1>1. FinalCreditsOk(call, ledger)
  BY AllReturned
<1>2. SweptBad(call, ledger) = {} /\ \A i \in Legs : PreExisting(call, ledger, i) <= burned[i]
  BY NothingStrays
<1>3. BareSystemAccount(ledger) /\ ledger.wctl = "ours"
  BY DEF Undisturbed, InOurHands, VaultInv, EntryIntact, BareSystemAccount
<1>4. DOMAIN ch = 1 .. 5 /\ ch[1][1] = FinalCreditsOk(call, ledger)
  BY DEF SweepChecks
<1>5. ch[2][1] = (SweptBad(call, ledger) = {})
  BY DEF SweepChecks
<1>6. ch[3][1] = (\A i \in Legs : PreExisting(call, ledger, i) <= burned[i])
  BY DEF SweepChecks
<1>7. ch[4][1] = BareSystemAccount(ledger) /\ ch[5][1] = (ledger.wctl = "ours")
  BY DEF SweepChecks
<1>8. ch[1][1] /\ ch[2][1] /\ ch[3][1] /\ ch[4][1] /\ ch[5][1]
  <2> HIDE DEF ch
  <2> QED BY <1>1, <1>2, <1>3, <1>4, <1>5, <1>6, <1>7, Zenon
<1> HIDE DEF ch
<1>9. \A k \in DOMAIN ch : ch[k][1]
  BY <1>4, <1>8
<1> QED BY <1>9 DEF AllHold, ch

LEMMA EnvironmentUndisturbed ==
  ASSUME TypeInv, Environment
  PROVE  Undisturbed'
<1>1. ASSUME NEW lg, Touch(lg) PROVE Undisturbed'
  <2>1. touches' > 0
    BY <1>1 DEF Touch, TypeInv, TypeOK
  <2> QED BY <2>1 DEF Undisturbed
<1>2. ASSUME NEW lg, Receive(lg) PROVE Undisturbed'
  BY <1>2, IdleUndisturbed DEF Receive
<1> QED BY <1>1, <1>2 DEF Environment, TouchVault, TouchWsol, TouchToken, TouchAccumulator, TouchMarket,
           Trade, Donate, DonateRaw, DonateToken, OpenAccum

LEMMA StillUndisturbed ==
  ASSUME Undisturbed, UNCHANGED vars
  PROVE  Undisturbed'
BY DEF vars, Undisturbed, InOurHands, BetweenLegs, LegFunded, LegTraded, LegStarted, Finished, Refunded,
       ClosedTo, Rents, Burnt, SolAfter, Spent, ExpectedSol, LegCredit, Amount

LEMMA NextUndisturbed ==
  TypeInv /\ VaultInv /\ FirstLegNext /\ Undisturbed /\ [Next]_vars => Undisturbed'
<1> SUFFICES ASSUME TypeInv, VaultInv, FirstLegNext, Undisturbed, [Next]_vars PROVE Undisturbed'
  OBVIOUS
<1>1. ASSUME TypeInv', Next PROVE Undisturbed'
  <2>1. ASSUME NEW c \in Calls, Submit(c) PROVE Undisturbed'
    BY <2>1, SubmitUndisturbed
  <2>2. CASE BeginLeg
    BY <2>2, BeginLegUndisturbed
  <2>3. ASSUME NEW out \in Outputs, VenueSwap(out) PROVE Undisturbed'
    BY <2>3, VenueSwapUndisturbed
  <2>4. CASE FinishLeg
    BY <2>4, FinishLegUndisturbed
  <2>5. CASE Sweep
    <3>1. phase' = "idle"
      BY <2>5 DEF Sweep, Fail, End
    <3> QED BY <3>1, IdleUndisturbed
  <2>6. CASE Environment
    BY <2>6, EnvironmentUndisturbed
  <2> QED BY <1>1, <2>1, <2>2, <2>3, <2>4, <2>5, <2>6 DEF Next
<1>2. TypeInv'
  BY NextTypes
<1>3. CASE UNCHANGED vars
  BY <1>3, StillUndisturbed
<1> QED BY <1>1, <1>2, <1>3

LEMMA UndisturbedInvariant == Spec => [](TypeInv /\ VaultInv /\ FirstLegNext /\ FloorInv /\ Undisturbed)
<1> DEFINE Inv == TypeInv /\ VaultInv /\ FirstLegNext /\ FloorInv
<1>1. Init => Undisturbed
  BY DEF Init, Undisturbed
<1>2. Inv /\ Undisturbed /\ [Next]_vars => Undisturbed'
  BY NextUndisturbed
<1>3. Spec => []Inv
  BY VaultInvariant, FloorInvariant, PTL
<1> HIDE DEF Inv
<1>4. Spec => [](Inv /\ Undisturbed)
  BY <1>1, <1>2, <1>3, PTL DEF Spec
<1> QED BY <1>4, PTL DEF Inv

LEMMA EndsForCause ==
  ASSUME TypeInv, VaultInv, FloorInv, Undisturbed, Next, phase # "idle", phase' = "idle", code' # 0
  PROVE  \/ touches > 0
         \/ leg \in call.badLegs
         \/ code' = 6021
         \/ Contested
         \/ \E a \in TokenPool(call) : entry.ctl[a] = "claimed"
<1> SUFFICES ASSUME ~ (touches > 0), leg \notin call.badLegs, ~ Contested,
                    \A a \in TokenPool(call) : entry.ctl[a] # "claimed"
             PROVE  code' = 6021
  OBVIOUS
<1>1. touches = 0
  BY DEF TypeInv, TypeOK
<1>2. CASE BeginLeg
  <2>1. phase = "leg" /\ Fail(LegChecks(call, ledger, leg))
    BY <1>2 DEF BeginLeg
  <2> QED BY <1>1, <2>1, LegChecksHold DEF Fail
<1>3. CASE FinishLeg
  <2>1. phase = "back" /\ Fail(PostChecks(call, ledger, leg))
    BY <1>3 DEF FinishLeg
  <2>2. ~ AllHold(PostChecks(call, ledger, leg)) /\ code' = FirstError(PostChecks(call, ledger, leg))
    BY <2>1 DEF Fail, End
  <2> QED BY <1>1, <2>1, <2>2, PostChecksLack
<1>4. CASE Sweep
  <2>1. phase = "sweep" /\ Fail(SweepChecks(call, ledger))
    BY <1>4 DEF Sweep, End
  <2> QED BY <1>1, <2>1, SweepChecksHold DEF Fail
<1>5. CASE Environment
  <2> DEFINE Stays == phase' = phase
  <2>1. ASSUME NEW lg, Touch(lg) PROVE Stays
    BY <2>1 DEF Touch
  <2>2. ASSUME NEW lg, Receive(lg) PROVE Stays
    BY <2>2 DEF Receive
  <2>3. Stays
    <3> HIDE DEF Stays
    <3> QED BY <1>5, <2>1, <2>2 DEF Environment, TouchVault, TouchWsol, TouchToken, TouchAccumulator, TouchMarket,
               Trade, Donate, DonateRaw, DonateToken, OpenAccum
  <2> QED BY <2>3
<1>6. ASSUME NEW c \in Calls, Submit(c) PROVE FALSE
  BY <1>6 DEF Submit
<1>7. ASSUME NEW out \in Outputs, VenueSwap(out) PROVE FALSE
  BY <1>7 DEF VenueSwap
<1> QED BY <1>2, <1>3, <1>4, <1>5, <1>6, <1>7 DEF Next

\* What anybody sends to the vault's accounts between burns, and accumulators
\* left open, never make an admitted burn fail: unless a route changed an
\* account, a leg does not validate, two legs disagree on an accumulator or an
\* account of a route came with a claim, the only refusal left is a minimum
\* that the venue did not pay.
THEOREM DonationsBlockNothing == Spec => DonationsNeverBlock
<1> DEFINE Inv == TypeInv /\ VaultInv /\ FirstLegNext /\ FloorInv /\ Undisturbed
           Ends == phase # "idle" /\ phase' = "idle" /\ code' # 0
           Cause == \/ touches > 0
                    \/ leg \in call.badLegs
                    \/ code' = 6021
                    \/ Contested
                    \/ \E a \in TokenPool(call) : entry.ctl[a] = "claimed"
<1>1. Inv /\ [Next]_vars => [Ends => Cause]_vars
  <2> SUFFICES ASSUME Inv, Next, Ends PROVE Cause
    OBVIOUS
  <2> QED BY EndsForCause
<1>2. Spec => []Inv
  BY UndisturbedInvariant
<1>3. Spec => [][Ends => Cause]_vars
  <2> HIDE DEF Inv, Ends, Cause
  <2> QED BY <1>1, <1>2, PTL DEF Spec
<1> QED BY <1>3 DEF DonationsNeverBlock

=============================================================================
