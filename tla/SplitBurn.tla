----------------------------- MODULE SplitBurn -----------------------------
(***************************************************************************)
(* One burn vault of the on-chain program and the transactions that spend  *)
(* it (programs/burner/src/split.rs with swap_and_burn.rs, directcurve.rs  *)
(* and token.rs).  A transaction is admitted, then for every leg funds and *)
(* calls a route that holds the vault's signature, verifies what the route *)
(* left behind and burns; a final sweep decides whether everything commits *)
(* or nothing does.  The route is the environment: it may change any       *)
(* account handed to it, in steps bounded by MaxTouches.                   *)
(*                                                                         *)
(* Leg i's target token account (the vault's ATA of the i-th target mint)  *)
(* is named i.  Aux are further token accounts a route may be handed.      *)
(***************************************************************************)
EXTENDS SplitMath, FiniteSetsExt

CONSTANTS
  Weights,          \* the weights the vault address commits to
  Aux,              \* other token accounts
  AuxMint,          \* the leg whose target mint an Aux account holds, or 0
  AuxStatus,        \* whether an Aux account is the vault's to begin with
  LegFloor(_, _, _),\* keyless_leg_floor: leg, input, market; 0 when it refuses
  Markets,          \* the states of the committed reference pools
  RentFloor,        \* rent_minimum_balance_zero_data
  SolAmounts,       \* bound: the vault balances the environment may produce
  Amounts,          \* bound: likewise for token accounts and accumulators
  Outputs,          \* bound: what a venue may pay for a leg
  Calls,            \* bound: the transactions a caller may send
  MaxTouches        \* bound: arbitrary account changes per transaction

Legs   == DOMAIN Weights
Accts  == Legs \cup Aux
Accums == {"pump", "swap"}   \* the two volume accumulators of the vault

\* Control of a token account: the vault's; the vault's with a delegate or a
\* close authority set; somebody else's (or closed).
Status == {"ours", "claimed", "lost"}

Ledger == [sol    : Nat,               \* lamports of the vault PDA
           bare   : BOOLEAN,           \* still System-owned with no data
           wsol   : Nat,               \* token amount of the WSOL account
           raw    : Nat,               \* lamports in it not yet synchronised
           wctl   : Status,
           amt    : [Accts -> Nat],
           ctl    : [Accts -> Status],
           rent   : [Accums -> Nat],   \* an accumulator's lamports, 0 if closed
           market : Markets]

\* What a caller chooses.  defects names what is malformed in the encoding or
\* the accounts; badLegs the legs whose route does not validate.
CallType == [total   : Nat,
             min     : [Legs -> Nat],
             kind    : [Legs -> {"jupiter", "curve"}],
             tokens  : [Legs -> SUBSET Accts],
             accums  : [Legs -> SUBSET Accums],
             defects : SUBSET {"encoding", "accounts", "vault", "suffix", "accumulator"},
             badLegs : SUBSET Legs]

ASSUME WeightsAssumption ==
  /\ Weights \in Seq(Nat)
  /\ ValidLegCount(Weights)
  /\ ValidWeights(Weights)

ASSUME AuxAssumption ==
  /\ Aux \cap Legs = {}
  /\ AuxMint \in [Aux -> Legs \cup {0}]
  /\ AuxStatus \in [Aux -> {"ours", "lost"}]

ASSUME BoundsAssumption ==
  /\ SolAmounts \subseteq Nat
  /\ Amounts \subseteq Nat
  /\ Outputs \subseteq Nat
  /\ Calls \subseteq CallType
  /\ RentFloor \in Nat
  /\ MaxTouches \in Nat

Amount(c, i) == LegAmount(c.total, Weights, i)

ASSUME FloorAssumption ==
  \A c \in Calls, i \in Legs, m \in Markets : LegFloor(i, Amount(c, i), m) \in Nat

VARIABLES
  ledger,    \* the accounts, as the running transaction sees them
  entry,     \* the accounts before it; what a failure restores
  phase,     \* "idle" | "leg" | "cpi" | "back" | "sweep"
  call,      \* the running transaction
  leg,       \* the leg being processed
  base,      \* balances read at the start of the leg
  burned,    \* burned_amounts
  credited,  \* total_validated_credit
  code,      \* how the transaction that just ended did: 0, or its error
  touches    \* changes the routes have made in this transaction

vars == <<ledger, entry, phase, call, leg, base, burned, credited, code, touches>>

-----------------------------------------------------------------------------
(* Derived from the call *)

\* The accounts handed to leg i's route: the adapters insist on the target
\* account, and the curve adapter on the Pump accumulator.
TokenSlice(c, i) == {i} \cup c.tokens[i]

AccumSlice(c, i) == c.accums[i] \cup (IF c.kind[i] = "curve" THEN {"pump"} ELSE {})

TokenPool(c) == UNION {TokenSlice(c, i) : i \in Legs}

AccumPool(c) == UNION {AccumSlice(c, i) : i \in Legs}

SumOver(S, f) ==
  (IF "pump" \in S THEN f["pump"] ELSE 0) + (IF "swap" \in S THEN f["swap"] ELSE 0)

\* snapshot_pump_lamport_credits over a set of route accounts.
OpenIn(S, lg) == {x \in S : lg.rent[x] > 0}

\* partition_pump_credits: an accumulator belongs to the first leg whose slice
\* holds it, and follows the contract of that leg's venue.
CreditsOf(kind, c, lg) ==
  {x \in OpenIn(AccumPool(c), lg) :
     \E i \in Legs : /\ x \in AccumSlice(c, i)
                     /\ c.kind[i] = kind
                     /\ \A j \in Legs : j < i => x \notin AccumSlice(c, j)}

KnownCredit(c, lg) == SumOver(CreditsOf("jupiter", c, lg), lg.rent)

\* pda_lamports_end
SolEnd(c, lg) == lg.sol - c.total + KnownCredit(c, lg)

-----------------------------------------------------------------------------
(* Checks.  Each is <<holds, error>>; a list is evaluated in code order.   *)

AllHold(checks) == \A k \in DOMAIN checks : checks[k][1]

FirstError(checks) ==
  checks[Min({k \in DOMAIN checks : ~ checks[k][1]})][2]

\* token_amount_checked
ControlError(s) == IF s = "claimed" THEN 6035 ELSE 6016

\* keyless_leg_floor for every leg before anything runs; the first leg that
\* is refused, or whose minimum is below its floor, names the error.
FloorOk(c, lg, i) ==
  /\ LegFloor(i, Amount(c, i), lg.market) # 0
  /\ c.min[i] >= LegFloor(i, Amount(c, i), lg.market)

FloorError(c, lg) ==
  IF \E i \in Legs : /\ LegFloor(i, Amount(c, i), lg.market) = 0
                     /\ \A j \in Legs : j < i => FloorOk(c, lg, j)
    THEN 6002 ELSE 6021

(* Definitions named Faulty... are plausible mistakes in the code they stand
   beside.  No specification uses them; substituting one for the definition
   it precedes must break the property it is kept for. *)

FaultyRemainderOk(balance) == balance >= 0

\* validate_burn_remainder
RemainderOk(balance) == balance = 0 \/ balance >= RentFloor

FaultyBareSystemAccount(lg) == lg.bare \/ phase = "sweep"

\* is_bare_system_account
BareSystemAccount(lg) == lg.bare

FaultyTargetPreCallBalanceOk(lg, i) == lg.amt[i] <= entry.amt[i]

\* verify_target_pre_call_balance: no earlier leg moved the target balance.
TargetPreCallBalanceOk(lg, i) ==
  entry.ctl[i] # "lost" /\ lg.amt[i] = entry.amt[i]

\* Everything the handler checks before the first leg.
AdmissionChecks(c, lg) == <<
  <<"encoding" \notin c.defects,                       6027>>,
  <<"accounts" \notin c.defects,                       6030>>,
  <<c.total # 0,                                       6000>>,
  <<"vault" \notin c.defects /\ BareSystemAccount(lg), 6012>>,
  <<lg.wctl = "ours",                                  ControlError(lg.wctl)>>,
  <<~ DustLeg(c.total, Weights),                       6000>>,
  <<\A i \in Legs : FloorOk(c, lg, i),                 FloorError(c, lg)>>,
  <<lg.sol >= c.total,                                 6001>>,
  <<"suffix" \notin c.defects,                         6006>>,
  <<OpenIn(AccumPool(c), lg) = {} \/ "accumulator" \notin c.defects, 6019>>,
  <<RemainderOk(SolEnd(c, lg)),                        6026>> >>

\* What precedes the CPI of leg i: the target is still the vault's, the route
\* names this leg's accounts and exact input, and the target balance is the one
\* of the snapshot.  Funding, or the curve's own debit, needs the lamports.
LegChecks(c, lg, i) == <<
  <<lg.ctl[i] = "ours",                                ControlError(lg.ctl[i])>>,
  <<c.kind[i] = "curve" \/ i \notin c.badLegs,         6008>>,
  <<TargetPreCallBalanceOk(lg, i),                     6042>>,
  <<c.kind[i] = "jupiter" \/ (i \notin c.badLegs /\ BareSystemAccount(lg)), 6006>>,
  <<BareSystemAccount(lg) /\ lg.sol >= Amount(c, i),   1>> >>

\* The credit of a leg: a Jupiter route closes the accumulators it was handed
\* and refunds them to the vault; a curve buy refunds nothing.
LegCredit(c, i) ==
  IF c.kind[i] = "jupiter" THEN SumOver(OpenIn(AccumSlice(c, i), base), base.rent) ELSE 0

FaultyCreditsClosed(S, lg) == \A x \in S : lg.rent[x] <= base.rent[x]

\* verify_pump_lamport_credits, verify_pump_credits_untouched
CreditsClosed(S, lg)            == \A x \in S : lg.rent[x] = 0
CreditsUntouched(S, lg, before) == \A x \in S : lg.rent[x] = before.rent[x]

LegCreditsOk(c, lg, i) ==
  LET S == OpenIn(AccumSlice(c, i), base)
  IN  IF c.kind[i] = "jupiter" THEN CreditsClosed(S, lg) ELSE CreditsUntouched(S, lg, base)

\* verify_swap_postconditions
WsolConsumed(lg) == lg.wsol = base.wsol

ExpectedSol(c, i) == base.sol - Amount(c, i) + LegCredit(c, i)

\* After the CPI of leg i: the credits, verify_swap_postconditions, burn_target.
\* The token program burns only what the vault's signature controls.
PostChecks(c, lg, i) == <<
  <<LegCreditsOk(c, lg, i),                                     6019>>,
  <<WsolConsumed(lg),                                           6018>>,
  <<lg.sol = ExpectedSol(c, i),                                 6019>>,
  <<lg.amt[i] >= base.amt,                                      6020>>,
  <<lg.amt[i] - base.amt >= c.min[i],                           6021>>,
  <<lg.ctl[i] # "lost",                                         1>>,
  <<lg.ctl[i] = "ours",                                         6035>> >>

\* verify_no_intermediate_balances for one account of the pool.
MintOf(a) == IF a \in Legs THEN a ELSE AuxMint[a]

FaultyMoved(a, lg) == entry.ctl[a] # "lost" /\ lg.amt[a] > entry.amt[a]

Moved(a, lg) == entry.ctl[a] # "lost" /\ lg.amt[a] # entry.amt[a]

AcctChecks(lg, a) ==
  IF entry.ctl[a] # "lost"
    THEN << <<lg.ctl[a] # "lost",                               6023>>,
            <<lg.ctl[a] = "ours",                               6035>>,
            <<MintOf(a) = 0 \/ ~ Moved(a, lg) \/ lg.amt[a] = 0, 6023>>,
            <<MintOf(a) # 0 \/ ~ Moved(a, lg),                  6043>> >>
    ELSE << <<lg.ctl[a] = "lost" \/ lg.amt[a] = 0,              6023>> >>

\* What the accounts S held before the transaction.
HeldBefore(S) == MapThenSumSet(LAMBDA a : entry.amt[a], S)

\* Entry value of target i that left the pool's accounts of that mint.
PreExisting(c, lg, i) ==
  HeldBefore({a \in TokenPool(c) : MintOf(a) = i /\ Moved(a, lg)})

\* The whole-call postconditions, in code order.
FinalCreditsOk(c, lg) ==
  /\ CreditsClosed(CreditsOf("jupiter", c, entry), lg)
  /\ CreditsUntouched(CreditsOf("curve", c, entry), lg, entry)
  /\ credited = KnownCredit(c, entry)
  /\ lg.sol = SolEnd(c, entry)

SweptBad(c, lg) == {a \in TokenPool(c) : ~ AllHold(AcctChecks(lg, a))}

\* The pool is inspected in the caller's order, which is not modelled.
SweepError(c, lg) ==
  IF SweptBad(c, lg) = {} THEN 0
  ELSE FirstError(AcctChecks(lg, CHOOSE a \in SweptBad(c, lg) : TRUE))

SweepChecks(c, lg) == <<
  <<FinalCreditsOk(c, lg),                                      6019>>,
  <<SweptBad(c, lg) = {},                                       SweepError(c, lg)>>,
  <<\A i \in Legs : PreExisting(c, lg, i) <= burned[i],         6043>>,
  <<BareSystemAccount(lg),                                      6012>>,
  <<lg.wctl = "ours",                                           ControlError(lg.wctl)>> >>

-----------------------------------------------------------------------------
(* The transaction *)

NoCall == [total |-> 0, min |-> [i \in Legs |-> 0], kind |-> [i \in Legs |-> "jupiter"],
           tokens |-> [i \in Legs |-> {}], accums |-> [i \in Legs |-> {}], defects |-> {}, badLegs |-> {}]

NoBase == [sol |-> 0, wsol |-> 0, amt |-> 0, rent |-> [x \in Accums |-> 0]]

Zeros == [i \in Legs |-> 0]

Init ==
  /\ ledger \in [sol : SolAmounts, bare : {TRUE}, wsol : {0}, raw : {0}, wctl : {"ours"},
                 amt : {[a \in Accts |-> 0]},
                 ctl : {[a \in Accts |-> IF a \in Legs THEN "ours" ELSE AuxStatus[a]]},
                 rent : {[x \in Accums |-> 0]}, market : Markets]
  /\ ledger.sol = 0 \/ ledger.sol >= RentFloor
  /\ entry = ledger
  /\ phase = "idle" /\ call = NoCall /\ leg = 1 /\ base = NoBase
  /\ burned = Zeros /\ credited = 0 /\ code = 0 /\ touches = 0

\* Every failure restores the accounts (the runtime's transaction atomicity).
End(lg, c) ==
  /\ ledger' = lg /\ entry' = lg
  /\ phase' = "idle" /\ call' = NoCall /\ leg' = 1 /\ base' = NoBase
  /\ burned' = Zeros /\ credited' = 0 /\ code' = c /\ touches' = 0

Fail(checks) == ~ AllHold(checks) /\ End(entry, FirstError(checks))

Submit(c) ==
  /\ phase = "idle"
  /\ \/ Fail(AdmissionChecks(c, ledger))
     \/ /\ AllHold(AdmissionChecks(c, ledger))
        /\ phase' = "leg" /\ call' = c /\ code' = 0
        /\ UNCHANGED <<ledger, entry, leg, base, burned, credited, touches>>

FaultyWsolBefore(lg, kind) == lg.wsol

\* fund_wsol: synchronise, transfer, synchronise; the balance it measures from
\* already counts lamports somebody sent to the account.
WsolBefore(lg, kind) == IF kind = "curve" THEN lg.wsol ELSE lg.wsol + lg.raw

FundWsol(lg, kind, amount) ==
  IF kind = "curve" THEN lg
  ELSE [lg EXCEPT !.sol = @ - amount, !.wsol = @ + lg.raw + amount, !.raw = 0]

\* Validate the leg, read its balances and fund it; a curve leg pays from the
\* vault itself.
BeginLeg ==
  /\ phase = "leg"
  /\ \/ Fail(LegChecks(call, ledger, leg))
     \/ /\ AllHold(LegChecks(call, ledger, leg))
        /\ phase' = "cpi"
        /\ base' = [sol |-> ledger.sol, wsol |-> WsolBefore(ledger, call.kind[leg]),
                    amt |-> ledger.amt[leg], rent |-> ledger.rent]
        /\ ledger' = FundWsol(ledger, call.kind[leg], Amount(call, leg))
        /\ UNCHANGED <<entry, call, leg, burned, credited, code, touches>>

FaultyLastLeg(i) == i > Len(Weights)

LastLeg(i) == i = Len(Weights)

FinishLeg ==
  /\ phase = "back"
  /\ \/ Fail(PostChecks(call, ledger, leg))
     \/ /\ AllHold(PostChecks(call, ledger, leg))
        /\ burned' = [burned EXCEPT ![leg] = ledger.amt[leg]]
        /\ ledger' = [ledger EXCEPT !.amt[leg] = 0]
        /\ credited' = credited + LegCredit(call, leg)
        /\ IF LastLeg(leg)
             THEN phase' = "sweep" /\ UNCHANGED leg
             ELSE phase' = "leg" /\ leg' = leg + 1
        /\ UNCHANGED <<entry, call, base, code, touches>>

Sweep ==
  /\ phase = "sweep"
  /\ \/ Fail(SweepChecks(call, ledger))
     \/ AllHold(SweepChecks(call, ledger)) /\ End(ledger, 0)

-----------------------------------------------------------------------------
(* The route *)

\* The swap an honest venue performs: it takes exactly the input and pays the
\* target account; a Jupiter route through Pump closes the accumulators.
VenueSwap(out) ==
  /\ phase = "cpi"
  /\ phase' = "back"
  /\ LET refunds == OpenIn(AccumSlice(call, leg), ledger) IN
     IF call.kind[leg] = "curve"
       THEN ledger' = [ledger EXCEPT !.sol = @ - Amount(call, leg),
                                     !.amt[leg] = @ + out]
       ELSE ledger' = [ledger EXCEPT
                        !.wsol = @ - Amount(call, leg),
                        !.amt[leg] = @ + out,
                        !.sol = @ + SumOver(refunds, ledger.rent),
                        !.rent = [x \in Accums |-> IF x \in refunds THEN 0 ELSE @[x]]]
  /\ UNCHANGED <<entry, call, leg, base, burned, credited, code, touches>>

\* Anything else code holding the vault's signature can do to an account it
\* was handed, one account at a time.
Touch(lg) ==
  /\ phase = "back" /\ touches < MaxTouches
  /\ ledger' = lg /\ touches' = touches + 1
  /\ UNCHANGED <<entry, phase, call, leg, base, burned, credited, code>>

TouchToken(a, n, s) ==
  /\ a \in TokenSlice(call, leg)
  /\ Touch([ledger EXCEPT !.amt[a] = n, !.ctl[a] = s])

TouchWsol(n, s) ==
  /\ call.kind[leg] = "jupiter"
  /\ Touch([ledger EXCEPT !.wsol = n, !.wctl = s])

TouchVault(n, b) == Touch([ledger EXCEPT !.sol = n, !.bare = b])

TouchAccumulator(x, n) ==
  /\ x \in AccumSlice(call, leg)
  /\ Touch([ledger EXCEPT !.rent[x] = n])

TouchMarket(m) == Touch([ledger EXCEPT !.market = m])

-----------------------------------------------------------------------------
(* Between transactions: anybody may send value to the vault's accounts, an
   accumulator may be opened for it, and the reference pools trade. *)

Receive(lg) ==
  /\ phase = "idle"
  /\ ledger' = lg /\ entry' = lg /\ code' = 0
  /\ UNCHANGED <<phase, call, leg, base, burned, credited, touches>>

Donate(n)         == n > ledger.sol /\ n >= RentFloor /\ Receive([ledger EXCEPT !.sol = n])
DonateToken(a, n) ==
  /\ ledger.ctl[a] = "ours" /\ n > ledger.amt[a]
  /\ Receive([ledger EXCEPT !.amt[a] = n])
DonateRaw(n)      == n > ledger.raw + ledger.wsol /\ Receive([ledger EXCEPT !.raw = n - ledger.wsol])
OpenAccum(x, n)   ==
  /\ ledger.rent[x] = 0 /\ n > 0
  /\ \E bound \in SolAmounts : ledger.sol + SumOver(Accums, ledger.rent) + n <= bound
  /\ Receive([ledger EXCEPT !.rent[x] = n])
Trade(m)          == m # ledger.market /\ Receive([ledger EXCEPT !.market = m])

Environment ==
  \/ \E n \in SolAmounts, b \in BOOLEAN : TouchVault(n, b)
  \/ \E n \in Amounts, s \in Status : TouchWsol(n, s)
  \/ \E a \in Accts, n \in Amounts, s \in Status : TouchToken(a, n, s)
  \/ \E x \in Accums, n \in Amounts : TouchAccumulator(x, n)
  \/ \E m \in Markets : TouchMarket(m) \/ Trade(m)
  \/ \E n \in SolAmounts : Donate(n)
  \/ \E n \in Amounts : DonateRaw(n)
  \/ \E a \in Accts, n \in Amounts : DonateToken(a, n)
  \/ \E x \in Accums, n \in Amounts : OpenAccum(x, n)

Next ==
  \/ \E c \in Calls : Submit(c)
  \/ BeginLeg
  \/ \E out \in Outputs : VenueSwap(out)
  \/ FinishLeg
  \/ Sweep
  \/ Environment

Spec == Init /\ [][Next]_vars

-----------------------------------------------------------------------------
(* Properties *)

\* Every variable has its type: no balance is ever negative, whatever a route
\* does, and the leg under way is one of the configuration's.
TypeOK ==
  /\ ledger \in Ledger /\ entry \in Ledger
  /\ phase \in {"idle", "leg", "cpi", "back", "sweep"}
  /\ call \in Calls \cup {NoCall}
  /\ leg \in Legs
  /\ base \in [sol : Nat, wsol : Nat, amt : Nat, rent : [Accums -> Nat]]
  /\ burned \in [Legs -> Nat]
  /\ credited \in Nat
  /\ touches \in 0 .. MaxTouches

\* The step that commits a burn.
Commits == phase = "sweep" /\ phase' = "idle" /\ code' = 0

\* Outside a transaction the vault is usable and nobody else has a claim on
\* it: the PDA is bare, the WSOL and target accounts are the vault's alone,
\* and so is every other token account that was the vault's before.  This is
\* what split.rs re-checks after routes that held the vault's signature.
VaultIntact ==
  phase = "idle" =>
    /\ ledger.bare
    /\ ledger.wctl = "ours"
    /\ \A i \in Legs : ledger.ctl[i] = "ours"
    /\ \A a \in Aux : AuxStatus[a] = "ours" => ledger.ctl[a] = "ours"

\* Outside a transaction the vault holds nothing or is rent exempt, so the
\* runtime cannot refuse the commit after every leg has executed (6026).
RentExempt == phase = "idle" => ledger.sol = 0 \/ ledger.sol >= RentFloor

\* A committed burn takes from the vault exactly the caller's total, whatever
\* its routes did, and returns the rent of the accumulators that were closed
\* exactly once however many slices listed them (6019).
ExactSpend ==
  [][Commits =>
       LET closed == {x \in Accums : entry.rent[x] > 0 /\ ledger'.rent[x] = 0}
       IN  ledger'.sol = entry.sol - call.total + SumOver(closed, entry.rent)]_vars

\* A committed burn destroys, for every leg, the balance its target account
\* held before the transaction and at least the floor that the reference pool
\* gave before any route could move it (6021, 6042).
BurnCoversFloor ==
  [][Commits =>
       \A i \in Legs :
          burned[i] >= entry.amt[i] + LegFloor(i, Amount(call, i), entry.market)]_vars

\* A committed burn loses no token the vault held: what left the accounts of a
\* target mint is covered by what was burned of it, the balance of its target
\* account included, and any other mint rests where it was (6043).
NoTokenLost ==
  [][Commits =>
       LET drained(i) == {a \in Accts : /\ MintOf(a) = i /\ entry.ctl[a] # "lost"
                                        /\ ledger'.amt[a] < entry.amt[a]}
       IN  /\ drained(0) = {}
           /\ \A i \in Legs : HeldBefore(drained(i)) <= burned[i]]_vars

\* The WSOL resting in the vault's wrapped account, lamports that were sent to
\* it raw included, survives every burn (6018).
WsolKept ==
  [][Commits => ledger'.wsol + ledger'.raw >= entry.wsol + entry.raw]_vars

\* A committed burn loses nothing that was the vault's before it.
NothingLost == NoTokenLost /\ WsolKept

\* An accumulator that a curve leg must leave open and a Jupiter leg must close.
Contested ==
  \E x \in CreditsOf("curve", call, entry) :
     \E j \in Legs : call.kind[j] = "jupiter" /\ x \in AccumSlice(call, j)

\* An admitted burn is refused later only for a reason of the caller's or the
\* route's making: what anybody sends to the vault's accounts between burns, and
\* accumulators left open, never block it.  The exceptions are a contested
\* accumulator and an account in a route that came to the vault with a claim.
DonationsNeverBlock ==
  [][phase # "idle" /\ phase' = "idle" /\ code' # 0 =>
       \/ touches > 0
       \/ leg \in call.badLegs
       \/ code' = 6021
       \/ Contested
       \/ \E a \in TokenPool(call) : entry.ctl[a] = "claimed"]_vars

=============================================================================
