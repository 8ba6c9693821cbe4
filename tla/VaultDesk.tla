----------------------------- MODULE VaultDesk -----------------------------
(***************************************************************************)
(* The buttons of the vault page (pages/vault.tsx) and the creator fees    *)
(* they pay out (chain/pump.ts): the polled claim status, the claim that   *)
(* reads everything again before it is built, the burn button and the demo *)
(* loop.  A coin's fees wait on its curve and, once it has graduated, also *)
(* with its pool; anyone may pay them out to the shareholders of the       *)
(* coin's sharing config.  Every read is a step of its own, so the coin    *)
(* can change between any two.                                             *)
(***************************************************************************)
EXTENDS Integers, FiniteSets

CONSTANTS
  Pins,         \* what a sharing config may say at first: "vault", "other", "absent"
  Pollers,      \* reads of the claim status that may overlap
  MinPay,       \* the least Pump pays out
  MaxAccrued,   \* bound: fees accrued
  MaxClaims,    \* bound: claims pressed
  DemoEnabled   \* whether the demo loop is shown

ASSUME DeskConstants ==
  Pins \subseteq {"vault", "other", "absent"} /\ MinPay \in Nat \ {0} /\ {MaxAccrued, MaxClaims} \subseteq Nat
    /\ DemoEnabled \in BOOLEAN

VARIABLES
  coin,    \* the coin's fees and its sharing config on the chain
  poll,    \* the reads of the claim status under way
  claim,   \* the claim being made
  desk     \* what the page shows and does

deskVars == <<coin, poll, claim, desk>>

Hidden == [shown |-> FALSE, amount |-> 0, can |-> FALSE, epoch |-> 0, applied |-> 0]
NoPoll == [at |-> "idle", epoch |-> 0, sweep |-> FALSE]
NoClaim == [at |-> "idle", to |-> "nobody", sweep |-> FALSE, since |-> 0]

DeskInit ==
  /\ coin \in [pin : Pins, fees : {0}, amm : {0}, pool : {FALSE}, accrued : {0}, strayed : {0}]
  /\ poll = [q \in Pollers |-> NoPoll]
  /\ claim = NoClaim
  /\ desk = [status |-> Hidden, refresh |-> 0, busy |-> "nothing", claims |-> 0]

-----------------------------------------------------------------------------
(* Pump, and everybody else *)

\* Trades earn fees where the coin trades.
Accrues(k) ==
  IF k.pool THEN [k EXCEPT !.amm = @ + 1, !.accrued = @ + 1] ELSE [k EXCEPT !.fees = @ + 1, !.accrued = @ + 1]

\* One unit that arrives while a claim is on its way is noted with the claim.
Noted(n) == IF claim.at \in {"idle", "asked", "verified"} THEN claim ELSE [claim EXCEPT !.since = @ + n]

\* Pump pays to the shareholders it has on record; it refuses too little.
Due(k, sweep) == k.fees + IF sweep THEN k.amm ELSE 0
Pays(k, sweep) ==
  [k EXCEPT !.fees = 0, !.amm = IF sweep THEN 0 ELSE @,
            !.strayed = @ + IF k.pin = "vault" THEN 0 ELSE Due(k, sweep)]

TradedElsewhere ==
  /\ coin.accrued < MaxAccrued
  /\ coin' = Accrues(coin) /\ claim' = Noted(1)
  /\ UNCHANGED <<poll, desk>>

Graduates ==
  /\ ~ coin.pool
  /\ coin' = [coin EXCEPT !.pool = TRUE]
  /\ UNCHANGED <<poll, claim, desk>>

Repointed ==
  /\ coin.pin = "vault"
  /\ coin' = [coin EXCEPT !.pin = "other"]
  /\ UNCHANGED <<poll, claim, desk>>

PaidByOthers(sweep) ==
  /\ coin.pin # "absent" /\ Due(coin, sweep) >= MinPay /\ (sweep => coin.pool)
  /\ coin' = [Pays(coin, sweep) EXCEPT !.strayed = coin.strayed]
  /\ UNCHANGED <<poll, claim, desk>>

-----------------------------------------------------------------------------
(* Reading what a claim needs *)

\* The sharing config names this mint and this vault alone.
NamesVault(k) == k.pin = "vault"

\* The fees with the pool are swept if the pool and its fee account are there;
\* the account is made with the first fee.
Sweeps(k) == k.pool /\ k.amm > 0

PollStep(q, from, to) == poll[q].at = from /\ poll' = [poll EXCEPT ![q] = to]

\* The effect is run again once a claim of this page has succeeded: answers to
\* earlier reads are dropped.
Cancelled(q) == poll[q].epoch # desk.refresh

PollAsks(q) ==
  /\ PollStep(q, "idle", [at |-> "asked", epoch |-> desk.refresh, sweep |-> FALSE])
  /\ UNCHANGED <<coin, claim, desk>>

\* A failed read shows nothing, and never zero.
PollFails(q) ==
  /\ poll[q].at # "idle" /\ PollStep(q, poll[q].at, NoPoll)
  /\ desk' = IF Cancelled(q) THEN desk ELSE [desk EXCEPT !.status = [Hidden EXCEPT !.epoch = poll[q].epoch, !.applied = desk.refresh]]
  /\ UNCHANGED <<coin, claim>>

PollVerifies(q) ==
  /\ NamesVault(coin) /\ PollStep(q, "asked", [poll[q] EXCEPT !.at = "verified"])
  /\ UNCHANGED <<coin, claim, desk>>

PollSeesPool(q) ==
  /\ PollStep(q, "verified", [poll[q] EXCEPT !.at = "context", !.sweep = Sweeps(coin)])
  /\ UNCHANGED <<coin, claim, desk>>

\* The simulation answers what the transaction would pay now.
PollSimulates(q) ==
  /\ PollStep(q, "context", NoPoll)
  /\ desk' = IF Cancelled(q) THEN desk
             ELSE [desk EXCEPT !.status =
                    [shown |-> TRUE, amount |-> Due(coin, poll[q].sweep), can |-> Due(coin, poll[q].sweep) >= MinPay,
                     epoch |-> poll[q].epoch, applied |-> desk.refresh]]
  /\ UNCHANGED <<coin, claim>>

-----------------------------------------------------------------------------
(* Claiming *)

HasClaimableFees == desk.status.shown /\ desk.status.can /\ desk.status.amount > 0

NotBusy == desk.busy = "nothing"
Busy(label) == desk' = [desk EXCEPT !.busy = label]
Finishes == desk' = [desk EXCEPT !.busy = "nothing"]

PressClaim ==
  /\ NotBusy /\ HasClaimableFees /\ desk.claims < MaxClaims
  /\ desk' = [desk EXCEPT !.busy = "claim-fees", !.claims = @ + 1]
  /\ claim' = [NoClaim EXCEPT !.at = "asked"]
  /\ UNCHANGED <<coin, poll>>

\* Any read, the wallet or the sending fails: the page says so.
ClaimFails ==
  /\ claim.at \in {"asked", "verified", "built", "sent", "refused", "landed"}
  /\ claim' = NoClaim /\ Finishes
  /\ UNCHANGED <<coin, poll>>

ClaimVerifies ==
  /\ claim.at = "asked" /\ NamesVault(coin)
  /\ claim' = [claim EXCEPT !.at = "verified", !.to = coin.pin]
  /\ UNCHANGED <<coin, poll, desk>>

\* What accrues from here on is not part of the claim.
ClaimBuilds ==
  /\ claim.at = "verified"
  /\ claim' = [claim EXCEPT !.at = "built", !.sweep = Sweeps(coin)]
  /\ UNCHANGED <<coin, poll, desk>>

ClaimSent ==
  /\ claim.at = "built"
  /\ claim' = [claim EXCEPT !.at = "sent"]
  /\ UNCHANGED <<coin, poll, desk>>

\* The transaction carries the shareholders it was built with, and Pump refuses
\* others than it has on record.
ClaimExecutes ==
  /\ claim.at = "sent"
  /\ IF coin.pin = claim.to /\ Due(coin, claim.sweep) >= MinPay
       THEN coin' = Pays(coin, claim.sweep) /\ claim' = [claim EXCEPT !.at = "landed"]
       ELSE claim' = [claim EXCEPT !.at = "refused"] /\ UNCHANGED coin
  /\ UNCHANGED <<poll, desk>>

\* Confirmed: the status is read again.
ClaimConfirmed ==
  /\ claim.at = "landed"
  /\ claim' = NoClaim
  /\ desk' = [desk EXCEPT !.busy = "nothing", !.refresh = @ + 1]
  /\ UNCHANGED <<coin, poll>>

-----------------------------------------------------------------------------
(* The other buttons *)

\* The amount, the caps, the table and the mints are looked at too; they are
\* read elsewhere, and so is what the service makes of the burn.
PressBurnButton ==
  /\ NotBusy
  /\ Busy("burn")
  /\ UNCHANGED <<coin, poll, claim>>

BurnReturns ==
  /\ desk.busy = "burn"
  /\ Finishes
  /\ UNCHANGED <<coin, poll, claim>>

PressDemo(label) ==
  /\ DemoEnabled /\ NotBusy
  /\ Busy(label)
  /\ UNCHANGED <<coin, poll, claim>>

\* The service refuses or cannot be reached.
DemoFails ==
  /\ desk.busy \in {"trade", "distribute", "fund", "migrate"}
  /\ Finishes
  /\ UNCHANGED <<coin, poll, claim>>

\* A completed curve trades no more.
DemoTrade ==
  /\ desk.busy = "trade"
  /\ IF coin.pool \/ coin.accrued >= MaxAccrued THEN UNCHANGED <<coin, claim>>
     ELSE coin' = Accrues(coin) /\ claim' = Noted(1)
  /\ Finishes
  /\ UNCHANGED poll

\* The service pays out without a look at the shareholders and without a sweep.
DemoDistribute ==
  /\ desk.busy = "distribute" /\ coin.pin # "absent" /\ Due(coin, FALSE) >= MinPay
  /\ coin' = [Pays(coin, FALSE) EXCEPT !.strayed = coin.strayed]
  /\ Finishes
  /\ UNCHANGED <<poll, claim>>

\* An airdrop to the vault.
DemoFund ==
  /\ desk.busy = "fund"
  /\ Finishes
  /\ UNCHANGED <<coin, poll, claim>>

DemoMigrate ==
  /\ desk.busy = "migrate"
  /\ coin' = [coin EXCEPT !.pool = TRUE]
  /\ Finishes
  /\ UNCHANGED <<poll, claim>>

-----------------------------------------------------------------------------

OutsideNext == TradedElsewhere \/ Graduates \/ Repointed \/ \E sweep \in BOOLEAN : PaidByOthers(sweep)

PollNext ==
  \E q \in Pollers : PollAsks(q) \/ PollFails(q) \/ PollVerifies(q) \/ PollSeesPool(q) \/ PollSimulates(q)

ClaimNext ==
  PressClaim \/ ClaimFails \/ ClaimVerifies \/ ClaimBuilds \/ ClaimSent \/ ClaimExecutes \/ ClaimConfirmed

ButtonNext ==
  \/ PressBurnButton \/ BurnReturns
  \/ \E label \in {"trade", "distribute", "fund", "migrate"} : PressDemo(label)
  \/ DemoFails \/ DemoTrade \/ DemoDistribute \/ DemoFund \/ DemoMigrate

DeskNext == OutsideNext \/ PollNext \/ ClaimNext \/ ButtonNext

-----------------------------------------------------------------------------
(* Properties *)

\* A claim of this page pays this vault or nobody, although the sharing config
\* may be given to another between any two steps.
PaysThisVault == coin.strayed = 0

\* A claim that has landed leaves only fees that arrived after it was built,
\* also when the coin graduated on the way.
ClaimLeavesNothing == claim.at = "landed" => coin.fees + coin.amm <= claim.since

\* A status is from a read that began after the last claim of this page, or is
\* the one that was there before it.
StatusInOrder == desk.status.epoch = desk.status.applied

\* One action runs at a time; a claim under way is the one the page is busy with.
OneAction == claim.at # "idle" <=> desk.busy = "claim-fees"

\* The vault page's buttons are sound.
DeskSound == PaysThisVault /\ ClaimLeavesNothing /\ StatusInOrder /\ OneAction

=============================================================================
