------------------------------- MODULE Resolving -------------------------------
(***************************************************************************)
(* resolveReference of quote-service/reference.ts: which account prices a  *)
(* leg and which seed it gives the vault, from reads of one account at a   *)
(* time while the coin graduates on Pump and pools are drained.  Accounts  *)
(* are read through the readers of makeInfoHandlers (server.ts).           *)
(***************************************************************************)
EXTENDS Integers

CONSTANT Inquiries  \* what is asked, of which chain: [given, chain]

VARIABLES
  accounts,    \* what the accounts of the mint's references are now
  began,    \* history: what they were when the resolution began
  resolve   \* [given, step, ref, lost]; lost is history: a read failed
            \* for good

resolvingVars == <<accounts, began, resolve>>

\* accounts is [curve, canonical, mint, config, pool].  The curve's address holds
\* "none", SOL somebody sent ("dust"), a "live" curve or a "complete" one.
\* canonical: the PumpSwap pool of the graduated coin is there; another one is,
\* "alien", always.  config: the account of the fees is readable.  pool is the
\* state of a Raydium pool with the mint.
PoolStates == {"live", "drained", "crossed", "foreign"}

\* What may be given: nothing, one of these accounts, the curve of another
\* mint, an address without an account.
GivenReferences == {"unset", "curve", "otherCurve", "canonical", "alien", "pool", "nowhere"}

AccountsType ==
  [curve : {"none", "dust", "live", "complete"}, canonical : BOOLEAN, mint : BOOLEAN, config : BOOLEAN, pool : PoolStates]

ASSUME ResolvingConstants == \A q \in Inquiries : q.given \in GivenReferences /\ q.chain \in AccountsType

ResolvingInit ==
  /\ \E q \in Inquiries :
       /\ accounts = q.chain
       /\ resolve = [given |-> q.given, step |-> "start", ref |-> "none", lost |-> FALSE]
  /\ began = accounts

\* The account at an address: its owner, or "none".
OwnerOf(ref) ==
  CASE ref = "curve" -> (CASE accounts.curve = "none" -> "none" [] accounts.curve = "dust" -> "system" [] OTHER -> "pump")
    [] ref = "otherCurve" -> "pump"
    [] ref = "canonical" -> IF accounts.canonical THEN "pumpSwap" ELSE "none"
    [] ref = "alien" -> "pumpSwap"
    [] ref = "pool" -> IF accounts.pool = "foreign" THEN "system" ELSE "raydium"
    [] OTHER -> "none"

\* One read of the resolver: it may fail, and the resolution with it.
Looks(step, ok, next) ==
  /\ resolve.step = step
  /\ resolve' = IF ok THEN next ELSE [resolve EXCEPT !.step = "unavailable", !.lost = TRUE]
  /\ UNCHANGED <<accounts, began>>

StepTo(step)      == [resolve EXCEPT !.step = step]
Toward(step, ref) == [resolve EXCEPT !.step = step, !.ref = ref]

-----------------------------------------------------------------------------
(* The resolution *)

\* resolveReference: without a reference the mint's Pump venue.
StartUnset == resolve.given = "unset" /\ Looks("start", TRUE, StepTo("venue"))

StartGiven(ok) ==
  /\ resolve.given # "unset"
  /\ Looks("start", ok,
       CASE OwnerOf(resolve.given) = "none" -> StepTo("missing")
         [] OwnerOf(resolve.given) = "pump" -> Toward("curve", "curve")
         [] OTHER -> Toward("pool", resolve.given))

FaultyHandsOff == FALSE
HandsOff       == accounts.curve = "complete"

\* resolvePumpVenue: a complete curve hands off to the canonical pool.
LookAtVenue(ok) == Looks("venue", ok, IF HandsOff THEN StepTo("canonical") ELSE Toward("curve", "curve"))

LookForCanonical(ok) ==
  Looks("canonical", ok, IF accounts.canonical THEN Toward("pool", "canonical") ELSE StepTo("migrating"))

\* resolveCurve reads the curve for itself.
LookAtCurve(ok) ==
  Looks("curve", ok,
    CASE accounts.curve \in {"none", "dust"} -> StepTo("noCurve")
      [] accounts.curve = "complete" -> StepTo("graduated")
      [] OTHER -> StepTo("mint"))

\* The supply is in the market cap that the fee's tier depends on.
LookAtMint(ok) == Looks("mint", ok, IF accounts.mint THEN StepTo("fee") ELSE StepTo("invalid"))

\* A curve that was given must be the one derived.
LastCheck == IF resolve.ref = "curve" /\ resolve.given = "otherCurve" THEN StepTo("notDerived") ELSE StepTo("ok")

\* pumpFeeConfig falls back without its account; Raydium's config must be there.
LookAtFee(ok) == Looks("fee", ok, IF accounts.config \/ resolve.ref # "pool" THEN LastCheck ELSE StepTo("invalid"))

\* resolvePool
LookAtPool(ok) ==
  Looks("pool", ok, IF OwnerOf(resolve.ref) \in {"pumpSwap", "raydium"} THEN StepTo("vaults") ELSE StepTo("invalid"))

\* Both vaults at once; those of a PumpSwap pool hold what its creator left.
LookAtVaults(ok) ==
  Looks("vaults", ok,
    CASE resolve.ref # "pool" -> StepTo("mint")
      [] resolve.ref = "pool" /\ accounts.pool = "live" -> StepTo("fee")
      [] OTHER -> StepTo("invalid"))

FaultySeedFor(ref) == IF ref = "curve" THEN "zero" ELSE ref

\* The seed the reference gives the vault's address.
SeedFor(ref) == IF ref \in {"curve", "canonical", "alien"} THEN "zero" ELSE ref

-----------------------------------------------------------------------------
(* The chain *)

CurveCompletes == accounts.curve = "live" /\ accounts' = [accounts EXCEPT !.curve = "complete"] /\ UNCHANGED <<began, resolve>>

PoolMigrates ==
  /\ accounts.curve = "complete" /\ ~accounts.canonical
  /\ accounts' = [accounts EXCEPT !.canonical = TRUE] /\ UNCHANGED <<began, resolve>>

PoolDrains == accounts.pool = "live" /\ accounts' = [accounts EXCEPT !.pool = "drained"] /\ UNCHANGED <<began, resolve>>

ResolvingNext ==
  \/ StartUnset
  \/ \E ok \in BOOLEAN :
       \/ StartGiven(ok) \/ LookAtVenue(ok) \/ LookForCanonical(ok) \/ LookAtCurve(ok) \/ LookAtMint(ok)
       \/ LookAtFee(ok) \/ LookAtPool(ok) \/ LookAtVaults(ok)
  \/ CurveCompletes \/ PoolMigrates \/ PoolDrains

-----------------------------------------------------------------------------
(* The program: keyless_leg_floor admits a reference, build_split_seeds takes *)
(* the seed from its owner.                                                   *)

ProgramPrices(ref, world) ==
  CASE ref = "curve"     -> world.curve = "live"
    [] ref = "canonical" -> world.canonical
    [] ref = "pool"      -> world.pool = "live"
    [] OTHER             -> FALSE

ProgramSeed(ref) == IF OwnerOf(ref) \in {"pump", "pumpSwap"} THEN "zero" ELSE ref

-----------------------------------------------------------------------------
(* Properties *)

\* What is resolved was a reference the program prices, when the resolution
\* began or now, although its accounts were read apart; a pool of PumpSwap that
\* is not the coin's own is resolved all the same when it is given, and left to
\* the program.
ResolvedIsPriced ==
  resolve.step = "ok" /\ resolve.ref # "alien" =>
    ProgramPrices(resolve.ref, began) \/ ProgramPrices(resolve.ref, accounts)

\* The vault's address is the one the program derives, and "UNCHANGED across
\* graduation": both of Pump's venues give the sentinel.
VaultUnmoved ==
  /\ resolve.step = "ok" => SeedFor(resolve.ref) = ProgramSeed(resolve.ref)
  /\ resolve.step = "ok" /\ resolve.given = "unset" => SeedFor(resolve.ref) = "zero"

\* A refusal is evidence of what it says: a migration that is under way, a
\* curve that completed between two reads, an account that was not there.
RefusalsAreEvidence ==
  /\ resolve.step = "migrating" => accounts.curve = "complete" /\ ~began.canonical
  /\ resolve.step = "graduated" =>
       accounts.curve = "complete" /\ (resolve.given = "unset" => began.curve = "live")
  /\ resolve.step = "noCurve" => began.curve \in {"none", "dust"}
  /\ resolve.step = "missing" =>
       CASE resolve.given = "curve" -> began.curve = "none"
         [] resolve.given = "canonical" -> ~began.canonical
         [] OTHER -> resolve.given = "nowhere"
  /\ resolve.step = "unavailable" => resolve.lost

ResolvingSound == ResolvedIsPriced /\ VaultUnmoved /\ RefusalsAreEvidence

=============================================================================
