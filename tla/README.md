# Verification of the Onchain Burner

The repository is a permissionless buyback-and-burn system on Solana. Anybody
may send SOL to a vault whose address commits to a launch mint, to one to four
target mints with weights, and to a reference pool for each; anybody may then
have the program swap the vault's SOL for those targets and burn what was bought.
Around the program stand a quote service that builds the burns, a web
application with an edge worker in front of it, an indexer of finished burns and
a demo service for forks.

This directory holds TLA+ models of the parts that carry this logic, the TLC
configurations that check them on small instances, and proofs checked by TLAPS.
`PROJECT.json` maps every definition to the lines it models and lists runs,
findings, hazards and theorems.

## The system

| Part | State it keeps | Operations | What makes it correct |
|---|---|---|---|
| Burn instruction (`programs/burner/src/split.rs`, `swap_and_burn.rs`, `directcurve.rs`, `token.rs`) | the vault PDA's lamports, its WSOL account, one token account per target, two Pump volume accumulators | one transaction: admit, then fund, call a route, verify and burn for every leg, then sweep | whatever the routes did with the vault's signature: exact spend, floors met, nothing lost, vault still usable |
| Division of the input (`split.rs`, copies in `core.ts` and `community-indexer.ts`) | none | divide a total by weights | the legs add up, rounding is fair |
| Reference floor (`swap_and_burn.rs`, `directcurve.rs`; copy in `reference.ts`) | none (reads pool accounts) | price a leg from its pool, cap it, take the tolerance off | no overflow, the fallback is the strictest reading, service and program agree |
| Building a burn (`quote-service/core.ts`, `adapters.ts`, `directcurve.ts`) | one burn between its awaits | resolve, quote, check routes, lay out, simulate, sign | refuses what the program will, builds what the program reads, ends |
| Burn server and pipeline (`quote-service/server.ts`, `core.ts`) | in-flight set, lease map, submitted ids | admit, lease, build, submit, settle, drain | one outstanding transaction per vault, no id submitted twice, every lease ends |
| Requests (`server.ts`, `fetch-handler.ts`) | upload counters, rate windows | route, check, read the body, run, answer or time out | both hosts answer alike, limits hold, one answer |
| Paid metadata uploads (`worker.ts`, `fetch-handler.ts`, executor in `server.ts`, image worker) | a durable object's leases, jobs, rate windows, alarm; a balance | acquire, compress, price, write twice, complete, mirror | one writer, one payment per request, bounded spend, what is paid is served |
| Caller-paid burn (`pages/vault.tsx`, `chain/service.ts`, relay in `server.ts`) | the page's busy flag and receipt | prepare, sign, relay, poll | only burns are signed or carried; receipts are true |
| Configuration validator and launch (`validate_config.rs`, admission in `split.rs` and `token.rs`; `chain/admission.ts`, `instructions.ts`) | none on chain; the prepared transactions | validate, create the accounts, commit the fee share | what was accepted is burnable and stays so; the client's verdict is the program's |
| Launch pages (`pages/launch.tsx`, `existing.tsx`, `state/AppContext.tsx`, `chain/lookupTable.ts`) | runs of buttons, saved records, remembered lookup tables | prepare, upload, send in order, fill a table, save | nothing half done is committed or remembered |
| Choice of a vault (`chain/policy.ts`, `derive.ts`, `pages/policyPicker.tsx`, `referencePanel.tsx`) | the choice, verdicts of pools, a frozen configuration | choose, check, derive, link | the address, the references and the link name one vault |
| Markets and references (`quote-service/markets.ts`, `reference.ts`, `token-info.ts`) | memos, requests under way | scan with a pool of readers, rank, resolve, cache | an answer is evidence about the chain |
| Vault page (`pages/vault.tsx`, `chain/pump.ts`, `chain/wallet.ts`) | polled status, claim, offered amounts | poll, claim, burn, send and confirm | a claim pays this vault; a verdict is final |
| Community indexer (`app/community-indexer.ts`) | burn rows and two cursors | list, backfill, fetch, store, commit; decode, summarise | no burn falls behind the cursors, figures are sums of burns |
| Edge worker (`app/worker.ts`) | rate units | admit, charge, forward, redact | nothing unpaid passes, the endpoint's address stays hidden |
| Process wiring (`server.ts`, `worker.ts`, `node-main.ts`) | process or isolate state | initialise, serve, drain, exit | the policy is within bounds whatever the environment says |
| Demo service (`scripts/demo-burn-service.ts`) | leases, a Jupiter client, icons | set curve legs up, attempt, retry, trade | one burn lands per request, setups are whole |

The service builds the transaction that the program executes; its floors and
leg amounts are copies of the program's arithmetic. The program trusts neither
the service nor the route; the wallet trusts neither the service nor the page's
transport. The indexer reads what the program logged, pages read the service,
the index and the chain.

What is hard to test in this code: arbitrary programs holding the vault's
signature in the middle of an instruction; two accumulator contracts in one
transaction; 64- and 128-bit arithmetic at its edges; awaits between a check and
its use; leases that expire under a slow holder; answers that are lost after the
effect; overlapping cron runs that commit stale cursors; a chain that moves
between the reads of one answer; buttons pressed again while a lost transaction
can still land. The hazards are listed each at its line.

## Modules

### The program and its arithmetic

**SplitMath** is the division of a total between legs, with the loops over at
most four legs written out so that TLAPS can reason about them.

**SplitBurn** is a vault and the transactions that spend it. One transaction is
several steps: `Submit` (everything `handler` checks before the first leg),
`BeginLeg` (target validation, route validation, pre-call balance, funding),
the route, `FinishLeg` (credits, postconditions, burn) and `Sweep` (the
whole-call postconditions). `ledger` is the accounts as the running transaction
sees them and `entry` the accounts before it: a failing check restores `entry`,
which is the runtime's atomicity. Checks are lists of `<<condition, error>>` in
code order, so the error code of a failure is the one the program returns. The
route is `VenueSwap`, what an honest venue does, followed by up to `MaxTouches`
arbitrary changes (`Touch...`) of any account in the leg's slice, the WSOL
account or the vault. Between transactions anybody may donate SOL, tokens or raw
lamports, open an accumulator or trade on a reference pool. Byte layouts,
discriminators and PDA derivations are the `defects` and `badLegs` of a call.

**KeylessFloor** is the floor of a leg: fees, the tier search, Q64
multiplication, the DLMM power, the CLMM and constant-product outputs, the order
of the refusals, Pump's own quote, and the service's copies of all of it. The
word size, the basis points and the tolerance are constants: `MCArithmetic` uses
a word of 32 values so that overflow happens, and for the curves a second
instance with the program's real basis points. **VaultAmounts** is what the vault
page offers to burn: the largest total that every leg's reference still prices,
and the max button.

**ConfigAdmission** is a vault before it is funded. A configuration and the
reference accounts of the prepared instructions are fixed; the launch validates,
creates the token accounts and commits the fee share in one transaction
(`LaunchAtomic`) or in two (`LaunchFirst`, also the setup without a fee share,
and `LaunchSecond`). Around it owners revoke authorities, set hooks, freeze
accounts and close mints, anybody creates the vault's accounts, curves complete
and migrate, and trades change what a reference can price. Admission is a set of
predicates on those accounts, shared by the validator and the burn as in the
code; the mint rules of the client and of the service are copies of their own.

### The quote service

**BurnService** is the server's admission and drain, the in-memory lease store
and the pipeline of every request, interleaved at each await. Time is block
height; the environment chooses what builds, simulations and the relay answer.

**BurnBuild** is one burn of that pipeline with the data its decisions depend
on: resolution of the legs, floors, quotes, the ladder of rungs and retries, and
the simulation, while the chain moves between its awaits. The program's verdict
is an operator of its own (`ProgramRefuses`), so the service's preflight can be
compared with it. The two differ in one place: the program adds the rent of the
accumulators that Jupiter legs close to what the vault will keep
(`split.rs:386-396`), the service's `DUST_REMAINDER` (`core.ts:1589`) does not.
`Accumulator` opens and closes them, and `DustMadeUp` names the burns that the
service turns away and the program would take. **BurnMessage** lays the message out on one side and reads it
by position on the other. **RouteChecks** does the same for a Jupiter route: the
service's checks and the program's, each with its own offsets.

**Transport** is the HTTP boundary in its two forms, the Node server and the
Worker's fetch handler: routing, checks before and after the body, limits, and
the race of a result with the deadline. On the Worker an upload whose body passed
the second look at the counter waits for the gate (`Gated`) and takes its slot only
when the gate has answered (`Gate`): others pass the same look meanwhile, so
`maxInflightMetadataUploads` bounds nothing there. What keeps paid uploads apart is
the gate's lease, which ends with the receipt, the failure, the release or its expiry
(`LeaseEnds`). `PaidUploadsBounded` says for each host what its code can promise: a
bound on the node server, one standing lease on the Worker.

**MetadataGate** is the durable object with its SQL tables as functions, and the
upload handlers that call it. A method of the object is one step (its storage
gates keep other calls out); between the steps of a handler others run and time
passes. **UploadPipeline** is what a granted upload does: compress, price, pay and
write the image and the metadata document from one balance, and mirror them.

**Discovery**, **Resolving**, **ReadPool** and **Lookups** are the answers about
tokens: ranking of pools by locked liquidity with a memo and one scan per mint;
which account prices a leg and which seed it gives the vault, from reads of one
account at a time while the coin graduates; the workers that read the addresses
of a scan; and the caches of names, icons and references. A cache of `Lookups` says
whom it asks: a source itself, or `tokenInfo` of the service, whose answer may stand
for a failure that it swallowed (`Swallowed`).

**ServiceWiring** is the process: bringing the service up from an environment,
signals, drain and exit on Node, and the Worker that initialises itself under its
first request and keeps the promise.

### Around it

**BurnTrip** is a burn from the press of a button: prepare, the wallet's
signature, the stateless relay, the deadlines on both ends, and the receipt.
**WalletSend** is one transaction of the application, sent and asked for until
it is seen or its blockhash has expired. **Launching** is the launch page, the
page for an existing token and the lookup tables: buttons run beside each other,
a transaction whose answer was lost may land later, and the browser remembers
records and tables. **VaultChoice** is the way from a choice of tokens to an
address and a link, **VaultDesk** the claim of creator fees and the buttons of the
vault page, **PageLoads** the effects that load what pages show. One of them, the
admission verdict of a vault, returns early when there is no payer (`Skips`,
`vault.tsx:461`) and leaves the verdict of the vault before on the page; `Settles`
excepts it by name.

**CommunityIndexer** numbers signatures in chain order. An invocation reads the
state, lists pages, backfills, fetches, stores and commits in separate steps;
invocations overlap, and any may abort between two awaits with part of its rows
stored. **CommunityReads** is the decoding of a transaction into rows and the
summaries that page over the rows while others store.

**EdgeWorker** is the worker in front of the site; a body is a sequence of symbols
and the endpoint's patterns are sequences among them. **DemoService** is the
fork's keyless service.

### Instances

`MC...` modules give the constants their values. **MCPlatform** puts nineteen of
the components beside each other: `part` says which of them runs, the others
stay as they are ("at rest"), and a property is asked where its part runs
(`In(p, Property)`). The components share no state there, so this checks each
as if alone while one run covers all. **MCProgress** does the same for the three
components with liveness properties and states their fairness.

Definitions named `Faulty...` are plausible mistakes, one beside the definition
it would replace; each breaks the property it is kept for, and no specification
uses them. `..._proofs` hold the theorems.

## Runs

Passing runs:

| Run | Configuration | What it shows |
|---|---|---|
| split_burn | in its part "hostile" two Jupiter legs sharing accounts and two arbitrary changes by their routes; in "mixed" all venue mixes, accumulators in one or both slices, malformed calls, a third mint, a foreign account and one change | vault intact and rent exempt, floors covered, exact spend, no token and no WSOL lost, donations never make an admitted burn fail |
| burn_lease | three requests on one vault, two with one id, three block heights, expiry, settlement, drain | one outstanding transaction when the relay's answers arrive, one submission per id, every lease is going to end |
| gate | three uploads of three clients, slower than the lease, one lost call | writers overlap only past a lease, a window's cap holds, a stored receipt is never disturbed, paid for again or replayed to another body, alarms cover rows |
| platform | nineteen parts beside each other, see below | the properties of each part |
| progress | requests, page loads and two overlapping indexer runs, fair | both hosts route alike, limits hold, an answer is final and comes; displays settle; no burn is skipped and every burn is indexed |

The parts of `platform`:

| Parts | Properties | What they say |
|---|---|---|
| amounts | `AmountsHold`, `FloorsHold` | shares are fair and add up, the page offers what fits; a curve can pay its floor, service and program price alike, no product wraps |
| build | `BurnsBuiltRight`, `PreflightTruthful`, `BuildEnds` | what leaves the service is within the policy and the request; nothing is refused that the program would take, but for dust that an accumulator's rent makes up; retries end |
| message, route | `BurnsBuiltRight` | the program reads by position what the service laid out; a route passes both sides' checks or neither's |
| trip | `TripsHold` | only burns of this page's vault are signed or carried; receipts are true |
| admission | `NeverStranded`, `CopiesTellTruth`, `LaunchIsBurnable` | a committed vault stays burnable; client and service know the program's mint rules; a launch ends burnable |
| send | `VerdictFinal` | what was reported executed was, what was reported expired cannot land |
| launch | `LaunchKept` | the fee share is committed to prepared vaults only; the browser remembers what is on the chain |
| uploads | `UploadsHold` | what is stored is sound, what is paid is served, what is written was priced |
| discovery, resolving, readpool | `ReferencesTrue` | a reference is evidence and the best there is; a refusal too; rows are the chain's answers |
| lookups, desk, choice | `PagesTrue` | a miss of a source that the page asks itself is evidence, one request per key and nobody left waiting; a claim pays this vault and leaves nothing; a link reopens the vault that was chosen |
| community | `CommunityHolds` | rows are burns; summaries and the board cover them |
| edge | `EdgeHolds` | what is forwarded is paid for; answers keep their bytes but for the endpoint; deadlines follow bodies |
| demo | `DemoHolds` | one burn per request, complete setups, orderly retries |
| wiring | `WiringHolds` | the process runs within the policy or not at all, and leaves clean |

Runs that end in a violation, each against a sentence of the repository (quoted
under `findings`):

| Run | What the counterexample shows |
|---|---|
| floor_fallback_fee | with the 1 bps fallback and the 100 bps tolerance, a curve charging 125 bps cannot meet the floor; the comment counts on a tolerance of 500 |
| burn_ambiguous | a lost answer of the relay releases the lease as failed; a second transaction goes out beside the first |
| burn_drain | a request still reading its body at shutdown is not waited for |
| indexer_burst | more signatures than a run lists: the head passes the rest |
| stale_ready | after one setup the page says "Vault ready" of another, unprepared address |
| cached_miss | a timeout of Jupiter, between headers and body or swallowed by the service, is remembered as a token without a name |
| rejected_burn | a connection that breaks while the service burns is shown as "REJECTED — vault untouched", and the burn lands |

None of these is about the on-chain program's safety: the one in the program
costs availability, the others are in the services and pages around it.

Met while modelling, and visible in the models rather than in a run of their own:

- `maxInflight` is compared before the request body is awaited (`server.ts:943`),
  so requests whose bodies are still arriving are not counted (`Admit`, `Start`).
- The gate's lease ends after 180 seconds whether or not the upload has
  (`worker.ts:134`): two writers may overlap, which is the exception in
  `OneWriter`. A lost `complete` leaves no receipt (`fetch-handler.ts:462`) and
  the retry pays again: `PaidOnce` speaks of stored receipts only.
- The rate windows are fixed (`worker.ts:143`): two of them side by side admit up
  to `2 * GLOBAL - 1` uploads within one window's length. `WindowCap` is about
  one window.
- The admission verdict of one vault stays on the page of the next when no wallet is
  connected and the service names no payer (`vault.tsx:461`), the exception in
  `Settles`; and the service refuses as dust what the rent of an open accumulator
  would make up (`core.ts:1589`), the exception in `PreflightTruthful`.
- For price venues the program computes the output before the depth gate and the
  mirror after it (`reference.ts:284`), so they may name different reasons for a
  refusal; `CopiesAgree` is about the floors they give.
- A curve may complete between the two reads of a resolution; `Resolving` speaks
  of the chain as it was when the resolution began or as it has become since.
- The page for an existing token shows an address derived before every choice is
  made (`existing.tsx:104-128`); its button refuses until then.
- A summary may count rows twice that are stored between two of its pages, and
  the total on the board is over at most the listed communities. `SummaryCovers`
  and `BoardCovers` are therefore inequalities.
- The answer 405 of `/api/community-vaults` is given before the security headers
  are added (`worker.ts:765`).
- An isolate whose first initialisation is rejected keeps the rejected promise
  (`worker.ts:477`), so each later request of it is refused as well.
- A restart forgets the holds and submitted ids of the in-memory lease store
  (`core.ts:1178`), which the code says of itself; it is the one listed hazard
  without a property.

### Bounds

*SplitBurn.* Two legs are the smallest number at which one leg can prepare an
attack on another; weights 1 and 2 make the legs differ. Two touches allow a
change and its concealment in one leg, or a change in the first leg and another
in the second; with every mix of venues one touch is what fits, and the part
"mixed" has two further accounts of its own. An account that no route of a call is
handed is empty while the call runs (`Reaches`): nothing could change it. Amounts of 0 and
2 and vault balances of 0, 3 and 7 put the remainder at zero, below and above the
rent floor. The theorems below remove all these bounds.

*KeylessFloor, VaultAmounts.* A 32-value word makes every product of the code
cross a word and two words. Curve reserves and inputs are small against real
ones, but the rounding terms are absolute and weigh most on small inputs.

*BurnService.* Three requests are needed for a late timer to free a third
party's lease. A blockhash lives one block and the hold two: only their order
matters, and `policy.leaseTtlMs` is refused below the blockhash window.

*MetadataGate.* A lease and a window of two and a receipt life of five keep the
order of the real 180 seconds, one hour and one day: a receipt outlives the
window it was granted in. `MaxDuration` is one more than the lease, so that the
late `complete`, `fail` and `release` of a handler meet the rows of the next one.
Three handlers are one more than the global limit; two requests and two bodies
make a retry, a conflict and a stranger.

*CommunityIndexer.* `MaxBacklog` equal to `MAX_PAGES * PAGE` is the assumption
under which nothing is skipped; one more is `indexer_burst`. Five signatures
before the first run are one more than it lists, so there is something to
backfill; two arrive later, and one failure cuts a commit off.

*Transport.* Two requests, of every method and path for the first one and of each
running handler for both; one burn and one upload at a time, one upload per
address and two per window, a clock of one window; both may wait for the gate at
once. *PageLoads.* Two subjects and
three changes: away, back, and away again while answers are on their way.

*ConfigAdmission.* The second mint is plain and has a pool, so that a defect of
one leg meets a good other leg; the first is of every kind the rules tell apart.
Depths 1 and 4 lie on either side of what a probe of 4 needs.

*BurnBuild, BurnMessage, RouteChecks.* One to three legs, with and without a
table; two rungs and one retry; one move of the chain, at any await. Routes of
0, 1, 2 and 256 accounts, the last more than a byte counts, and data of 0 and 2
bytes.

*BurnTrip, WalletSend, Launching.* Two trips of one page. A blockhash is valid up
to height 3. Two vaults, one of them with a table that is filled in two chunks,
one saved record and two presses: a second button while the first runs, or again
after its transaction was lost and before it lands.

*Lookups, Discovery, Resolving, ReadPool.* Two keys and one place in a cache; two
askers of one mint; one pull of liquidity; two scans of three addresses by two
workers with two attempts. *VaultChoice.* Two choices out of six verdicts.
*VaultDesk.* Two polls under way at once, two accruals, two claims.

*UploadPipeline, CommunityReads, EdgeWorker.* Two uploads from one balance that
may run out; three calls in a transaction, logs cut anywhere, two rows to a
page; two visitors and calls that cost more than a window's units, patterns that
overlap and hold each other.

*DemoService.* Two callers, two attempts, one backoff, one lost answer, one
refreshed detail. `SlowFetch = FALSE` says that the lease outlasts confirming and
fetching. *ServiceWiring.* One slip of a deployment at a time, at each bound of
the policy and one beyond; a second signal of one kind ends the process.

Where a cfg says `CHECK_DEADLOCK FALSE` the model ends: inputs have been
enumerated, or all requests, handlers or presses have been used up and time is
at its bound. `SplitBurn` and the indexer of `indexer_burst` never stop and are
checked.

### Fairness

`MCProgress!MCSpec` states weak fairness of the deadline of each request (a timer
of the runtime), of the interval of a page, of the end of each request of a page
(every `fetch` there ends, one way or the other, and nothing is assumed about
which), and of each indexer run's progress (the cron trigger keeps firing and RPC
calls time out; failures are finitely many). None of them favours a particular
answer. `BuildEnds` needs no fairness: it says that every step lowers a rank.

## Proofs

Every theorem holds for all values of the constants that satisfy the named
assumptions, and so removes the bounds of the runs.

*Arithmetic_proofs.* First the division (`SplitMath`): `ShareIsFloor` (the
quotient-and-remainder form equals the floor of the product), `LegsSum` (the legs
add up) and `FinalLegFair` (the last leg is between its share and one unit more per
earlier leg), from division facts and a case split on the number of legs. They
assume a positive whole. Then the floors and the amounts, for every reserve, price,
fee, tier table, bin, cap and weight vector.
- The loops are recursive functions whose values the library's induction theorems
  cannot give: they take an operator. `LeastNatural` (a set of naturals that is not
  empty has a least member, from the well-founded order) takes the place of
  induction, and `LoopExists` builds the sequence of states of a loop, so that the
  recursive function is it.
- `TiersAgree` (the program's binary search and the two scans), `MulQ64IsExact` and
  `ReciprocalIsExact` (words of any size), `PriceIsExact` (the powers, by strong
  induction on the exponent: the loop that squares and the one that multiplies keep
  the same product), `MirrorIsProgram` (the service's floor), `FallbackIsStrictest`
  and `CurvePaysFloor`.
- `CapTotalFits`: the page lowers a total until it clears each cap and gives up
  after eight corrections; two are enough, since the first one leaves each leg
  within its roundings. `MaxBurnAlwaysFits` follows for every balance.
- `InputsAssumption` gives the enumerated inputs their types: figures are
  unsigned, a table is sorted, a vector adds up.

*SplitBurn_proofs.* The burn, for any number of legs from one to four, any
weights that add up, any call set, any route with any number of touches and any
floor function.
- `TypeCorrect`. Balances could become negative in `FundWsol` and `VenueSwap`;
  the strengthening says that a running transaction has an admitted call and
  that during a CPI the vault or the WSOL account holds the leg's amount.
- `VaultStaysIntact` and `VaultStaysRentExempt`. The property speaks about idle
  states only, so the invariant carries it through a transaction: `entry` is
  intact (a failure restores it), what no route was handed is as in `entry`
  (what the sweep does not inspect did not change), the planned remainder is
  zero or exempt, and idle means `ledger = entry`. The commit then follows from
  the sweep's checks.
- `BurnAlwaysCoversFloor`. The invariant says that every minimum of a running
  call is at least the floor of the entry market, that the balance a leg
  measures from equals the entry balance (the 6042 check), and that every
  finished leg burned both together.
- `BurnSpendsExactly` and `BurnLosesNothing`. `KeptInv` adds that the vault's rent
  is out of the routes' reach, that a token account which no route was handed
  holds what it held, and that between legs the WSOL account is whole again; the
  sweep then accounts for the rest. `LegsSum` closes the argument about the total.
- `DonationsBlockNothing`. `Undisturbed` says what a transaction is like while no
  route has changed an account beyond the venue's own swap: the vault's lamports are
  those of the entry less the inputs of the finished legs plus what their routes
  closed, an accumulator is closed exactly if a finished Jupiter leg held it, a
  finished leg's account is empty and every other one as it was. So the checks before
  a leg all hold (`LegChecksHold`), those after it lack at most the minimum
  (`PostChecksLack`), and the sweep finds what it expects (`SweepChecksHold`) unless
  two legs disagree on an accumulator. Nothing is assumed about what lay in the
  vault's accounts before.

*Services_proofs.* Of `ConfigAdmission`: `CommittedVaultNeverStranded`, `LaunchEndsBurnable` and
`CopiesAlwaysTellTruth` (with its halves `ClientAlwaysTellsTruth` and
`ServiceAlwaysTellsTruth`), from one inductive invariant: mints are well formed,
the accounts of the legs exist from the first transaction on, and after the
commitment each leg's mint is admitted, its account the vault's, and its
reference authentic. The middle part is what lets `LaunchSecond`, which creates
nothing, conclude that no account is pending. Assumed of the world
(`AdmissionConstants`): only Token-2022 mints have extensions, and the hook of
$PUMP has the deployed authority and no program, which the code states as its
reason for the exception (`token.rs`). The module also has the invariants of
`Discovery`, `Resolving`, `ReadPool`, `EdgeWorker`, `UploadPipeline`,
`ServiceWiring` and `Lookups` that the theorems about the platform rest on.

*BurnService_proofs.* `OneTransactionPerVault`, `IdSubmittedOnce` and
`EveryLeaseEnds`, for any number of requests, vaults and ids. `LeaseInv` ties the
three stores of the server together: a request that works holds its vault's lease
(`WorkersHold`), what was sent is among the submitted ids (`SentIsKnown`) and had
a known blockhash (`HashKnown`), a hold outlasts that blockhash
(`HoldsOutlast`), and while a transaction is outstanding its request holds the
lease (`OutstandingHolds`), alone (`OnlySender`). The first two theorems need the
relay's answer to be believable (`~Ambiguous`): after a lost answer the lease is
given back and the id was not recorded, which is what `burn_ambiguous` shows.
`EveryLeaseEnds` holds either way.

*MetadataGate_proofs.* `WritesStayBounded`, `ReceiptsStayHonest`, `RowsStaySound`
and `ReceiptsStayStable`, for any number of handlers, clients, requests and any
durations. `GateInv` has ten parts; the ones beyond the properties are that a
handler between its grant and the end of its lease is the owner of the lease row
(`Leased`), that a window's count is the number of grants in it
(`WindowCounts`), and who owns a job and who paid for it (`JobOwned`, `JobPaid`,
`ReceiptKept`).

*Progress_proofs.* Of the indexer: `NoBurnForgotten` and `HeadNeverReturns`, for any number
of overlapping runs, any page size and any set of failed transactions. `IndexInv`
says of every run what it has read, listed and stored (`RunSound`), that the head
it would commit is younger than the one it read, and that nothing between its
cursors is missing. `NoBurnForgotten` assumes `MaxBacklog <= PAGE * MAX_PAGES`,
the rate the code counts on; `indexer_burst` shows that it must.
`HeadNeverReturns` needs no such assumption.

Of the transports: `TransportsRouteAlike`, `LimitsStayHonest` and
`AnswersAreFinal`, for any finite set of requests, any request lines and limits.
`HttpInv` says which slots, answers and counters each step of a request has
(`RequestSound`), that the rate windows are windows of the clock
(`WindowsSound`), that paid uploads of the node server are within their limit, and
that a lease is held by an upload of the Worker that was granted it while no other
stood (`GateSound`).

*Messages_proofs.* The two ends of a burn instruction, for any number of legs and
any bytes and accounts in the routes. `SumsAdd` and `SumsGrow` say what a sum along
a sequence is, `Flattens` where each part of a flattened sequence lies, and
`CountingUp` is induction on a set of numbers. From them: the fields of the data
start where the program looks for them (`DataLaidOut`, `LegReads`), so that the
specs it decodes leg by leg are the legs that were written (`DecodeReads`), and the
slice of accounts that it hands to a route is that route's (`AccountsLaidOut`).
`MessageInv` says that a signature is of the message that was built. `RoutesAlike` and
`UntouchedIsTaken` compare the two sides' checks of a route account by account and
field by field.

And of `CommunityReads`, for logs of any number of calls. What was read of a log
up to a line does not depend on the lines after it (`ReadingGoes`), so the lines of
a burn tell its record and its legs wherever they lie in the log (`BurnRead`,
`CallRead`), groups without a burn fall out (`KeptGoes`), and a log that was cut tells
the first calls whole and nothing of the others (`CutTells`). The rows decoded from it
are the burns that were made (`RowsTellAmounts`), each with a key of its own
(`RowsInOrder`), and batches of them hold every row (`BatchesPart`). The pages of a
summary, each beginning where the last ended, are a walk along the rows in their order
that misses none while rows arrive in between (`PageReads`, `WalkReads`).

*Platform_proofs.* Parts of the platform, over `MCSpec` itself, for any values of
their constants; the lemma `PartsMove` takes a step of the composition to a step
of the part or a stutter of it.
- `TripsAlwaysHold`. `TripInv` says of each trip which transaction is prepared,
  signed and sent at each of its stages, and that what was relayed is what was
  signed. `TripConstants` says that a preparation has the shape of a transaction.
- `LaunchesAlwaysKept`. `LaunchInv` says that a plan that has accounts and fee
  share has them in this order, that the metadata exists before the creation is
  sent, what each transaction in flight was sent after, that a vault has one
  saved record, and that a remembered table is complete.
- `VerdictsAreFinal`. `SendInv` says that a sender who asks for the last time does
  so beyond the last valid height.
- `BuildsAlwaysSound`, `RefusalsAreTruthful` and `BuildsAlwaysEnd`. `BuildInv` says
  what the pipeline has checked at each of its stages: while the chain stood still,
  the floors it read are the program's, and the vault and the targets it admitted
  still are admitted; a refused vault is then one that the program refuses with and
  without the rent of its accumulators, or one with dust that the rent makes up. In a
  measured transaction no minimum is below its floor and no
  excluded leg goes through Pump, the legs refused for their cashback are excluded,
  and the rungs tried are those from the start of the ladder to the current one. The
  rank that falls counts the attempts left, then the rungs and stages. The proofs
  need amounts, rates and weights to be unsigned and the legs of a request to be one
  array (`BuildConstants`); nothing is assumed of what Jupiter or a simulation answers.
- `BurnsAlwaysBuiltRight` joins `BuildsAlwaysSound`, which is about burns being built,
  with what *Messages_proofs* says of messages and routes.
- `CommunityAlwaysHolds`. `CommunityInv` says that the stored rows and the batches
  still to come are all rows, that the pages read so far are a walk over the rows that
  were there when the question was asked and those that came since, and what the board
  has ranked and counted at each of its stages. The proof needs positive page and batch
  sizes, and that finalized burns were admitted, with one transaction for a signature
  (`ReadsConstants`).
- `AmountsAlwaysHold` and `FloorsAlwaysHold` read off the input at hand what
  *Arithmetic_proofs* says of every input.
- `DemoHonestAlways` and `DemoAlwaysHolds`. `DemoInv` says of each caller what has
  become of each of its attempts at each of its stages (`SendsOK`), what was set up
  before and which addresses the table still lacks (`SetupOK`), which routes it has
  excluded and, without `SlowFetch`, that it holds the lease while a transaction of
  its is outstanding (`LeaseOK`). `DemoHonest` holds of any leases,
  lost answers and retries; that a vault has one transaction outstanding needs a lease
  that outlasts confirming and fetching (`~SlowFetch`), and three callers break it
  without.
- `UploadsAlwaysHold`. `UploadInv` says what a request has paid for at each of its
  stages: nothing before its image is stored, and after that exactly the image, with
  an address that the delivery accepts; so no later refusal is for what the service
  made itself.
- `WiringAlwaysHolds`. `WiringInv` says that every wiring was made of the environment
  at hand and passed its checks, that nobody is connected before the server listens,
  that it drains only when told to, that the signals of different kinds are at most
  the signals, and that an isolate's verdicts are those of its one promise.
  `WiringConstants` says that what an environment gives as a number is one, or is
  read as missing or malformed.
- `PagesAlwaysTrue`, from three invariants. `LookupInv`: one client of a key is
  fetching, those who wait have one to wait for, a key is kept once, and a page that
  asks a source itself keeps a miss only if the whole answer was read. The other
  caches have no such part in it, and `cached_miss` shows why. `DeskInv`: a claim is verified for this
  vault from its second reading on, and a claim that does not sweep the pool was built
  while the pool had no fees but those that arrived since. `ChoiceInv`: a market that
  is shown is the one that the session knows of its mint, the run that asks has heard
  of the mints that it no longer asks for, and what was pressed is the address of its
  legs, each at the market that is known. A verdict of the session never changes, so
  this outlives the form (`PressesStay`); the text of a link reads back as its legs
  (`ParamsReadBack`). `ChoiceConstants` says that what a form holds instead of a mint
  is none, and that the service gives no seed to a market that the program derives.

- `ReferencesAlwaysTrue`, from three invariants of *Services_proofs*, about
  `Discovery`, `Resolving` and `ReadPool`, for any markets, requests, changes of
  the chain and workers. `DiscoveryInv` says which venues a scan has read at each of
  its steps, that it has one row for a pool, and that a row whose locked depth passed
  the gate is still `Backed`: what nobody can withdraw of the pool is worth the gate.
  `ShareStays` is the arithmetic of it: a withdrawal rounds in favour of who stays. The
  ranking compares by a total order (`DeeperOrders`, `LockedOrders`), so that its best
  candidate exists (`FiniteGreatest`, by the well-founded order of finite subsets) and
  is beaten by none (`RankedIsFirst`). `DiscoveryConstants` says that amounts are
  unsigned and the gate is positive. `ResolvingInv` ties what a resolution has read to
  the chain it began on, which moves one way (`ChainMoved`). `ReadsInv` says that every
  address up to the cursor has its row or one worker at it.
- `EdgeAlwaysHolds`, for any number of requests, any patterns and bodies, and chunks
  cut anywhere. `RelayInv` says that what was sent and what is kept back together are
  the body as far as it came (`ToldSoFar`), without a whole pattern in it, and that
  enough is kept back for a pattern that has all but its last symbol; `RelayGoesOn` is
  the step: a pattern that ends among the new symbols starts in the window that is
  redacted now. `VisitOk` says what a request has paid at each of its stages and what
  a batch still owes. `EdgeConstants` says that patterns are not empty, that a batch of
  acceptable calls costs a positive number (a fold over the calls, so TLC evaluates
  it), and that the mark written over the endpoint is no symbol of a pattern: an
  endpoint with an asterisk of its own is left out.

The lemmas `AdmissionMeans`, `LegMeans`, `PostMeans` and `SweepMeans` of
`SplitBurn` read single facts out of the lists of checks.

## Only model-checked

- Liveness (`Answered`, `Settles`, `EventuallyIndexed`): outside the prover's
  reach. Every other property of a passing run is a theorem.

## Not modelled, and limits

- A route account that is closed and opened again under another mint within one
  transaction; the order in which the sweep visits accounts (it only decides
  which of several errors is returned).
- A curve leg and a later Jupiter leg that list the same Pump accumulator have
  opposite contracts and can never commit; `Contested` names the case. Nor can a
  call whose route lists an account that was given to the vault with a delegate.
- Pump's curve and Jupiter are environment; so are the token programs and the
  runtime beyond what the program calls. Wallet transactions see one node and no
  forks.
- Lamports sent to the address of an accumulator before it is opened: accumulators
  come into being with a balance of their own (`OpenAccum`).
- An upload that waits for the gate has no deadline in the code before its execution
  starts; `Answered` speaks of requests whose handler runs.
- An image write that succeeded before a failed metadata write is paid again on
  a retry: the code does not claim otherwise, and the models do not count it.
- The in-memory lease store is lost on restart. `settle` frees a vault whoever
  holds it; the model calls it as its comment demands, for the caller's own
  burn and within its own hold.
- Of several defects of a configuration the validator and the burn may report
  different ones: the validator admits and prices leg by leg, the burn prices all
  legs first. `ConfigAdmission` says whether they accept, not with which code.
- A reference pool of another venue is taken to persist; a venue that closes or
  disables it makes the vault wait for ever, and the address commits to it.
  `NeverStranded` is about what the program and the mints decide.
- The program's entry point and error table, the operator scripts and runbooks
  (apart from the demo service), and the generated worker types.

## Plan

1. Restarts of the in-memory lease store, and the lease service over HTTP.
