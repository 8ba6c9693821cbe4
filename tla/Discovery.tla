------------------------------ MODULE Discovery ------------------------------
(***************************************************************************)
(* The choice of a reference pool for a mint: selectReference of           *)
(* quote-service/markets.ts with the ranking of candidates and the measure *)
(* of locked liquidity, one scan per mint at a time with a deadline and a  *)
(* memory of successes in front of it (createReferenceDiscovery), and the  *)
(* RPC readers of server.ts.  One mint; the chain moves between the reads  *)
(* of a scan.  The accounts of one phase are read at once.                 *)
(***************************************************************************)
EXTENDS Integers, FiniteSets, Sequences

CONSTANTS
  Askers,      \* requests for a selection
  Scenes,      \* chains in which a discovery begins
  DepthFloor,  \* MIN_REFERENCE_DEPTH_LAMPORTS
  MaxPulls     \* bound: changes of the chain

Amms         == {"v4", "cp"}
Concentrated == {"clmm", "dlmm"}
Diagnostic   == {"damm"}

\* The mint's Pump curve, whether its PumpSwap pool exists and a route probe is
\* configured; pools maps each pool, a number in the order of the addresses,
\* to its accounts.
Custody == [status : {"absent", "invalid", "verified"}, amount : Nat]
PoolAccounts ==
  [venue : Amms \cup Concentrated \cup Diagnostic, readable : BOOLEAN, authentic : BOOLEAN, lpMint : BOOLEAN,
   sol : Nat, token : Nat, opened : Nat, issued : Nat, supply : Nat, custody : [earn : Custody, incinerator : Custody]]
SceneType ==
  [curve : {"none", "live", "graduated"}, canonical : BOOLEAN, probe : BOOLEAN, pools : Seq(PoolAccounts)]

ASSUME DiscoveryConstants ==
  /\ DepthFloor \in Nat \ {0} /\ MaxPulls \in Nat
  /\ \A s \in Scenes : s \in SceneType

\* No pool opens later; 0 is unknown.
Tomorrow == 5

VARIABLES
  scene,   \* the chain
  pulls,   \* changes of it so far
  scan,    \* the scan under way
  memo,    \* the selection remembered: [told, row]
  asker    \* each request: [step, told, row, seen]; seen is history: the rows
           \* on which a mint was called unsupported

discoveryVars == <<scene, pulls, scan, memo, asker>>

\* The row of a candidate; its locked depth is -1 when none was measured.
NoRow == [pool |-> 0, venue |-> "none", depth |-> 0, opened |-> 0, locked |-> -1, floor |-> FALSE, rejected |-> FALSE]

NoScan == [step |-> "none", rows |-> {}, damm |-> {}]
NoMemo == [told |-> "none", row |-> NoRow]

Said(told, row) == [step |-> "done", told |-> told, row |-> row, seen |-> {}]

DiscoveryInit ==
  /\ scene \in Scenes /\ pulls = 0 /\ scan = NoScan /\ memo = NoMemo
  /\ asker = [q \in Askers |-> [Said("none", NoRow) EXCEPT !.step = "idle"]]

-----------------------------------------------------------------------------
(* Locked liquidity *)

\* The canonical custody accounts of a venue.  Only an account that passed
\* every check counts.
CustodyAccounts(w) == IF w.venue = "cp" THEN {"earn", "incinerator"} ELSE {"incinerator"}

FaultyVerified(w, k) == w.custody[k].status # "absent"
Verified(w, k)       == w.custody[k].status = "verified"

InCustody(w) ==
  LET Of(k) == IF k \in CustodyAccounts(w) /\ Verified(w, k) THEN w.custody[k].amount ELSE 0
  IN  Of("earn") + Of("incinerator")

NonWithdrawable(w) == (w.issued - w.supply) + InCustody(w)

\* measurePoolLocking reaches a measure.
Measurable(w) ==
  /\ w.venue \in Amms /\ w.lpMint /\ w.issued > 0 /\ w.supply <= w.issued
  /\ NonWithdrawable(w) <= w.issued

LockedDepth(w) == IF Measurable(w) THEN (w.sol * NonWithdrawable(w)) \div w.issued ELSE -1

\* Only position venues tell when they opened, and only a plausible time is one.
OpenTime(w) == IF w.venue \in Concentrated /\ w.opened <= Tomorrow THEN w.opened ELSE 0

\* A candidate from the accounts of its pool; what cannot be parsed keeps the
\* defaults.  The program's depth gate reads the SOL side only, the row both.
RowOf(n, w) ==
  IF ~w.readable THEN [NoRow EXCEPT !.pool = n, !.venue = w.venue]
  ELSE [pool |-> n, venue |-> w.venue, depth |-> w.sol, opened |-> OpenTime(w), locked |-> LockedDepth(w),
        floor |-> w.sol >= DepthFloor /\ w.token > 0, rejected |-> w.venue = "damm"]

Enumerated(venues) == {RowOf(n, scene.pools[n]) : n \in {m \in DOMAIN scene.pools : scene.pools[m].venue \in venues}}

-----------------------------------------------------------------------------
(* Ranking *)

VenueOrder(v) == CASE v = "v4" -> 0 [] v = "cp" -> 1 [] v = "clmm" -> 2 [] OTHER -> 3

\* An unknown age (0) is younger than any known one.
Older(p, q) == p.opened # 0 /\ (q.opened = 0 \/ p.opened < q.opened)

DeeperFirst(p, q) ==
  \/ p.depth > q.depth
  \/ /\ p.depth = q.depth
     /\ \/ Older(p, q)
        \/ /\ p.opened = q.opened
           /\ \/ VenueOrder(p.venue) < VenueOrder(q.venue)
              \/ p.venue = q.venue /\ p.pool < q.pool

LockedFirst(p, q) == p.locked > q.locked \/ (p.locked = q.locked /\ DeeperFirst(p, q))

Eligible(r)  == r.floor /\ ~r.rejected
Durable(r)   == Eligible(r) /\ r.venue \in Amms /\ r.locked >= DepthFloor

RankCandidates(rows) ==
  LET durable == {r \in rows : Durable(r)}
      position == {r \in rows : Eligible(r) /\ r.venue \in Concentrated}
  IN  IF durable # {} THEN CHOOSE r \in durable : \A q \in durable \ {r} : LockedFirst(r, q)
      ELSE IF position # {} THEN CHOOSE r \in position : \A q \in position \ {r} : DeeperFirst(r, q)
      ELSE NoRow

-----------------------------------------------------------------------------
(* One scan at a time *)

Waiting == {q \in Askers : asker[q].step = "waiting"}

Answer(told, row) ==
  LET said == [Said(told, row) EXCEPT !.seen = IF told = "unsupported" THEN scan.rows ELSE {}]
  IN  asker' = [q \in Askers |-> IF q \in Waiting THEN said ELSE asker[q]]

\* The scan ends with a selection: one that chose is remembered.
Selected(told, row) ==
  /\ Answer(told, row)
  /\ memo' = IF row # NoRow THEN [told |-> told, row |-> row] ELSE memo
  /\ scan' = NoScan /\ UNCHANGED <<scene, pulls>>

\* It ends with an error, which becomes a retryable one.
ScanFails ==
  /\ Answer("retry", NoRow) /\ scan' = NoScan /\ UNCHANGED <<scene, pulls, memo>>

Goes(step) == scan' = [scan EXCEPT !.step = step] /\ UNCHANGED <<scene, pulls, memo, asker>>

\* A request takes what is remembered, joins the scan or starts one.
Ask(q) ==
  /\ asker[q].step = "idle"
  /\ IF memo # NoMemo
       THEN asker' = [asker EXCEPT ![q] = Said(memo.told, memo.row)] /\ UNCHANGED scan
       ELSE /\ asker' = [asker EXCEPT ![q].step = "waiting"]
            /\ scan' = IF scan = NoScan THEN [NoScan EXCEPT !.step = "curve"] ELSE scan
  /\ UNCHANGED <<scene, pulls, memo>>

\* The deadline settles the request; the scan it leaves behind ends unheard.
DiscoveryDeadline == scan # NoScan /\ ScanFails

MemoExpires == memo # NoMemo /\ memo' = NoMemo /\ UNCHANGED <<scene, pulls, scan, asker>>

-----------------------------------------------------------------------------
(* The scan.  ok: the RPC call succeeded within its three attempts; a failure *)
(* is a ReferenceDiscoveryError and ends the scan unless it is caught.        *)

ScanCurve(ok) ==
  /\ scan.step = "curve"
  /\ IF ~ok THEN ScanFails
     ELSE Goes(CASE scene.curve = "live" -> "pump"
                 [] scene.curve = "graduated" /\ scene.canonical -> "pump"
                 [] scene.curve = "graduated" /\ ~scene.canonical /\ scene.probe -> "hint"
                 [] OTHER -> "damm")

\* resolvePumpVenue reads the curve again; a graduate without its pool is
\* REFERENCE_MIGRATING.
PumpResolves == scene.curve = "live" \/ scene.canonical

ScanPump(ok) ==
  /\ scan.step = "pump"
  /\ IF ok /\ PumpResolves
       THEN Selected("chosen", [NoRow EXCEPT !.venue = "pump", !.floor = TRUE])
       ELSE ScanFails

\* resolveReference does not look at the depth.
Authenticates(n) ==
  LET w == scene.pools[n] IN w.readable /\ w.venue # "damm" /\ w.authentic /\ w.sol > 0 /\ w.token > 0

\* resolveCandidate
Candidate(n) == [RowOf(n, scene.pools[n]) EXCEPT !.floor = scene.pools[n].sol >= DepthFloor]

\* Jupiter's route for the probe: its pools [pool, share, direct], of which one
\* may carry no key (0); none when the quota is spent or the quote fails.
RouteHop   == [pool : {0} \cup DOMAIN scene.pools, share : {1, 2}, direct : BOOLEAN]
RouteProbe == UNION {[1..n -> RouteHop] : n \in 0..2}

FaultyMainPool(route) == IF route = <<>> THEN 0 ELSE route[1].pool

\* candidateFromRoutePlan: of a route of one hop the pool with the largest
\* share, the first of equals; 0 of any other route.
MainPool(route) ==
  LET Leads(k) == \A j \in DOMAIN route : route[j].share < route[k].share \/ (route[j].share = route[k].share /\ k <= j)
  IN  IF route = <<>> \/ \E k \in DOMAIN route : ~route[k].direct THEN 0
      ELSE route[CHOOSE k \in DOMAIN route : Leads(k)].pool

\* isConclusiveLockedAmm
Conclusive(r) == Durable(r) /\ r.locked > 0

\* The main pool of the route: taken when it is locked beyond doubt, and
\* of no weight otherwise, even when RPC fails.
ScanHint(route, ok) ==
  /\ scan.step = "hint"
  /\ LET n == MainPool(route)
     IN  IF ok /\ n # 0 /\ Authenticates(n) /\ Conclusive(Candidate(n))
           THEN Selected("hinted", Candidate(n))
           ELSE Goes("damm")

\* Detection only: a failure is ignored.
ScanDamm(ok) ==
  /\ scan.step = "damm"
  /\ scan' = [scan EXCEPT !.step = "amm", !.damm = IF ok THEN Enumerated(Diagnostic) ELSE {}]
  /\ UNCHANGED <<scene, pulls, memo, asker>>

\* A pool that the program cannot price was found and nothing better.
UnsupportedDamm == Selected("damm", NoRow)

\* A phase of the enumeration.  A failure is told as the unsupported venue
\* when one was found.
ScanVenues(from, venues, next, ok) ==
  /\ scan.step = from
  /\ IF ok THEN /\ scan' = [scan EXCEPT !.step = next, !.rows = @ \cup Enumerated(venues)]
                /\ UNCHANGED <<scene, pulls, memo, asker>>
     ELSE IF scan.damm # {} THEN UnsupportedDamm
     ELSE ScanFails

ScanAmms(ok)         == ScanVenues("amm", Amms, "pickAmm", ok)
ScanConcentrated(ok) == ScanVenues("position", Concentrated, "pickAny", ok)

\* The best row is authenticated; one that is refused is out, and the next is
\* tried.
Authenticate(r, ok) ==
  IF ~ok THEN ScanFails
  ELSE IF Authenticates(r.pool) THEN Selected("chosen", r)
  ELSE /\ scan' = [scan EXCEPT !.rows = (@ \ {r}) \cup {[r EXCEPT !.rejected = TRUE]}]
       /\ UNCHANGED <<scene, pulls, memo, asker>>

PickAmm(ok) ==
  /\ scan.step = "pickAmm"
  /\ LET r == RankCandidates(scan.rows)
     IN  IF r = NoRow THEN Goes("position") ELSE Authenticate(r, ok)

PickAny(ok) ==
  /\ scan.step = "pickAny"
  /\ LET r == RankCandidates(scan.rows)
     IN  IF r # NoRow THEN Authenticate(r, ok)
         ELSE IF scan.damm # {} THEN UnsupportedDamm
         ELSE Selected("unsupported", NoRow)

\* GET /reference/resolve with a pool: no scan and no memory.
ResolveExplicit(q, n, ok) ==
  /\ asker[q].step = "idle" /\ n \in DOMAIN scene.pools
  /\ asker' = [asker EXCEPT ![q] = IF ok /\ Authenticates(n) THEN Said("explicit", Candidate(n))
                                     ELSE Said("failed", NoRow)]
  /\ UNCHANGED <<scene, pulls, scan, memo>>

-----------------------------------------------------------------------------
(* The chain *)

Pulled == pulls < MaxPulls /\ pulls' = pulls + 1 /\ UNCHANGED <<scan, memo, asker>>

\* LP tokens in an account that nobody can move them from.
Stuck(w) ==
  LET Of(k) == IF w.custody[k].status = "verified" THEN w.custody[k].amount ELSE 0
  IN  Of("earn") + Of("incinerator")

\* Holders withdraw liquidity.
Withdraw(n, lp) ==
  LET w == scene.pools[n]
  IN  /\ Pulled /\ w.venue \in Amms /\ lp <= w.supply - Stuck(w) /\ lp <= w.issued
      /\ scene' = [scene EXCEPT !.pools[n] = [w EXCEPT !.issued = @ - lp, !.supply = @ - lp,
                                                        !.sol = @ - (@ * lp) \div w.issued]]

\* A position is closed.
ClosePosition(n) ==
  /\ Pulled /\ scene.pools[n].venue \in Concentrated /\ scene.pools[n].sol > 0
  /\ scene' = [scene EXCEPT !.pools[n].sol = @ \div 2]

\* The curve completes, and Pump's migrator makes the pool later.
CompleteCurve == Pulled /\ scene.curve = "live" /\ scene' = [scene EXCEPT !.curve = "graduated"]
MigratePool   == Pulled /\ scene.curve = "graduated" /\ ~scene.canonical /\ scene' = [scene EXCEPT !.canonical = TRUE]

DiscoveryNext ==
  \/ \E q \in Askers : Ask(q) \/ \E n \in DOMAIN scene.pools, ok \in BOOLEAN : ResolveExplicit(q, n, ok)
  \/ DiscoveryDeadline \/ MemoExpires
  \/ \E ok \in BOOLEAN :
       \/ ScanCurve(ok) \/ ScanPump(ok) \/ ScanDamm(ok) \/ ScanAmms(ok) \/ ScanConcentrated(ok)
       \/ PickAmm(ok) \/ PickAny(ok)
       \/ \E route \in RouteProbe : ScanHint(route, ok)
  \/ \E n \in DOMAIN scene.pools : ClosePosition(n) \/ \E lp \in 1..scene.pools[n].supply : Withdraw(n, lp)
  \/ CompleteCurve \/ MigratePool

-----------------------------------------------------------------------------
(* Properties *)

Answered(q)  == asker[q].told \in {"chosen", "hinted"}
Pools(venues) == {n \in DOMAIN scene.pools : scene.pools[n].venue \in venues}

\* "A fungible-LP AMM is eligible to win only when its independently proven
\* burned/custodied depth itself clears 50 SOL": whatever the holders of LP
\* tokens withdraw, a vault bound to the chosen AMM stays over the gate.
LockedDepthStays ==
  \A q \in Askers :
    Answered(q) /\ asker[q].row.venue \in Amms => scene.pools[asker[q].row.pool].sol >= DepthFloor

\* The documented rule for two markets.
Beats(q, r) ==
  /\ Eligible(q)
  /\ IF Durable(r) THEN Durable(q) /\ q.locked > r.locked
     ELSE Durable(q) \/ (q.venue \in Concentrated /\ (q.depth > r.depth \/ (q.depth = r.depth /\ Older(q, r))))

\* Although the AMMs are ranked before the position markets have been looked
\* for, no market of the chain beats the one about to be chosen, and an AMM
\* without locked depth is never it.
ChosenIsBest ==
  scan.step \in {"pickAmm", "pickAny"} =>
    LET r == RankCandidates(scan.rows)
        others == {q \in scan.rows : ~q.rejected} \cup
                    (IF scan.step = "pickAmm" THEN Enumerated(Concentrated) ELSE {})
    IN  r # NoRow => (\A q \in others : ~Beats(q, r)) /\ (r.venue \in Amms => Durable(r))

\* "Transient RPC weather cannot brand a mint unsupported": who is told so
\* is told after every market was read, and each was ineligible or refused.
UnsupportedIsEvidence ==
  \A q \in Askers :
    asker[q].told = "unsupported" =>
      /\ {r.pool : r \in asker[q].seen} = Pools(Amms \cup Concentrated)
      /\ RankCandidates(asker[q].seen) = NoRow

\* A mint with a live curve is never bound to a market, nor one without a
\* curve to Pump's venue.
PumpFirst ==
  \A q \in Askers :
    Answered(q) => IF asker[q].row.pool = 0 THEN scene.curve # "none" ELSE scene.curve # "live"

\* Only successes are remembered, and nobody waits without a scan.
MemoryAndFlight ==
  /\ memo # NoMemo => memo.told \in {"chosen", "hinted"} /\ memo.row # NoRow
  /\ Waiting # {} <=> scan # NoScan

\* What a discovery answers is evidence, the best there is, and lasts.
DiscoverySound ==
  LockedDepthStays /\ ChosenIsBest /\ UnsupportedIsEvidence /\ PumpFirst /\ MemoryAndFlight

=============================================================================
