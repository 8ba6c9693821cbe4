---------------------------- MODULE BurnService ----------------------------
(***************************************************************************)
(* The keeper path of the quote service: the HTTP server that admits burn  *)
(* requests and drains (quote-service/server.ts), the pipeline that turns  *)
(* one request into a signed transaction (QuoteService in core.ts) and the *)
(* lease that keeps a vault to one outstanding transaction                 *)
(* (InMemoryVaultLeaseStore).  Requests run concurrently and interleave at *)
(* every await.  What a build, a quote, a simulation or the relay answers  *)
(* is the environment's choice.  Time is counted in block heights.         *)
(***************************************************************************)
EXTENDS Integers, FiniteSets

CONSTANTS
  Reqs,          \* requests
  VaultOf,       \* the vault a request burns from
  IdOf,          \* its requestId
  MaxInflight,   \* maxInflightBurns
  RetryLimit,    \* policy.retryAttempts
  Caps,          \* number of rungs of the fitting ladder
  Life,          \* blocks for which a blockhash is valid
  MinRemaining,  \* policy.minRemainingBlockHeights
  Ttl,           \* policy.leaseTtlMs, in blocks
  Ambiguous,     \* whether the relay may take a transaction and still fail
  MaxTime        \* bound: block height

ASSUME ServiceConstants ==
  /\ MaxInflight \in Nat \ {0} /\ RetryLimit \in Nat /\ Caps \in Nat \ {0}
  /\ Life \in Nat /\ MinRemaining \in 0 .. Life /\ Ttl \in Nat /\ Ttl > Life
  /\ Ambiguous \in BOOLEAN /\ MaxTime \in Nat

Never == -1

VARIABLES
  now,
  phase,      \* where each request is
  job,        \* its locals: attempt, capStart, fit, cashback, hash, sent, timer
  inflight,   \* the server's set of running burns
  active,     \* vault -> the request whose lease holds it
  submitted,  \* submittedRequestIds
  drain       \* [state, awaited]

vars == <<now, phase, job, inflight, active, submitted, drain>>
server == <<active, submitted, drain>>

Vaults == {VaultOf[r] : r \in Reqs}

Fresh == [attempt |-> 0, capStart |-> 0, fit |-> 0, cashback |-> FALSE,
          hash |-> Never, sent |-> FALSE, landed |-> FALSE, timer |-> Never]

Init ==
  /\ now = 0
  /\ phase = [r \in Reqs |-> "new"]
  /\ job = [r \in Reqs |-> Fresh]
  /\ inflight = {} /\ active = <<>> /\ submitted = {}
  /\ drain = [state |-> "open", awaited |-> {}]

Goto(r, p)    == phase' = [phase EXCEPT ![r] = p]
Set(r, local) == job' = [job EXCEPT ![r] = local]

-----------------------------------------------------------------------------
(* The server *)

\* handleOperation up to the await on the body: draining and the limit are
\* looked at here, and not again.
Admit(r) ==
  /\ phase[r] = "new"
  /\ Goto(r, IF drain.state # "open" \/ Cardinality(inflight) >= MaxInflight
               THEN "refused" ELSE "reading")
  /\ UNCHANGED <<now, job, inflight>> /\ UNCHANGED server

\* The body is complete and parses, or does not.
Start(r, ok) ==
  /\ phase[r] = "reading"
  /\ Goto(r, IF ok THEN "resolve" ELSE "refused")
  /\ inflight' = IF ok THEN inflight \cup {r} ELSE inflight
  /\ UNCHANGED <<now, job>> /\ UNCHANGED server

Finish(r) == Goto(r, "done") /\ inflight' = inflight \ {r}

\* shutdown waits for the burns that are in flight when it is called, or for the
\* grace to pass, and then for the connections.
Shutdown ==
  /\ drain.state = "open"
  /\ drain' = [state |-> "draining", awaited |-> inflight]
  /\ UNCHANGED <<now, phase, job, inflight, active, submitted>>

Drained ==
  /\ drain.state = "draining" /\ drain.awaited \cap inflight = {}
  /\ drain' = [drain EXCEPT !.state = "drained"]
  /\ UNCHANGED <<now, phase, job, inflight, active, submitted>>

\* shutdownGraceMs has passed.
Forced ==
  /\ drain.state = "draining"
  /\ drain' = [drain EXCEPT !.state = "forced"]
  /\ UNCHANGED <<now, phase, job, inflight, active, submitted>>

\* The last connection has ended and shutdown reports what it saw.  A body that
\* is still arriving keeps its connection; a burn in flight need not: its client
\* may have left, or had the answer of the request's deadline.
Closed ==
  /\ drain.state \in {"drained", "forced"}
  /\ \A r \in Reqs : phase[r] # "reading"
  /\ drain' = [drain EXCEPT !.state = IF @ = "drained" THEN "clean" ELSE "cut"]
  /\ UNCHANGED <<now, phase, job, inflight, active, submitted>>

-----------------------------------------------------------------------------
(* The lease store *)

HolderOf(v) == IF v \in DOMAIN active THEN active[v] ELSE "nobody"

VaultBusy(v) == v \in DOMAIN active

FaultyDuplicateRequest(id) == FALSE

DuplicateRequest(id) == id \in submitted

Take(v, r) == [w \in DOMAIN active \cup {v} |-> IF w = v THEN r ELSE active[w]]
Free(v)    == [w \in DOMAIN active \ {v} |-> active[w]]

FaultyDeleteIfStillOurs(r) == Free(VaultOf[r])

\* deleteIfStillOurs: the token guards a lease that was taken since.
DeleteIfStillOurs(r) == IF HolderOf(VaultOf[r]) = r THEN Free(VaultOf[r]) ELSE active

\* lease-acquire: DUPLICATE_REQUEST, then VAULT_BUSY.
Acquire(r) ==
  /\ phase[r] = "lease"
  /\ IF DuplicateRequest(IdOf[r]) \/ VaultBusy(VaultOf[r])
       THEN Finish(r) /\ UNCHANGED active
       ELSE Goto(r, "admit") /\ active' = Take(VaultOf[r], r) /\ UNCHANGED inflight
  /\ UNCHANGED <<now, job, submitted, drain>>

FaultyReleaseFailed(r) ==
  /\ phase[r] = "failed"
  /\ Finish(r)
  /\ UNCHANGED <<now, job, active, submitted, drain>>

\* release("failed") and release("submitted") in execute's finally
ReleaseFailed(r) ==
  /\ phase[r] = "failed"
  /\ active' = DeleteIfStillOurs(r)
  /\ Finish(r)
  /\ UNCHANGED <<now, job, submitted, drain>>

ReleaseSubmitted(r) ==
  /\ phase[r] = "submitted"
  /\ submitted' = submitted \cup {IdOf[r]}
  /\ Set(r, [job[r] EXCEPT !.timer = now + Ttl])
  /\ Finish(r)
  /\ UNCHANGED <<now, active, drain>>

\* The hold after a submission runs out.
TtlTimer(r) ==
  /\ job[r].timer # Never /\ now >= job[r].timer
  /\ active' = DeleteIfStillOurs(r)
  /\ Set(r, [job[r] EXCEPT !.timer = Never])
  /\ UNCHANGED <<now, phase, inflight, submitted, drain>>

\* A submitted transaction that may still be executed.
Outstanding(r) == job[r].sent /\ ~ job[r].landed /\ now <= job[r].hash + Life

\* settle, by a runner that watched its own burn land or expire and calls it
\* before its hold has run out.  It frees the vault whoever holds it.
Settle(r) ==
  /\ phase[r] = "done" /\ job[r].timer > now /\ HolderOf(VaultOf[r]) = r
  /\ job[r].sent /\ ~ Outstanding(r)
  /\ active' = Free(VaultOf[r])
  /\ UNCHANGED <<now, phase, job, inflight, submitted, drain>>

-----------------------------------------------------------------------------
(* The pipeline of one request *)

\* resolveRequest: parsing, references and the refusals they decide, before
\* any lease.
Resolve(r, ok) ==
  /\ phase[r] = "resolve"
  /\ IF ok THEN Goto(r, "lease") /\ UNCHANGED inflight ELSE Finish(r)
  /\ UNCHANGED <<now, job>> /\ UNCHANGED server

Step(r, from, to) ==
  /\ phase[r] = from /\ Goto(r, to)
  /\ UNCHANGED <<now, inflight>> /\ UNCHANGED server

\* vault-admission, target-admission, lookup tables: any of them may refuse.
AdmitTargets(r, ok) == Step(r, "admit", IF ok THEN "quote" ELSE "failed") /\ UNCHANGED job

\* One walk of the ladder from capStart: fit is the first rung whose
\* transaction fits, Caps when none does or a leg is refused.  The blockhash is
\* the one of the fitting rung.
Quote(r, fit) ==
  /\ fit \in job[r].capStart .. Caps
  /\ Step(r, "quote", IF fit < Caps THEN "simulate" ELSE "failed")
  /\ Set(r, IF fit < Caps THEN [job[r] EXCEPT !.fit = fit, !.hash = now] ELSE job[r])

Outcomes == {"ok", "6018", "6021", "burner", "compute", "external"}

\* Whether a failed simulation is quoted again: a cashback refusal once, a
\* floor refusal, a narrower rung after compute exhaustion, and anything that
\* is not the burner's.
Retries(j, outcome) ==
  /\ j.attempt < RetryLimit
  /\ \/ outcome = "6018" /\ ~ j.cashback
     \/ outcome = "6021"
     \/ outcome = "compute" /\ j.fit + 1 < Caps
     \/ outcome = "external"

Simulate(r, outcome) ==
  LET j == job[r]
      retry == Retries(j, outcome)
  IN  /\ Step(r, "simulate", IF outcome = "ok" THEN "height"
                             ELSE IF retry THEN "quote" ELSE "failed")
      /\ Set(r, IF ~ retry THEN j
                ELSE [j EXCEPT !.attempt = IF @ <= RetryLimit THEN @ + 1 ELSE @,
                               !.cashback = @ \/ outcome = "6018",
                               !.capStart = IF outcome = "compute" THEN j.fit + 1 ELSE @])

LifetimeLeft(j) == j.hash + Life - now >= MinRemaining

\* BLOCKHASH_TOO_OLD after the simulation, and again after signing.
CheckHeight(r) ==
  Step(r, "height", IF LifetimeLeft(job[r]) THEN "sign" ELSE "failed") /\ UNCHANGED job

Sign(r, ok) == Step(r, "sign", IF ok THEN "signed" ELSE "failed") /\ UNCHANGED job

CheckSigned(r) ==
  Step(r, "signed", IF LifetimeLeft(job[r]) THEN "submit" ELSE "failed") /\ UNCHANGED job

\* The relay takes the transaction and says so, or does not; a connection cut
\* after it was taken looks like a failure.
Submit(r, taken, told) ==
  /\ told => taken
  /\ taken /\ ~ told => Ambiguous
  /\ Step(r, "submit", IF told THEN "submitted" ELSE "failed")
  /\ Set(r, [job[r] EXCEPT !.sent = taken])

\* The chain executes an outstanding transaction.
Land(r) ==
  /\ Outstanding(r)
  /\ Set(r, [job[r] EXCEPT !.landed = TRUE])
  /\ UNCHANGED <<now, phase, inflight, active, submitted, drain>>

Tick ==
  /\ now < MaxTime
  /\ now' = now + 1
  /\ UNCHANGED <<phase, job, inflight, active, submitted, drain>>

\* The steps of a request that its awaits eventually lead to.
Pipeline(r) ==
  \/ \E ok \in BOOLEAN : Resolve(r, ok) \/ AdmitTargets(r, ok) \/ Sign(r, ok)
  \/ \E fit \in 0 .. Caps : Quote(r, fit)
  \/ \E outcome \in Outcomes : Simulate(r, outcome)
  \/ \E taken, told \in BOOLEAN : Submit(r, taken, told)
  \/ Acquire(r) \/ CheckHeight(r) \/ CheckSigned(r) \/ ReleaseFailed(r) \/ ReleaseSubmitted(r)

Next ==
  \/ \E r \in Reqs :
       \/ Admit(r) \/ \E ok \in BOOLEAN : Start(r, ok)
       \/ Pipeline(r)
       \/ TtlTimer(r) \/ Settle(r) \/ Land(r)
  \/ Shutdown \/ Drained \/ Forced \/ Closed
  \/ Tick

Spec == Init /\ [][Next]_vars

-----------------------------------------------------------------------------
(* Properties *)

Phases == {"new", "reading", "refused", "resolve", "lease", "admit", "quote", "simulate",
           "height", "sign", "signed", "submit", "submitted", "failed", "done"}

\* Every variable has its type: a request is in flight from its start to its
\* end, never has more attempts than the budget allows, and only a request
\* that is past its lease holds a vault.
TypeOK ==
  /\ now \in 0 .. MaxTime
  /\ phase \in [Reqs -> Phases]
  /\ job \in [Reqs -> [attempt : 0 .. RetryLimit, capStart : 0 .. Caps, fit : 0 .. Caps,
                       cashback : BOOLEAN, hash : {Never} \cup 0 .. MaxTime,
                       sent : BOOLEAN, landed : BOOLEAN,
                       timer : {Never} \cup 0 .. MaxTime + Ttl]]
  /\ inflight = {r \in Reqs : phase[r] \notin {"new", "reading", "refused", "done"}}
  /\ DOMAIN active \subseteq Vaults
  /\ \A v \in DOMAIN active : /\ active[v] \in Reqs /\ VaultOf[active[v]] = v
                              /\ phase[active[v]] \notin {"new", "reading", "refused", "resolve", "lease"}
  /\ submitted \subseteq {IdOf[r] : r \in Reqs}
  /\ drain \in [state : {"open", "draining", "drained", "forced", "clean", "cut"}, awaited : SUBSET Reqs]

\* A vault has at most one transaction that the chain may still execute: the
\* lease holds it while one is prepared and until the last one has landed or
\* can no longer land.
OneOutstanding ==
  \A r, s \in Reqs : r # s /\ VaultOf[r] = VaultOf[s] => ~ (Outstanding(r) /\ Outstanding(s))

\* A requestId is submitted at most once for a vault, however often and
\* whenever it is sent again.
SubmittedOnce ==
  \A r, s \in Reqs :
     r # s /\ VaultOf[r] = VaultOf[s] /\ IdOf[r] = IdOf[s] => ~ (job[r].sent /\ job[s].sent)

\* No vault is blocked for good: whoever holds a lease is still at work, or
\* was submitted and has a timer that will free it.
HoldsEnd == \A v \in DOMAIN active : phase[active[v]] = "done" => job[active[v]].timer # Never

\* The lease map is sound: every entry has its type, belongs to a burn of its
\* own vault and is going to be removed.
LeasesSound == TypeOK /\ HoldsEnd

\* When shutdown reports that it has drained, no burn is in flight.
DrainFinishes == drain.state = "clean" => inflight = {}

=============================================================================
