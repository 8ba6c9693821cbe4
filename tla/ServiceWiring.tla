--------------------------- MODULE ServiceWiring ---------------------------
(***************************************************************************)
(* How the quote service comes up, serves and goes away: main of the node  *)
(* server with its signals and its exit (quote-service/server.ts), and the *)
(* Worker that initializes itself under its first request and keeps the    *)
(* promise (quote-service/worker.ts).  Both build the wiring from the      *)
(* environment they are given and let QuoteService check the policy        *)
(* (core.ts).  What a handler does is in the other modules; here a call    *)
(* only is in progress, answered or cut off.                               *)
(***************************************************************************)
EXTENDS Integers, Sequences, FiniteSets

CONSTANTS
  Givens,       \* environments a deployment may have
  Calls,        \* requests of callers
  UNITS_LOW, UNITS_HIGH,   \* 200_000 and 1_400_000 compute units
  TTL_LOW,      \* 180_000 ms
  RETRIES_HIGH, \* 5
  IMPACT_HIGH,  \* BPS_TOTAL, for price impact and slippage
  PumpVenues,   \* JUPITER_PUMP_VENUES
  PoolVenues,   \* POOL_ONLY_FORK_DEXES
  MaxLosses     \* bound: isolates discarded and deployments corrected

\* What an environment says of numbers is read as integers, or as Unset or Junk.
ASSUME WiringConstants ==
  /\ {UNITS_LOW, UNITS_HIGH, RETRIES_HIGH} \subseteq Nat /\ UNITS_HIGH > UNITS_LOW /\ TTL_LOW \in Nat \ {0}
  /\ IMPACT_HIGH \in Nat \ {0} /\ ~ (PoolVenues \subseteq PumpVenues) /\ MaxLosses \in Nat
  /\ \A e \in Givens :
       {e.amount, e.slippage, e.impact, e.units, e.heights, e.ttl, e.retries, e.body, e.deadline} \subseteq Int

VARIABLES
  given,  \* the environment
  proc,   \* the node process
  iso,    \* the isolate of the Worker
  call    \* the requests

wiringVars == <<given, proc, iso, call>>

Unset == -1   \* a variable that is missing or empty
Junk == -2    \* one that is not a number
Bad == -3     \* reading it throws
None == "none"

-----------------------------------------------------------------------------
(* The environment *)

\* positiveInteger and nonNegativeInteger.
Positive(raw, fallback) ==
  IF raw = Unset /\ fallback # Unset THEN fallback ELSE IF raw > 0 THEN raw ELSE Bad
NonNegative(raw, fallback) ==
  IF raw = Unset THEN fallback ELSE IF raw >= 0 THEN raw ELSE Bad

\* BigInt of the cap; a fork has one by default.
CapOf(raw, fallback) ==
  IF raw = Unset THEN (IF fallback = Unset THEN Bad ELSE fallback) ELSE IF raw = Junk THEN Bad ELSE raw

Defaults(fork) ==
  IF fork THEN [amount |-> 200, slippage |-> 2, impact |-> 2] ELSE [amount |-> Unset, slippage |-> Unset, impact |-> Unset]

\* A retry budget that is not set stays out of the policy.
PolicyOf(e, production) ==
  LET d == Defaults(~ production)
  IN  [production |-> production,
       amount |-> CapOf(e.amount, d.amount),
       slippage |-> Positive(e.slippage, d.slippage),
       impact |-> Positive(e.impact, d.impact),
       units |-> Positive(e.units, UNITS_HIGH),
       heights |-> Positive(e.heights, 50),
       ttl |-> Positive(e.ttl, TTL_LOW),
       retries |-> IF e.retries = Unset THEN Unset ELSE NonNegative(e.retries, 2)]

ReadsWhole(p) == Bad \notin {p.amount, p.slippage, p.impact, p.units, p.heights, p.ttl, p.retries}

\* The constructor of QuoteService throws on any other policy.
Accepted(p) ==
  /\ p.units > UNITS_LOW /\ p.units <= UNITS_HIGH
  /\ p.slippage > 0 /\ p.slippage < IMPACT_HIGH
  /\ p.amount > 0
  /\ p.impact >= 0 /\ p.impact <= IMPACT_HIGH
  /\ p.ttl >= TTL_LOW
  /\ p.retries = Unset \/ p.retries \in 0 .. RETRIES_HIGH

OriginsExact(e) == e.origins # "path"

-----------------------------------------------------------------------------
(* Wirings *)

\* Production is paid for by its callers: it has no key, no one-shot burn, and
\* speaks to an RPC over TLS only.
ProductionWiring(e) ==
  [mode |-> "production", rpc |-> e.rpc, payer |-> FALSE, oneShot |-> FALSE,
   policy |-> PolicyOf(e, TRUE), dexes |-> {}]
ProductionStands(e) == e.rpc = "https" /\ ReadsWhole(PolicyOf(e, TRUE)) /\ Accepted(PolicyOf(e, TRUE))

\* A fork signs with a local key, and only for a local RPC.
ForkRpc(e) == IF e.rpc = None THEN "local" ELSE e.rpc
ForkWiring(e) ==
  [mode |-> "fork-e2e", rpc |-> ForkRpc(e), payer |-> TRUE, oneShot |-> TRUE,
   policy |-> PolicyOf(e, FALSE), dexes |-> IF e.dexes = {} THEN PoolVenues ELSE e.dexes]
ForkStands(e) ==
  ForkRpc(e) = "local" /\ e.keypair /\ ReadsWhole(PolicyOf(e, FALSE)) /\ Accepted(PolicyOf(e, FALSE))

\* The venues a build may route through.  A fork asks for its profile without
\* what the service excludes; the HTTP client leaves an empty list out.
Everywhere == PumpVenues \cup PoolVenues
VenuesOf(w, excluded) ==
  IF w.mode = "production" THEN Everywhere \ excluded
  ELSE IF w.dexes \ excluded = {} THEN Everywhere ELSE w.dexes \ excluded

\* The limits the node server takes from its environment, and the Worker's own:
\* body bytes, deadlines, concurrency and the uploads per hour.
NodeLimits(e) ==
  [body |-> Positive(e.body, 16384), deadline |-> Positive(e.deadline, 150000), reference |-> 15000 + 1000,
   burns |-> 8, uploads |-> 1, perIp |-> 3, perHour |-> 30, window |-> 60 * 60 * 1000]
WorkerLimits ==
  [body |-> 16384, deadline |-> 150000, reference |-> 16000,
   burns |-> 8, uploads |-> 1, perIp |-> 3, perHour |-> 30, window |-> 60 * 60 * 1000]
LimitsRead(e) == Bad \notin {NodeLimits(e).body, NodeLimits(e).deadline}

\* Paid uploads need all three secrets and explicit origins, and their account
\* must answer while the service starts.
UploadsWanted(e) == e.uploads
UploadsStart(e, account) == ~ UploadsWanted(e) \/ (e.origins = "exact" /\ account)

-----------------------------------------------------------------------------

Unwired == [mode |-> None]

WiringInit ==
  /\ given \in Givens
  /\ proc = [stage |-> IF given.host = "node" THEN "booting" ELSE "absent", wiring |-> Unwired, heard |-> {},
             awaited |-> {}, waits |-> "nothing", signals |-> 0, code |-> -1]
  /\ iso = [promise |-> None, wiring |-> Unwired, starts |-> 0, lost |-> 0, verdicts |-> {}]
  /\ call = [c \in Calls |-> [at |-> "new", connected |-> TRUE]]

Becomes(c, s) == call' = [call EXCEPT ![c].at = s]
InState(c, s) == call[c].at = s

-----------------------------------------------------------------------------
(* The node process *)

\* An error of main is caught in node-main.ts.
Exits(n) == proc' = [proc EXCEPT !.stage = "exited", !.code = n]

\* The origins, the mode and the wiring, up to the first await.
WireUp ==
  /\ proc.stage = "booting" /\ proc.wiring = Unwired
  /\ LET stands == OriginsExact(given) /\ CASE given.mode = "production" -> ProductionStands(given)
                                            [] given.mode = "fork-e2e" -> ForkStands(given)
                                            [] OTHER -> FALSE
     IN  IF ~ stands THEN Exits(1)
         ELSE proc' = [proc EXCEPT !.wiring = IF given.mode = "production" THEN ProductionWiring(given)
                                              ELSE ForkWiring(given)]
  /\ UNCHANGED <<given, iso, call>>

\* The uploads are ready or not; the server listens and takes the signals.
Listen(account) ==
  /\ proc.stage = "booting" /\ proc.wiring # Unwired
  /\ IF UploadsStart(given, account) /\ LimitsRead(given)
       THEN proc' = [proc EXCEPT !.stage = "listening"] ELSE Exits(1)
  /\ UNCHANGED <<given, iso, call>>

NodeTakes(c) ==
  /\ InState(c, "new") /\ proc.stage \in {"listening", "draining"}
  /\ Becomes(c, IF proc.stage = "listening" THEN "reading" ELSE "refused")
  /\ UNCHANGED <<given, proc, iso>>

\* The body is there: the work starts, also of a server that drains by now.
Begins(c) ==
  /\ InState(c, "reading") /\ proc.stage \in {"listening", "draining"}
  /\ Becomes(c, "working")
  /\ UNCHANGED <<given, proc, iso>>

Ended(c) ==
  /\ InState(c, "working") /\ proc.stage \in {"listening", "draining"}
  /\ Becomes(c, "answered")
  /\ UNCHANGED <<given, proc, iso>>

\* The client leaves or has the answer of the deadline; the work goes on.
Drops(c) ==
  /\ call[c].at \in {"reading", "working"} /\ call[c].connected /\ proc.stage \in {"listening", "draining"}
  /\ call' = [call EXCEPT ![c] = IF @.at = "reading" THEN [at |-> "refused", connected |-> FALSE]
                                 ELSE [@ EXCEPT !.connected = FALSE]]
  /\ UNCHANGED <<given, proc, iso>>

InFlight == {c \in Calls : InState(c, "working")}
Connected == {c \in Calls : call[c].at \in {"reading", "working"} /\ call[c].connected}

\* Both handlers of a signal run once: the server's starts the drain, main's
\* waits for it and exits.  A signal no handler is left for ends the process.
Signal(s) ==
  /\ proc.stage \in {"booting", "listening", "draining"}
  /\ LET first == proc.stage = "listening"
         noted == [proc EXCEPT !.heard = @ \cup {s}, !.signals = @ + 1]
     IN  IF proc.stage = "booting" \/ s \in proc.heard
           THEN proc' = [noted EXCEPT !.stage = "killed"]
           ELSE proc' = [noted EXCEPT !.stage = "draining", !.awaited = IF first THEN InFlight ELSE @,
                                      !.waits = IF first THEN "work" ELSE @]
  /\ UNCHANGED <<given, iso, call>>

\* The burns of the snapshot have settled, or shutdownGraceMs is over.
Settled(forced) ==
  /\ proc.stage = "draining" /\ proc.waits = "work" /\ (forced \/ proc.awaited \cap InFlight = {})
  /\ proc' = [proc EXCEPT !.waits = "connections"]
  /\ UNCHANGED <<given, iso, call>>

\* close() calls back once no connection is left.  A server that closes no
\* longer listens, so closeAllConnections is never reached.
FaultyLeaves ==
  /\ proc.stage = "draining" /\ proc.waits = "connections"
  /\ Exits(0)
  /\ UNCHANGED <<given, iso, call>>
Leaves ==
  /\ proc.stage = "draining" /\ proc.waits = "connections" /\ Connected = {}
  /\ Exits(0)
  /\ UNCHANGED <<given, iso, call>>

\* An exception or a rejection nobody handles.
Crashes ==
  /\ proc.stage \in {"booting", "listening", "draining"}
  /\ Exits(1)
  /\ UNCHANGED <<given, iso, call>>

-----------------------------------------------------------------------------
(* The Worker *)

\* initialize up to its await: the bindings and the production wiring.
Initializes(e) == OriginsExact(e) /\ ProductionStands(e) /\ e.bindings

\* The first request of an isolate starts the initialization, all wait for it.
IsolateTakes(c) ==
  /\ given.host = "isolate" /\ InState(c, "new")
  /\ Becomes(c, "waiting")
  /\ iso' = IF iso.promise # None THEN iso
            ELSE [iso EXCEPT !.starts = @ + 1,
                             !.promise = IF Initializes(given) THEN "pending" ELSE "rejected",
                             !.wiring = IF Initializes(given) THEN ProductionWiring(given) ELSE @]
  /\ UNCHANGED <<given, proc>>

Initialized(account) ==
  /\ iso.promise = "pending"
  /\ iso' = [iso EXCEPT !.promise = IF UploadsStart(given, account) THEN "kept" ELSE "rejected"]
  /\ UNCHANGED <<given, proc, call>>

\* The handler answers, or the fixed 503.
Served(c) ==
  /\ InState(c, "waiting") /\ iso.promise \in {"kept", "rejected"}
  /\ LET verdict == IF iso.promise = "kept" THEN "answered" ELSE "unavailable"
     IN  Becomes(c, verdict) /\ iso' = [iso EXCEPT !.verdicts = @ \cup {verdict}]
  /\ UNCHANGED <<given, proc>>

\* The isolate is discarded, perhaps for another deployment; the next request
\* starts a new one.
Discarded(e) ==
  /\ given.host = "isolate" /\ e.host = "isolate" /\ iso.promise # None /\ iso.lost < MaxLosses
  /\ given' = e
  /\ iso' = [promise |-> None, wiring |-> Unwired, starts |-> 0, lost |-> iso.lost + 1, verdicts |-> {}]
  /\ call' = [c \in Calls |-> IF InState(c, "waiting") THEN [call[c] EXCEPT !.at = "cut"] ELSE call[c]]
  /\ UNCHANGED proc

-----------------------------------------------------------------------------

NodeStep ==
  \/ WireUp \/ \E account \in BOOLEAN : Listen(account)
  \/ \E c \in Calls : NodeTakes(c) \/ Begins(c) \/ Ended(c) \/ Drops(c)
  \/ \E s \in {"SIGTERM", "SIGINT"} : Signal(s)
  \/ \E forced \in BOOLEAN : Settled(forced)
  \/ Leaves \/ Crashes

IsolateStep ==
  \/ \E c \in Calls : IsolateTakes(c) \/ Served(c)
  \/ \E account \in BOOLEAN : Initialized(account)
  \/ \E e \in Givens : Discarded(e)

WiringNext == NodeStep \/ IsolateStep

-----------------------------------------------------------------------------
(* Properties *)

Running == {w \in {proc.wiring, iso.wiring} : w # Unwired}

\* A process that has begun to serve has a policy within its bounds, whatever
\* its environment says; a key is used for a local RPC only and one-shot burns
\* for nothing else.
RunsWithinPolicy ==
  \A w \in Running :
    /\ w.policy.units \in UNITS_LOW + 1 .. UNITS_HIGH /\ w.policy.slippage \in 1 .. IMPACT_HIGH - 1
    /\ w.policy.amount > 0 /\ w.policy.impact \in 0 .. IMPACT_HIGH
    /\ w.policy.ttl >= TTL_LOW /\ w.policy.retries \in {Unset} \cup 0 .. RETRIES_HIGH
    /\ w.payer <=> w.rpc = "local"
    /\ w.oneShot => w.payer
    /\ w.policy.production <=> w.rpc = "https"

\* A venue the service excluded is not routed through, if the profile of the
\* fork holds another one.
ExclusionHolds ==
  \A w \in Running :
    VenuesOf(w, PumpVenues) \cap PumpVenues = {} \/ (w.mode = "fork-e2e" /\ w.dexes \subseteq PumpVenues)

\* Node and Worker serve with the same limits where the environment says
\* nothing else.
LimitsAgree == given.body = Unset /\ given.deadline = Unset => NodeLimits(given) = WorkerLimits

\* An isolate initializes once, and all its requests share the verdict.
OneVerdict == iso.starts <= 1 /\ Cardinality(iso.verdicts) <= 1

\* A process that exits with 0 was told to, and leaves no request unanswered
\* whose client is still there; one signal of each kind kills no request.
LeavesClean ==
  /\ proc.code = 0 => Connected = {} /\ proc.heard # {}
  /\ proc.stage = "killed" /\ Connected # {} => proc.signals > Cardinality(proc.heard)

\* Starting, serving and leaving are sound.
WiringSound == RunsWithinPolicy /\ ExclusionHolds /\ LimitsAgree /\ OneVerdict /\ LeavesClean

=============================================================================
