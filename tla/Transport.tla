----------------------------- MODULE Transport -----------------------------
(***************************************************************************)
(* The HTTP boundary of the quote service, in its two forms: the Node      *)
(* server (quote-service/server.ts) and the Worker's fetch handler         *)
(* (fetch-handler.ts).  A request is routed, passes checks before its body *)
(* is read and others after, runs, and is answered by its result or by the *)
(* deadline, whichever is first; what has started is never aborted.        *)
(* Statuses and handlers are named by strings.  What the burn pipeline and *)
(* the paid upload do inside is in BurnService, BurnBuild and MetadataGate.*)
(***************************************************************************)
EXTENDS Integers, Sequences, FiniteSets, FiniteSetsExt

CONSTANTS
  Calls,        \* requests under way
  Lines,        \* [method, path, origin, mint, json, bearer, ip]
  Setups,       \* which options the wiring configured
  MaxBurns,     \* maxInflightBurns
  MaxUploads,   \* maxInflightMetadataUploads
  PerIp,        \* metadataUploadRateLimitPerIp
  Global,       \* metadataUploadGlobalRateLimit
  RateWindow,   \* metadataUploadRateWindowMs
  MaxClock      \* bound: time

ASSUME TransportConstants ==
  /\ {MaxBurns, MaxUploads, PerIp, Global, RateWindow} \subseteq Nat \ {0} /\ MaxClock \in Nat
  /\ IsFiniteSet(Calls)

VARIABLES
  setup,     \* [host, burn, oneShot, callerPaid, reference, upload, bearer]
  call,      \* each request: [step, line, handler, answer, live, lease]; live is
             \* history: its handler has started and not ended; lease: the gate's
             \* lease of it stands
  draining,
  rates,     \* windows of the upload limits: client or "all" -> [since, count]
  clock

httpVars == <<setup, call, draining, rates, clock>>

-----------------------------------------------------------------------------
(* Routing *)

\* An exact configured origin.
UploadOriginAllowed(l) == l.origin = "allowed"

Metadata(p) == p \in {"/metadata/upload", "/metadata/finalize", "/metadata/image/prepare"}
Burn(p)     == p \in {"/burn", "/burn/prepare", "/burn/submit", "/burn/other"}

\* Reference lookups ask for a mint first.
ReferenceRoute(l) ==
  CASE ~ setup.reference -> "404"
    [] setup.reference /\ ~ l.mint -> "400"
    [] OTHER -> IF l.path = "/reference/markets" THEN "markets" ELSE "resolve"

FaultyNodeBurnRoute(l) ==
  CASE l.path = "/burn" /\ ~ setup.oneShot -> "410"
    [] l.path \in {"/burn/prepare", "/burn/submit"} /\ setup.callerPaid ->
         IF l.method = "POST" THEN "operation" ELSE "405"
    [] OTHER -> IF l.path # "/burn" THEN "404" ELSE IF l.method = "POST" THEN "operation" ELSE "405"

\* The server's /burn* routes.
NodeBurnRoute(l) ==
  CASE ~ setup.burn -> "503"
    [] setup.burn /\ l.path = "/burn" /\ ~ setup.oneShot -> "410"
    [] setup.burn /\ l.path \in {"/burn/prepare", "/burn/submit"} /\ setup.callerPaid ->
         IF l.method = "POST" THEN "operation" ELSE "405"
    [] OTHER -> IF l.path # "/burn" THEN "404" ELSE IF l.method = "POST" THEN "operation" ELSE "405"

\* createBurnServer's request listener
NodeRoute(l) ==
  CASE l.method = "OPTIONS" ->
         IF l.path = "/metadata/upload" /\ ~ UploadOriginAllowed(l) THEN "403" ELSE "204"
    [] l.method = "GET" /\ l.path = "/healthz" -> "200"
    [] l.method = "GET" /\ l.path \in {"/health", "/readyz"} -> "probe"
    [] l.method = "GET" /\ l.path \in {"/reference/resolve", "/reference/markets"} -> ReferenceRoute(l)
    [] l.method # "OPTIONS" /\ l.path = "/metadata/upload" ->
         IF l.method = "POST" THEN "upload" ELSE "405"
    [] l.method # "OPTIONS" /\ Burn(l.path) -> NodeBurnRoute(l)
    [] OTHER -> "404"

\* The worker looks the action up first, then the method.
WorkerBurnRoute(l) ==
  LET action == CASE l.path \in {"/burn/prepare", "/burn/submit"} -> setup.callerPaid
                  [] OTHER -> l.path = "/burn"
  IN  IF ~ setup.burn THEN "503"
      ELSE IF l.path = "/burn" /\ ~ setup.oneShot THEN "410"
      ELSE IF ~ action THEN "404"
      ELSE IF l.method # "POST" THEN "405" ELSE "operation"

\* createBurnFetchHandler's handler
WorkerRoute(l) ==
  CASE l.method = "OPTIONS" ->
         IF Metadata(l.path) /\ ~ UploadOriginAllowed(l) THEN "403" ELSE "204"
    [] l.method = "GET" /\ l.path = "/healthz" -> "200"
    [] l.method = "GET" /\ l.path \in {"/health", "/readyz"} -> "probe"
    [] l.method = "GET" /\ l.path \in {"/token", "/token/search", "/token/image"} -> "token"
    [] l.method = "GET" /\ l.path \in {"/reference/resolve", "/reference/markets"} -> ReferenceRoute(l)
    [] l.method # "OPTIONS" /\ Metadata(l.path) ->
         IF l.method # "POST" THEN "405"
         ELSE IF l.path = "/metadata/image/prepare" THEN "image" ELSE "upload"
    [] l.method # "OPTIONS" /\ Burn(l.path) -> WorkerBurnRoute(l)
    [] OTHER -> "404"

Route(l) == IF setup.host = "node" THEN NodeRoute(l) ELSE WorkerRoute(l)

Handlers == {"probe", "token", "markets", "resolve", "upload", "image", "operation"}

-----------------------------------------------------------------------------
(* Load *)

\* What is tracked in inflight: burns and uploads until they settle.  The
\* handler of an image holds only the upload counter.
Inflight == {c \in Calls : call[c].step = "running" /\ call[c].handler \in {"operation", "upload"}}

Uploads == {c \in Calls : call[c].step = "running" /\ call[c].handler \in {"upload", "image"}}

\* handleMetadataUpload's and handleMetadataImagePrepare's SERVER_BUSY.
UploadBusy == Cardinality(Inflight) >= MaxBurns \/ Cardinality(Uploads) >= MaxUploads

\* The first check that refuses, or "".
FirstRefusal(checks) ==
  LET bad == {i \in DOMAIN checks : checks[i][1]}
  IN  IF bad = {} THEN "" ELSE checks[Min(bad)][2]

\* What is checked before the body is read.
EarlyRefusal(h, l) ==
  CASE h = "operation" ->
         FirstRefusal(<< <<draining, "503">>,
                         <<setup.bearer /\ ~ l.bearer, "401">>,
                         <<Cardinality(Inflight) >= MaxBurns, "429">>,
                         <<~ l.json, "415">> >>)
    [] h \in {"upload", "image"} ->
         FirstRefusal(<< <<draining, "503">>,
                         <<~ setup.upload, "503">>,
                         <<~ UploadOriginAllowed(l), "403">>,
                         <<UploadBusy, "429">>,
                         <<~ l.json, "415">> >>)
    [] OTHER -> ""

\* policyErrorStatus
PolicyErrorStatus(code) ==
  CASE code \in {"VAULT_BUSY", "DUPLICATE_REQUEST", "PREPARATION_STATE"} -> "409"
    [] code = "PREPARATION_NOT_FOUND" -> "404"
    [] code = "PREPARATION_EXPIRED" -> "410"
    [] code = "EXTERNAL_SIMULATION_FAILURE" -> "502"
    [] OTHER -> "400"

PolicyCodes == {"VAULT_BUSY", "EXTERNAL_SIMULATION_FAILURE", "SIMULATION_FAILED"}

\* The statuses with which a handler that has started can end.
Results(h) ==
  CASE h = "operation" -> {"200", "500"} \cup {PolicyErrorStatus(k) : k \in PolicyCodes}
    [] h = "upload"    -> {"200", "502", "503"}
    [] h = "image"     -> {"200", "415", "502"}
    [] h = "markets"   -> {"200", "400", "500", "503"}
    [] h = "resolve"   -> {"200", "422", "503"}
    [] h = "probe"     -> {"200", "503"}
    [] OTHER           -> {"200", "404"}

-----------------------------------------------------------------------------
(* The node server's own upload limits: fixed windows for each client and    *)
(* for all of them.                                                          *)

Windowed(k, t) ==
  IF k \in DOMAIN rates /\ t - rates[k].since < RateWindow THEN rates[k] ELSE [since |-> t, count |-> 0]

FullWindows(ip, t) ==
  {k \in {ip, "all"} : Windowed(k, t).count >= (IF k = "all" THEN Global ELSE PerIp)}

\* The announced wait: until the last of the full windows ends.
RetryAfter(ip, t) == Max({Windowed(k, t).since + RateWindow : k \in FullWindows(ip, t)}) - t

\* A granted upload is counted in both windows.
Counted(ip, t) ==
  [k \in DOMAIN rates \cup {ip, "all"} |->
     IF k \in {ip, "all"} THEN [Windowed(k, t) EXCEPT !.count = @ + 1] ELSE rates[k]]

\* A refused one leaves the global window restarted if it was over.
Restarted(t) ==
  [k \in DOMAIN rates \cup {"all"} |-> IF k = "all" THEN Windowed("all", t) ELSE rates[k]]

-----------------------------------------------------------------------------
(* Steps *)

NoLine == [method |-> "", path |-> "", origin |-> "", mint |-> FALSE, json |-> FALSE,
           bearer |-> FALSE, ip |-> ""]

HttpInit ==
  /\ setup \in Setups
  /\ call = [c \in Calls |-> [step |-> "new", line |-> NoLine, handler |-> "", answer |-> "", live |-> FALSE,
                            lease |-> FALSE]]
  /\ draining = FALSE /\ rates = <<>> /\ clock = 0

Answer(c, status) == call' = [call EXCEPT ![c].step = "over", ![c].line = NoLine, ![c].answer = status]

\* A request arrives and is routed; bodies are read only by some handlers.
Arrive(c, l) ==
  LET h == Route(l)
      refusal == IF h \in Handlers THEN EarlyRefusal(h, l) ELSE h
      next == IF refusal # "" THEN "over"
              ELSE IF h \in {"operation", "upload", "image"} THEN "reading" ELSE "running"
  IN  /\ call[c].step = "new"
      /\ call' = [call EXCEPT ![c] =
           [step |-> next, line |-> IF refusal = "" THEN l ELSE NoLine, handler |-> h, answer |-> refusal,
            live |-> next = "running", lease |-> FALSE]]
      /\ UNCHANGED <<setup, draining, rates, clock>>

FaultyBusyAfterBody(h) == FALSE

\* Uploads look at the load again after their body has arrived, and not again
\* after the gate has answered; burns and images do not.
BusyAfterBody(h) == h = "upload" /\ UploadBusy

\* The node server counts uploads here, in one step with the start.
Limited(c) ==
  setup.host = "node" /\ call[c].handler = "upload" /\ FullWindows(call[c].line.ip, clock) # {}

\* The worker asks its gate, and waits.
Gated(c) == setup.host = "worker" /\ call[c].handler = "upload"

\* The body has arrived: too large, not JSON or not a request, busy by now,
\* over the limit, waiting for the gate, or the handler starts.
Body(c, refusal) ==
  /\ call[c].step = "reading"
  /\ IF refusal # "" THEN Answer(c, refusal) /\ UNCHANGED rates
     ELSE IF BusyAfterBody(call[c].handler) THEN Answer(c, "429") /\ UNCHANGED rates
     ELSE IF Limited(c) THEN Answer(c, "429") /\ rates' = Restarted(clock)
     ELSE IF Gated(c) THEN call' = [call EXCEPT ![c].step = "gating"] /\ UNCHANGED rates
     ELSE /\ call' = [call EXCEPT ![c].step = "running", ![c].live = TRUE]
          /\ rates' = IF setup.host = "node" /\ call[c].handler = "upload"
                        THEN Counted(call[c].line.ip, clock) ELSE rates
  /\ UNCHANGED <<setup, draining, clock>>

\* What the gate answers instead of a lease: the receipt of an earlier upload;
\* processing or a conflict; busy or over a rate; out of reach.
GateAnswers == {"200", "409", "429", "503"}

\* The gate answers, a round trip after the counter was looked at: the upload
\* is over, or it is granted a lease if none stands and starts, whatever else
\* this isolate runs by now.
Gate(c, answer) ==
  /\ call[c].step = "gating"
  /\ IF answer # "" THEN Answer(c, answer)
     ELSE /\ \A d \in Calls : ~ call[d].lease
          /\ call' = [call EXCEPT ![c].step = "running", ![c].live = TRUE, ![c].lease = TRUE]
  /\ UNCHANGED <<setup, draining, rates, clock>>

\* A lease ends: by its receipt or its failure while the handler settles, by
\* its release after that, or by its expiry at any time.
LeaseEnds(c) ==
  /\ call[c].lease /\ call' = [call EXCEPT ![c].lease = FALSE]
  /\ UNCHANGED <<setup, draining, rates, clock>>

FaultyLookupDeadline(c) ==
  /\ call[c].step = "running" /\ call[c].answer = "" /\ call[c].handler = "operation"
  /\ call' = [call EXCEPT ![c].answer = "504"]
  /\ UNCHANGED <<setup, draining, rates, clock>>

\* The response deadline: the handler goes on (waitUntil on the worker).
\* Reference lookups have a deadline of their own and hold nothing.
Deadline(c) ==
  /\ call[c].step = "running" /\ call[c].answer = ""
  /\ call[c].handler \in {"operation", "upload", "markets", "resolve"}
  /\ call' = [call EXCEPT ![c].answer = "504",
                          ![c].step = IF call[c].handler \in {"markets", "resolve"} THEN "over" ELSE @]
  /\ UNCHANGED <<setup, draining, rates, clock>>

FaultySettle(c, status) ==
  /\ call[c].step = "running"
  /\ call' = [call EXCEPT ![c].step = "over", ![c].live = FALSE, ![c].answer = status]
  /\ UNCHANGED <<setup, draining, rates, clock>>

\* The handler ends; its slot is freed, and it is answered unless the deadline
\* did so.
Settle(c, status) ==
  /\ call[c].step = "running"
  /\ call' = [call EXCEPT ![c].step = "over", ![c].live = FALSE, ![c].line = NoLine,
                          ![c].answer = IF @ = "" THEN status ELSE @]
  /\ UNCHANGED <<setup, draining, rates, clock>>

\* The node server starts to drain.
Drain ==
  /\ setup.host = "node" /\ ~ draining /\ draining' = TRUE
  /\ UNCHANGED <<setup, call, rates, clock>>

Time == clock < MaxClock /\ clock' = clock + 1 /\ UNCHANGED <<setup, call, draining, rates>>

BodyRefusals == {"", "400", "413"}

HttpNext ==
  \/ \E c \in Calls :
       \/ \E l \in Lines : Arrive(c, l)
       \/ \E refusal \in BodyRefusals : Body(c, refusal)
       \/ \E answer \in {""} \cup GateAnswers : Gate(c, answer)
       \/ LeaseEnds(c)
       \/ Deadline(c)
       \/ call[c].step = "running" /\ \E status \in Results(call[c].handler) : Settle(c, status)
  \/ Drain \/ Time

HttpSpec == HttpInit /\ [][HttpNext]_httpVars

-----------------------------------------------------------------------------
(* Properties *)

WorkerOnly == {"/metadata/finalize", "/metadata/image/prepare", "/token", "/token/search", "/token/image"}

\* The two transports route alike: on the paths that both have, a request gets
\* the same status or handler from the server as from the worker.
RoutesAgree == \A l \in Lines : l.path \notin WorkerOnly => NodeRoute(l) = WorkerRoute(l)

\* The paid uploads that run.
Paid == {c \in Uploads : call[c].handler = "upload"}

\* The node server never runs more paid uploads at once than configured,
\* although bodies of many may arrive between the two looks at the counter.
\* On the worker uploads that wait for the gate pass the counter together, so
\* maxInflightMetadataUploads is no bound there: of two that run, the lease of
\* one has ended, by expiry or because its receipt is stored.
PaidUploadsBounded ==
  /\ setup.host = "node" => Cardinality(Paid) <= MaxUploads
  /\ setup.host = "worker" => \A c, d \in Paid : call[c].lease /\ call[d].lease => c = d

\* An answer is final: a handler that ends after its deadline does not answer
\* again.
AnswerFinal ==
  [][\A c \in Calls : call[c].answer # "" => call'[c].answer = call[c].answer]_httpVars

\* A burn or upload that runs holds a slot of the limit, also after its client
\* was answered by the deadline.
SlotHeld ==
  \A c \in Calls : call[c].live /\ call[c].handler \in {"operation", "upload"} => c \in Inflight

\* A client that waits as long as it was told is admitted, if nobody else was
\* granted an upload meanwhile.
RetryAfterHonest ==
  \A ip \in {l.ip : l \in Lines} :
    FullWindows(ip, clock) # {} => FullWindows(ip, clock + RetryAfter(ip, clock)) = {}

\* The limits hold while bodies arrive and deadlines pass, and what they say
\* to a refused client is true.
LimitsHonest == PaidUploadsBounded /\ SlotHeld /\ RetryAfterHonest

\* Whatever a burn, an upload or a lookup does, even if it never ends, its
\* client is answered.
Answered ==
  \A c \in Calls :
    (call[c].step = "running" /\ call[c].handler \in {"operation", "upload", "markets", "resolve"})
      ~> (call[c].answer # "")

=============================================================================
