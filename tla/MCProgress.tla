----------------------------- MODULE MCProgress -----------------------------
(* What must go on, for TLC: answers to requests, displays of pages and the  *)
(* index.  The parts share no state, so a behaviour runs one of them.        *)
EXTENDS Transport, PageLoads, CommunityIndexer

CONSTANTS
  x, y,      \* requests, subjects
  r1, r2,    \* runs of the indexer
  Parts      \* the parts to run

VARIABLE part

-----------------------------------------------------------------------------
(* Requests *)

Line(method, path) ==
  [method |-> method, path |-> path, origin |-> "allowed", mint |-> TRUE, json |-> TRUE,
   bearer |-> TRUE, ip |-> "p"]

Paths ==
  {"/healthz", "/health", "/readyz", "/reference/markets", "/reference/resolve", "/other",
   "/burn", "/burn/prepare", "/burn/submit", "/burn/other"} \cup WorkerOnly \cup {"/metadata/upload"}

\* Every route for one request; the handlers that run for the others.
MCLines ==
  {Line(m, p) : m \in {"GET", "POST", "OPTIONS"}, p \in Paths}
    \cup {[Line("POST", "/metadata/upload") EXCEPT !.ip = "q"],
          [Line("POST", "/metadata/upload") EXCEPT !.origin = "none"],
          [Line("OPTIONS", "/metadata/upload") EXCEPT !.origin = "none"],
          [Line("POST", "/burn") EXCEPT !.bearer = FALSE],
          [Line("POST", "/burn") EXCEPT !.json = FALSE],
          [Line("GET", "/reference/markets") EXCEPT !.mint = FALSE]}

MCSetups ==
  {[host |-> h, burn |-> TRUE, oneShot |-> o, callerPaid |-> TRUE, reference |-> TRUE,
    upload |-> TRUE, bearer |-> FALSE] : h \in {"node", "worker"}, o \in BOOLEAN}
    \cup {[host |-> "node", burn |-> FALSE, oneShot |-> TRUE, callerPaid |-> FALSE,
           reference |-> FALSE, upload |-> FALSE, bearer |-> TRUE]}

-----------------------------------------------------------------------------

allVars == <<part, httpVars, pageVars, vars>>

\* A part that does not run starts in one of its initial states and stays there.
MCInit ==
  /\ part \in Parts
  /\ HttpInit /\ (part = "http" \/ setup = CHOOSE s \in Setups : TRUE)
  /\ PageInit /\ (part = "pages" \/ (effect = Health /\ subject = x))
  /\ IF part = "index" THEN Init
     ELSE /\ chain = 0 /\ rows = {} /\ head = 0 /\ backfill = 0 /\ done = FALSE
          /\ run = [r \in Runs |-> Idle] /\ failures = 0

\* One part runs and all others rest.
At(p) ==
  /\ part = p /\ part' = p
  /\ IF p = "http" THEN TRUE ELSE UNCHANGED httpVars
  /\ IF p = "pages" THEN TRUE ELSE UNCHANGED pageVars
  /\ IF p = "index" THEN TRUE ELSE UNCHANGED vars

MCNext ==
  \/ At("http") /\ HttpNext
  \/ At("pages") /\ PageNext
  \/ At("index") /\ Next

\* Response deadlines and intervals are timers of the runtime, every request of
\* a page ends, and the schedule keeps invoking the indexer.
MCSpec ==
  /\ MCInit /\ [][MCNext]_allVars
  /\ \A k \in Calls : WF_allVars(At("http") /\ Deadline(k))
  /\ WF_allVars(At("pages") /\ Poll)
  /\ \A q \in MayAsk : WF_allVars(At("pages") /\ (Succeeds(q) \/ Fails(q) \/ Skips(q)))
  /\ \A r \in Runs : WF_allVars(At("index") /\ Progress(r))

=============================================================================
