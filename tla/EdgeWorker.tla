------------------------------ MODULE EdgeWorker ------------------------------
(***************************************************************************)
(* The Worker in front of the site (app/worker.ts): who may use /rpc and   *)
(* /api, what a call costs and when it is charged, which calls are         *)
(* forwarded, and the RPC provider's answer, relayed chunk by chunk with   *)
(* the configured endpoint taken out.  A body is a sequence of symbols and *)
(* the endpoint's patterns are sequences among them.                       *)
(***************************************************************************)
EXTENDS Integers, SequencesExt, FiniteSetsExt

CONSTANTS
  Visitors,      \* requests under way, all of one client address
  Visits,        \* what they ask, [host, path, method, origin, site, large, calls]; no
                 \* calls stand for a body that is not JSON and for an empty batch
  Deployments,   \* [limiter, rpc, service : BOOLEAN]
  UNITS,         \* what the limiter grants an address in a window
  MAX_UNITS,     \* MAX_RPC_UNITS_PER_REQUEST
  MAX_CALLS,     \* MAX_BATCH_CALLS
  Costs,         \* RPC_METHOD_UNITS with 1 for other methods, by method
  Patterns,      \* the patterns of the endpoint (rpcSecretPatterns)
  Bodies,        \* the provider's bodies
  MaxWindows     \* bound: windows of the limiter

VARIABLES
  deployment,
  left,       \* units left of a window, by limiter
  windows,
  visit,      \* every request
  relay       \* the provider's body on its way to a visitor; one at a time

edgeVars == <<deployment, left, windows, visit, relay>>

Star == 0

-----------------------------------------------------------------------------
(* Admission *)

\* isAllowedOrigin
AllowedOrigin(q) ==
  IF q.origin = "none"
  THEN q.method \in {"GET", "HEAD"} /\ q.site \in {"none", "same-origin"}
  ELSE q.origin \in {"self", "localhost"}

\* One scan of pools: one size and at least one key among two to four
\* filters, of a known venue, without data.
BoundedScan(call) ==
  /\ call.venue /\ ~ call.sliced
  /\ call.sizes + call.keys \in 2 .. 4 /\ call.sizes = 1 /\ call.keys >= 1

\* rejectReason of every call: one that is not allowed rejects the batch.
Acceptable(calls) ==
  \A i \in DOMAIN calls :
    calls[i].method \in DOMAIN Costs /\ (calls[i].method = "getProgramAccounts" => BoundedScan(calls[i].scan))

Cost(calls) == FoldLeft(LAMBDA n, call : n + Costs[call.method], 0, calls)

\* What handleRpc answers before it charges for the calls; "none" if it goes on.
RpcRefusal(q) ==
  IF q.method # "POST" THEN "405"
  ELSE IF ~ deployment.rpc THEN "503"
  ELSE IF q.large THEN "413"
  ELSE IF q.calls = <<>> THEN "400"
  ELSE IF Len(q.calls) > MAX_CALLS THEN "413"
  ELSE IF ~ Acceptable(q.calls) THEN "400"
  ELSE IF Cost(q.calls) > MAX_UNITS THEN "413"
  ELSE "none"

\* What is asked is typed, acceptable calls cost something, and no byte of the
\* endpoint is the mark that is written over it.  The patterns are not empty
\* (rpcSecretPatterns) and the body's bytes are numbers.
ASSUME EdgeConstants ==
  /\ Deployments \subseteq [limiter : BOOLEAN, rpc : BOOLEAN, service : BOOLEAN]
  /\ {UNITS, MAX_UNITS, MAX_CALLS, MaxWindows} \subseteq Nat
  /\ \A q \in Visits : q.calls # <<>> /\ Acceptable(q.calls) => Cost(q.calls) \in Nat \ {0}
  /\ IsFiniteSet(Patterns) /\ Patterns # {} /\ Patterns \subseteq Seq(Nat \ {Star}) \ {<<>>}
  /\ Bodies \subseteq Seq(Nat)

LimiterOf(q) == IF q.path = "rpc" THEN "rpc" ELSE "api"

Fresh == [phase |-> "new", ask |-> <<>>, taken |-> 0, due |-> 0, answer |-> "none"]
NoRelay == [to |-> {}, body |-> <<>>, at |-> 0, pending |-> <<>>, out |-> <<>>, timer |-> FALSE, end |-> "none"]

EdgeInit ==
  /\ deployment \in Deployments
  /\ left = [l \in {"rpc", "api"} |-> UNITS] /\ windows = 0
  /\ visit = [v \in Visitors |-> Fresh]
  /\ relay = NoRelay

Continues(v, record) == visit' = [visit EXCEPT ![v] = record]
Replies(v, answer) == Continues(v, [visit[v] EXCEPT !.phase = "answered", !.answer = answer])

\* The router: the canonical host, the site's files, then the origin and one
\* unit of the path's limiter.
Arrive(v, q) ==
  /\ visit[v].phase = "new"
  /\ LET come == [visit[v] EXCEPT !.ask = <<q>>]
         said(answer) == [come EXCEPT !.phase = "answered", !.answer = answer]
     IN  Continues(v, IF q.host = "www" THEN said("308")
                 ELSE IF q.path = "asset" THEN said("asset")
                 ELSE IF ~ AllowedOrigin(q) THEN said("403")
                 ELSE [come EXCEPT !.phase = "take", !.due = 1])
  /\ UNCHANGED <<deployment, left, windows, relay>>

\* The unit taken before the body was read counts towards the calls.
DueAfterFirst(q) == Cost(q.calls) - 1

\* The units are granted: what the path does next.
Granted(v, q) ==
  LET paid == [visit[v] EXCEPT !.taken = @ + 1, !.due = 0]
      said(answer) == [paid EXCEPT !.phase = "answered", !.answer = answer]
  IN  IF q.path = "rpc"
      THEN IF RpcRefusal(q) # "none" THEN said(RpcRefusal(q))
           ELSE IF visit[v].taken = 0 /\ DueAfterFirst(q) > 0
                  THEN [paid EXCEPT !.due = DueAfterFirst(q)]
           ELSE [paid EXCEPT !.phase = "forward"]
      ELSE IF q.path = "community"
      THEN said(IF q.method \in {"GET", "HEAD"} THEN "community" ELSE "405")
      ELSE IF ~ deployment.service THEN said("503")
      ELSE IF q.method \notin {"GET", "HEAD", "POST", "OPTIONS"} THEN said("405")
      ELSE [paid EXCEPT !.phase = "forward"]

\* rateLimited takes units one by one and gives none back; a missing binding
\* refuses.
TakeUnit(v) ==
  /\ visit[v].phase = "take"
  /\ LET q == visit[v].ask[1]
         l == LimiterOf(q)
     IN  IF ~ deployment.limiter THEN Replies(v, "503") /\ UNCHANGED left
         ELSE IF left[l] = 0 THEN Replies(v, "429") /\ UNCHANGED left
         ELSE /\ left' = [left EXCEPT ![l] = @ - 1]
              /\ Continues(v, IF visit[v].due > 1
                         THEN [visit[v] EXCEPT !.taken = @ + 1, !.due = @ - 1]
                         ELSE Granted(v, q))
  /\ UNCHANGED <<deployment, windows, relay>>

\* external: the limiter's window ends.
NewWindow ==
  /\ windows < MaxWindows
  /\ windows' = windows + 1
  /\ left' = [l \in {"rpc", "api"} |-> UNITS]
  /\ UNCHANGED <<deployment, visit, relay>>

-----------------------------------------------------------------------------
(* Upstream *)

\* The service or the provider redirects, refuses, answers something else, or
\* is not reached in time: no byte of such an answer is passed on.
UpstreamRefuses(v) ==
  /\ visit[v].phase = "forward"
  /\ LET rpc == visit[v].ask[1].path = "rpc"
     IN  \E said \in {"502"} \cup (IF rpc THEN {"status", "504"} ELSE {}) : Replies(v, said)
  /\ UNCHANGED <<deployment, left, windows, relay>>

\* The service's answer is relayed as it comes, with four of its headers; the
\* provider's may have no body.
UpstreamAnswers(v) ==
  /\ visit[v].phase = "forward"
  /\ Replies(v, "relayed")
  /\ UNCHANGED <<deployment, left, windows, relay>>

\* The provider's body is handed on with the deadline's timer.
UpstreamStreams(v, body) ==
  /\ visit[v].phase = "forward" /\ visit[v].ask[1].path = "rpc"
  /\ relay.to = {}
  /\ Replies(v, "relayed")
  /\ relay' = [NoRelay EXCEPT !.to = {v}, !.body = body, !.timer = TRUE]
  /\ UNCHANGED <<deployment, left, windows>>

\* The places of s that an occurrence of a pattern covers.
Occurs(p, s, i) == i + Len(p) - 1 <= Len(s) /\ SubSeq(s, i, i + Len(p) - 1) = p
Covered(s) ==
  UNION {at[2] .. at[2] + Len(at[1]) - 1 : at \in {pair \in Patterns \X (1 .. Len(s)) : Occurs(pair[1], s, pair[2])}}

redactBytes(s) == [i \in 1 .. Len(s) |-> IF i \in Covered(s) THEN Star ELSE s[i]]

FaultyRetained == Min({Len(p) : p \in Patterns}) - 1

\* What is kept back: all but the last symbol of the longest pattern.
Retained == Max({Len(p) : p \in Patterns}) - 1

\* A chunk arrives: what is kept back and the chunk are redacted together, and
\* kept back redacted.
Chunk(n) ==
  /\ relay.to # {} /\ relay.end = "none" /\ relay.at + n <= Len(relay.body)
  /\ LET redacted == redactBytes(relay.pending \o SubSeq(relay.body, relay.at + 1, relay.at + n))
         emit     == IF Len(redacted) > Retained THEN Len(redacted) - Retained ELSE 0
     IN  relay' = [relay EXCEPT !.at = @ + n,
                                !.pending = SubSeq(redacted, emit + 1, Len(redacted)),
                                !.out = @ \o SubSeq(redacted, 1, emit)]
  /\ UNCHANGED <<deployment, left, windows, visit>>

\* The body ends; what was kept back is redacted once more and sent.
StreamEnds ==
  /\ relay.to # {} /\ relay.end = "none" /\ relay.at = Len(relay.body)
  /\ relay' = [relay EXCEPT !.out = @ \o redactBytes(relay.pending), !.pending = <<>>,
                            !.timer = FALSE, !.end = "closed"]
  /\ UNCHANGED <<deployment, left, windows, visit>>

\* The deadline passes while the body is read, the connection breaks, or the
\* visitor goes away: the stream ends where it is.
StreamBreaks ==
  /\ relay.to # {} /\ relay.end = "none"
  /\ \E why \in {"deadline", "broken", "cancelled"} :
       /\ why = "deadline" => relay.timer
       /\ relay' = [relay EXCEPT !.timer = FALSE, !.end = why]
  /\ UNCHANGED <<deployment, left, windows, visit>>

EdgeNext ==
  \/ \E v \in Visitors, q \in Visits : Arrive(v, q)
  \/ \E v \in Visitors : TakeUnit(v)
  \/ NewWindow
  \/ \E v \in Visitors : UpstreamRefuses(v)
  \/ \E v \in Visitors : UpstreamAnswers(v)
  \/ \E v \in Visitors, body \in Bodies : UpstreamStreams(v, body)
  \/ \E n \in 1 .. 2 : Chunk(n)
  \/ StreamEnds
  \/ StreamBreaks

-----------------------------------------------------------------------------
(* Properties *)

ForwardedCalls(v) ==
  visit[v].phase = "forward" \/ visit[v].answer \in {"relayed", "502", "504", "status"}

\* Nothing is forwarded that was not paid for in full before, although units
\* are taken one at a time and others take them in between; what is forwarded
\* to the provider is a whole batch of calls that are each allowed.
ForwardedIsPaid ==
  \A v \in Visitors : ForwardedCalls(v) =>
    /\ visit[v].taken = IF visit[v].ask[1].path = "rpc" THEN Cost(visit[v].ask[1].calls) ELSE 1
    /\ visit[v].ask[1].path = "rpc" =>
         \A i \in DOMAIN visit[v].ask[1].calls : Acceptable(<<visit[v].ask[1].calls[i]>>)

\* However the provider's body is cut into chunks, no pattern of the endpoint
\* reaches the visitor, and nothing else is changed, lost or added.
RelayedFaithfully ==
  LET seen == relay.out
      told == seen \o relay.pending
  IN  /\ \A p \in Patterns, i \in 1 .. Len(seen) : ~ Occurs(p, seen, i)
      /\ Len(told) = relay.at
      /\ \A i \in 1 .. Len(told) : told[i] = relay.body[i] \/ (told[i] = Star /\ i \in Covered(relay.body))
      /\ relay.end = "closed" => Len(seen) = Len(relay.body)

\* The deadline of a request that streams is armed as long as the stream is
\* open, and no longer.
DeadlineFollowsBody == relay.timer <=> relay.to # {} /\ relay.end = "none"

\* What the edge lets through, both ways.
EdgeSound == ForwardedIsPaid /\ RelayedFaithfully /\ DeadlineFollowsBody

=============================================================================
