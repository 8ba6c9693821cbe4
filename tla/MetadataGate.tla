---------------------------- MODULE MetadataGate ----------------------------
(***************************************************************************)
(* Paid metadata uploads of the quote service: the durable object that     *)
(* rates, serializes and remembers them (quote-service/worker.ts,          *)
(* MetadataUploadGateV3) and the request handlers that call it             *)
(* (handleMetadataUpload in quote-service/fetch-handler.ts).  Every        *)
(* handler is one HTTP request, possibly in another isolate; it awaits the *)
(* gate, pays, and reports back, while time passes and others do the same. *)
(* Methods of the object are atomic: its storage gates hold other calls    *)
(* back.  A handler's name stands for the random lease token it is given.  *)
(***************************************************************************)
EXTENDS Integers, FiniteSets, Functions

CONSTANTS
  Handlers, Clients, Requests, Bodies,
  WINDOW,        \* METADATA_RATE_WINDOW_MS
  PER_CLIENT,    \* METADATA_RATE_PER_IP
  GLOBAL,        \* METADATA_RATE_GLOBAL
  LEASE,         \* METADATA_LEASE_MS
  TTL,           \* METADATA_RECEIPT_TTL_MS
  MaxTime,       \* bound: the clock
  MaxDuration,   \* bound: how long a handler takes from the grant to its end
  MaxLost        \* bound: handlers that die and gate calls that fail

ASSUME GateConstants ==
  /\ WINDOW \in Nat \ {0} /\ LEASE \in Nat \ {0} /\ TTL \in Nat \ {0}
  /\ PER_CLIENT \in Nat \ {0} /\ GLOBAL \in Nat \ {0}
  /\ MaxTime \in Nat /\ MaxDuration \in Nat /\ MaxLost \in Nat

ASSUME GateNames ==
  /\ IsFiniteSet(Handlers)
  /\ "none" \notin Handlers /\ "global" \notin Clients

Never == -1        \* no alarm set, no grant, no receipt

VARIABLES
  now,
  leases,    \* token -> expires_at, for the leases in the table
  jobs,      \* upload_jobs: request -> [body, state, token, expires]
  windows,   \* rate_windows: scope -> [start, count]
  alarm,     \* when the object's alarm is due
  handler,   \* [state, request, body, granted, stored], the last two for the properties
  lost

vars == <<now, leases, jobs, windows, alarm, handler, lost>>

Scopes == {"global"} \cup Clients

\* INSERT OR REPLACE and DELETE of one row.
Put(table, key, row) == [k \in DOMAIN table \cup {key} |-> IF k = key THEN row ELSE table[k]]
Drop(table, key) == Restrict(table, DOMAIN table \ {key})

\* What the deletion of expired rows leaves.
LiveLeases == RestrictValues(leases, LAMBDA expires : expires > now)
LiveJobs   == RestrictValues(jobs, LAMBDA job : job.expires > now)

Idle == [state |-> "new", request |-> "none", body |-> "none", granted |-> Never, stored |-> Never]

Init ==
  /\ now = 0 /\ leases = <<>> /\ jobs = <<>> /\ windows = <<>> /\ alarm = Never /\ lost = 0
  /\ handler = [h \in Handlers |-> Idle]

-----------------------------------------------------------------------------
(* The object *)

\* readWindow: a window that has run out starts again now.
ReadWindow(scope) ==
  IF scope \in DOMAIN windows /\ now - windows[scope].start < WINDOW
    THEN windows[scope]
    ELSE [start |-> now, count |-> 0]

\* blockedUntil is not empty
OverRate(client) ==
  ReadWindow("global").count >= GLOBAL \/ ReadWindow(client).count >= PER_CLIENT

Bump(window) == [window EXCEPT !.count = @ + 1]

\* Client buckets are dropped once their window has run out.
CollectClients(table) ==
  RestrictDomain(table, LAMBDA s : s = "global" \/ table[s].start > now - WINDOW)

FaultyEarlier(due) == IF alarm = Never THEN due ELSE alarm

\* setAlarm, unless an earlier one is set.
Earlier(due) == IF alarm = Never \/ alarm > due THEN due ELSE alarm

FaultyPriorAnswer(job, body) == IF job.state = "complete" THEN "replay" ELSE "processing"

\* The answer to a request whose job is in the table.
PriorAnswer(job, body) ==
  IF job.body # body THEN "conflict"
  ELSE IF job.state = "complete" THEN "replay" ELSE "processing"

FaultyGateAnswer(client, request, body) ==
  IF request \in DOMAIN LiveJobs THEN PriorAnswer(LiveJobs[request], body)
  ELSE IF OverRate(client) THEN "rate" ELSE "acquired"

\* What acquire answers, in the order of its returns: a job with this request
\* id, a lease held by anyone, then the two rates.
GateAnswer(client, request, body) ==
  IF request \in DOMAIN LiveJobs THEN PriorAnswer(LiveJobs[request], body)
  ELSE IF DOMAIN LiveLeases # {} THEN "busy"
  ELSE IF OverRate(client) THEN "rate" ELSE "acquired"

\* acquire.  Expired leases and jobs go in the same transaction, whatever the
\* answer; a grant counts in both windows and stores the lease and the job.
Acquire(h, client, request, body) ==
  LET answer == GateAnswer(client, request, body)
      job    == [body |-> body, state |-> "processing", token |-> h, expires |-> now + LEASE]
      counted == Put(Put(windows, "global", Bump(ReadWindow("global"))),
                     client, Bump(ReadWindow(client)))
  IN  /\ handler[h].state = "new"
      /\ IF answer = "acquired"
           THEN /\ leases' = Put(LiveLeases, h, now + LEASE)
                /\ jobs' = Put(LiveJobs, request, job)
                /\ windows' = CollectClients(counted)
                /\ alarm' = Earlier(now + WINDOW + 1)
           ELSE leases' = LiveLeases /\ jobs' = LiveJobs /\ UNCHANGED <<windows, alarm>>
      /\ handler' = [handler EXCEPT ![h] =
                       [state |-> answer, request |-> request, body |-> body,
                        granted |-> IF answer = "acquired" THEN now ELSE Never,
                        stored |-> Never]]
      /\ UNCHANGED <<now, lost>>

FaultyMayFail(job, h) == TRUE

\* fail deletes the job only under the caller's own lease.
MayFail(job, h) == job.token = h

\* complete stores the receipt only under the caller's own lease.
MayComplete(h) ==
  handler[h].request \in DOMAIN jobs /\ jobs[handler[h].request].token = h

AlarmDue == alarm # Never /\ now >= alarm

\* alarm: collect what has expired and re-arm for what is left.
Alarm ==
  /\ AlarmDue
  /\ LET windows2 == CollectClients(windows)
         jobs2    == LiveJobs
         due == {windows2[s].start + WINDOW + 1 : s \in DOMAIN windows2 \ {"global"}}
                  \cup {jobs2[r].expires + 1 : r \in DOMAIN jobs2}
     IN  /\ leases' = LiveLeases /\ jobs' = jobs2 /\ windows' = windows2
         /\ alarm' = IF due = {} THEN Never ELSE CHOOSE d \in due : \A e \in due : d <= e
  /\ UNCHANGED <<now, handler, lost>>

-----------------------------------------------------------------------------
(* The handlers *)

\* The image is compressed, both writes are priced, and the image is written.
WriteImage(h) ==
  /\ handler[h].state = "acquired"
  /\ handler' = [handler EXCEPT ![h].state = "imaged"]
  /\ UNCHANGED <<now, leases, jobs, windows, alarm, lost>>

\* The document that names the image is written: the upload is paid for.
WriteMetadata(h) ==
  /\ handler[h].state = "imaged"
  /\ handler' = [handler EXCEPT ![h].state = "paid"]
  /\ UNCHANGED <<now, leases, jobs, windows, alarm, lost>>

\* Pricing, balance or one of the two writes fails.
UploadFails(h) ==
  /\ handler[h].state \in {"acquired", "imaged"}
  /\ handler' = [handler EXCEPT ![h].state = "failed"]
  /\ UNCHANGED <<now, leases, jobs, windows, alarm, lost>>

Receipt(job) == [job EXCEPT !.state = "complete", !.token = "none", !.expires = now + TTL]

\* complete, which throws when the lease is no longer there.
Complete(h) ==
  /\ handler[h].state = "paid"
  /\ handler' = [handler EXCEPT ![h].state = "settled",
                                ![h].stored = IF MayComplete(h) THEN now ELSE Never]
  /\ IF MayComplete(h)
       THEN /\ jobs' = [jobs EXCEPT ![handler[h].request] = Receipt(@)]
            /\ leases' = Drop(leases, h)
            /\ alarm' = Earlier(now + TTL)
       ELSE UNCHANGED <<leases, jobs, alarm>>
  /\ UNCHANGED <<now, windows, lost>>

Fail(h) ==
  /\ handler[h].state = "failed"
  /\ handler' = [handler EXCEPT ![h].state = "settled"]
  /\ LET r == handler[h].request
     IN  jobs' = IF r \in DOMAIN jobs /\ MayFail(jobs[r], h) THEN Drop(jobs, r) ELSE jobs
  /\ leases' = Drop(leases, h)
  /\ UNCHANGED <<now, windows, alarm, lost>>

\* release, from the handler's cleanup
Release(h) ==
  /\ handler[h].state = "settled"
  /\ handler' = [handler EXCEPT ![h].state = "over"]
  /\ leases' = Drop(leases, h)
  /\ UNCHANGED <<now, jobs, windows, alarm, lost>>

Working == {"acquired", "imaged"}
Busy(h) == handler[h].state \in Working \cup {"paid", "failed", "settled"}

\* The isolate dies in the upload, or the call to complete, fail or release does
\* not arrive; the cleanup still follows a lost complete or fail.
Lose(h) ==
  /\ Busy(h) /\ lost < MaxLost
  /\ lost' = lost + 1
  /\ handler' = [handler EXCEPT ![h].state = IF @ \in {"paid", "failed"} THEN "settled" ELSE "over"]
  /\ UNCHANGED <<now, leases, jobs, windows, alarm>>

\* Time passes; a due alarm is not overtaken.
Tick ==
  /\ now < MaxTime /\ ~ AlarmDue
  /\ \A h \in Handlers : Busy(h) => now - handler[h].granted < MaxDuration
  /\ now' = now + 1
  /\ UNCHANGED <<leases, jobs, windows, alarm, handler, lost>>

Next ==
  \/ \E h \in Handlers :
       \/ \E c \in Clients, r \in Requests, b \in Bodies : Acquire(h, c, r, b)
       \/ WriteImage(h) \/ WriteMetadata(h) \/ UploadFails(h)
       \/ Complete(h) \/ Fail(h) \/ Release(h) \/ Lose(h)
  \/ Alarm
  \/ Tick

Spec == Init /\ [][Next]_vars

-----------------------------------------------------------------------------
(* Properties *)

\* The tables hold what their columns allow; no window starts in the future, and
\* a job is complete when it has no lease.
TypeOK ==
  /\ now \in 0 .. MaxTime /\ lost \in 0 .. MaxLost
  /\ alarm \in {Never} \cup Nat
  /\ DOMAIN leases \subseteq Handlers /\ DOMAIN jobs \subseteq Requests
  /\ DOMAIN windows \subseteq Scopes
  /\ \A s \in DOMAIN windows : windows[s].start \in 0 .. now /\ windows[s].count \in Nat \ {0}
  /\ \A r \in DOMAIN jobs : jobs[r].state = "complete" <=> jobs[r].token = "none"

\* "The product permits only one paid write at a time": two handlers write to
\* Irys at once only when one of them has outlived its lease, which ends
\* whether or not the upload has.
OneWriter ==
  \A h, k \in Handlers :
     h # k /\ {handler[h].state, handler[k].state} \subseteq Working
       => now >= handler[h].granted + LEASE \/ now >= handler[k].granted + LEASE

\* A request whose receipt was stored is not paid for again while the receipt
\* lives: the retry of a browser that gave up waiting is answered from the
\* table, whatever late calls and other uploads came between.
PaidOnce ==
  \A h, k \in Handlers :
     /\ h # k /\ handler[h].request = handler[k].request
     /\ handler[h].stored # Never /\ handler[k].granted > handler[h].stored
     => handler[k].granted >= handler[h].stored + TTL

\* A receipt is replayed only to a request with the body it was paid for.
ReplayFaithful ==
  \A h \in Handlers : handler[h].state = "replay"
    => \E k \in Handlers : /\ handler[k].stored # Never
                           /\ handler[k].request = handler[h].request
                           /\ handler[k].body = handler[h].body

\* No more than GLOBAL uploads are granted since the global window began,
\* through every collection of expired rows.
WindowCap ==
  "global" \in DOMAIN windows
    => Cardinality({h \in Handlers : handler[h].granted >= windows["global"].start}) <= GLOBAL

\* Nothing stays for want of an alarm: whenever a client bucket is stored an
\* alarm is set that looks at it as soon as its window has run out, and
\* whenever a receipt is stored, as soon as it has expired.
AlarmCovers ==
  LET Before(t) == alarm # Never /\ alarm <= t
  IN  /\ \A s \in DOMAIN windows \ {"global"} : Before(windows[s].start + WINDOW + 1)
      /\ \A r \in DOMAIN jobs : jobs[r].state = "complete" => Before(jobs[r].expires + 1)

\* Paid writes are bounded, side by side and within a window.
WritesBounded == OneWriter /\ WindowCap

\* A receipt answers the retries of its own request, all of them.
ReceiptsHonest == PaidOnce /\ ReplayFaithful

\* Every row has its type and will be looked at when it may be collected.
RowsSound == TypeOK /\ AlarmCovers

\* A stored receipt survives every late complete, fail and release of another
\* handler until it expires.
ReceiptStable ==
  [][\A r \in DOMAIN jobs :
       jobs[r].state = "complete" /\ jobs[r].expires > now
         => r \in DOMAIN jobs' /\ jobs'[r] = jobs[r]]_vars

=============================================================================
