-------------------------- MODULE Progress_proofs --------------------------
(***************************************************************************)
(* The requests and the index that MCProgress runs beside the pages: a     *)
(* paid upload is bounded and an answer is final for any number of         *)
(* requests, and no burn is left out of the leaderboard for any number of  *)
(* overlapping invocations, any page size and any history of the program.  *)
(***************************************************************************)
EXTENDS Transport, CommunityIndexer, FiniteSetTheorems, TLAPS

-----------------------------------------------------------------------------
(* Requests: the inductive invariant (Transport) *)

\* A request has its six fields.
RequestShaped(k) ==
  k \in [step : {k.step}, line : {k.line}, handler : {k.handler}, answer : {k.answer}, live : BOOLEAN,
         lease : BOOLEAN]

\* Its answer comes no sooner than its handler runs.
RequestSound(k) ==
  /\ RequestShaped(k)
  /\ k.step \in {"new", "reading", "gating"} => k.answer = "" /\ ~ (k.live /\ k.handler \in {"operation", "upload"})
  /\ k.live /\ k.handler \in {"operation", "upload"} => k.step = "running"

\* Windows of the limits hold times and counts.
WindowsSound == \A k \in DOMAIN rates : rates[k] \in [since : Nat, count : Nat]

\* Only the worker's requests wait for a gate, and it grants one lease.
GateSound ==
  /\ \A c \in Calls : call[c].step = "gating" => setup.host = "worker"
  /\ \A c, d \in Calls : call[c].lease /\ call[d].lease => c = d

\* The counter bounds the paid uploads of the node server.
NodeBounded == setup.host = "node" => Cardinality(Paid) <= MaxUploads

HttpInv ==
  /\ call = [c \in Calls |-> call[c]]
  /\ \A c \in Calls : RequestSound(call[c])
  /\ WindowsSound /\ clock \in Nat
  /\ GateSound /\ NodeBounded

-----------------------------------------------------------------------------
(* Routes *)

\* The server and the worker route a request alike, whatever is configured,
\* unless only the worker knows its path.
LEMMA SameRoute ==
  ASSUME NEW l, l.path \notin WorkerOnly
  PROVE  NodeRoute(l) = WorkerRoute(l)
<1>1. CASE Burn(l.path)
  <2>1. NodeBurnRoute(l) = WorkerBurnRoute(l)
    BY <1>1 DEF NodeBurnRoute, WorkerBurnRoute, Burn
  <2> QED BY <1>1, <2>1 DEF NodeRoute, WorkerRoute, Metadata, WorkerOnly, Burn
<1>2. CASE ~ Burn(l.path)
  BY <1>2 DEF NodeRoute, WorkerRoute, Metadata, WorkerOnly, Burn
<1> QED BY <1>1, <1>2

-----------------------------------------------------------------------------
(* Windows *)

\* The larger of at most two numbers.
LEMMA LatestIsMax ==
  ASSUME NEW S \in SUBSET Int, NEW a, NEW b, S \subseteq {a, b}, S # {}
  PROVE  Max(S) \in S /\ \A x \in S : x <= Max(S)
<1>1. \E m \in S : \A y \in S : m >= y
  <2>1. CASE S = {a}
    BY <2>1
  <2>2. CASE S = {b}
    BY <2>2
  <2>3. CASE S = {a, b}
    BY <2>3
  <2> QED BY <2>1, <2>2, <2>3
<1>2. Max(S) = CHOOSE m \in S : \A y \in S : m >= y
  BY DEF Max
<1> QED BY <1>1, <1>2

\* A window as it is, or restarted.
LEMMA WindowedType ==
  ASSUME WindowsSound, NEW k, NEW t \in Nat
  PROVE  Windowed(k, t) \in [since : Nat, count : Nat]
  BY DEF Windowed, WindowsSound

\* After the announced wait every window of the client has room: the full ones
\* have ended, and the others had room or were restarted.
LEMMA WaitSuffices ==
  ASSUME WindowsSound, clock \in Nat, NEW ip, FullWindows(ip, clock) # {}
  PROVE  FullWindows(ip, clock + RetryAfter(ip, clock)) = {}
<1> USE TransportConstants
<1> DEFINE full == FullWindows(ip, clock)
           ends == {Windowed(k, clock).since + RateWindow : k \in full}
           then == clock + RetryAfter(ip, clock)
<1>1. \A k \in {ip, "all"} : Windowed(k, clock).since \in Nat /\ Windowed(k, clock).count \in Nat
  BY WindowedType
<1>2. full \subseteq {ip, "all"}
  BY DEF FullWindows
<1>3. ends \subseteq Int /\ ends # {}
  BY <1>1, <1>2
<1>4. ends \subseteq {Windowed(ip, clock).since + RateWindow, Windowed("all", clock).since + RateWindow}
  BY <1>2
<1>5. Max(ends) \in ends /\ \A x \in ends : x <= Max(ends)
  <2> HIDE DEF ends
  <2> QED BY <1>3, <1>4, LatestIsMax
<1>6. then = Max(ends)
  <2>1. RetryAfter(ip, clock) = Max(ends) - clock
    BY DEF RetryAfter
  <2>2. Max(ends) \in Int
    BY <1>3, <1>5
  <2> HIDE DEF ends
  <2> QED BY <2>1, <2>2
<1>7. \A k \in full : Windowed(k, clock).since + RateWindow <= then
  BY <1>5, <1>6
<1>8. then \in Int /\ then > clock
  <2>1. then \in Int
    BY <1>3, <1>5, <1>6
  <2>2. \A k \in {ip, "all"} : Windowed(k, clock).since + RateWindow > clock
    BY DEF Windowed, WindowsSound
  <2>3. PICK k \in full : TRUE
    OBVIOUS
  <2> HIDE DEF full, then
  <2> QED BY <1>1, <1>2, <1>7, <2>1, <2>2, <2>3
<1> DEFINE limit(k) == IF k = "all" THEN Global ELSE PerIp
<1>9. ASSUME NEW k \in {ip, "all"} PROVE Windowed(k, then).count < limit(k)
  <2> HIDE DEF then
  <2>1. limit(k) \in Nat /\ limit(k) > 0
    OBVIOUS
  <2>2. CASE k \in DOMAIN rates /\ then - rates[k].since < RateWindow
    <3>1. rates[k].since \in Nat /\ rates[k].count \in Nat
      BY <2>2 DEF WindowsSound
    <3>2. Windowed(k, then) = rates[k] /\ Windowed(k, clock) = rates[k]
      BY <1>8, <2>2, <3>1 DEF Windowed
    <3>3. k \notin full
      BY <1>7, <1>8, <2>2, <3>1, <3>2
    <3> QED BY <1>9, <3>1, <3>2, <3>3, <2>1 DEF FullWindows
  <2>3. CASE ~ (k \in DOMAIN rates /\ then - rates[k].since < RateWindow)
    BY <2>1, <2>3 DEF Windowed
  <2> QED BY <2>2, <2>3
<1>10. \A k \in {ip, "all"} : Windowed(k, then).count \in Nat
  BY <1>8, WindowedType
<1> QED
  BY <1>9, <1>10 DEF FullWindows

-----------------------------------------------------------------------------
(* Every step of a request keeps the invariant *)

\* A step of one request.
LEMMA CallStep ==
  ASSUME HttpInv, NEW c \in Calls, NEW k, call' = [call EXCEPT ![c] = k], RequestSound(k),
         clock' = clock, WindowsSound', setup' = setup,
         k.step = "gating" => setup.host = "worker",
         k.lease => call[c].lease \/ \A d \in Calls : ~ call[d].lease,
         \/ ~ (k.step = "running" /\ k.handler = "upload")
         \/ call[c].step = "running" /\ call[c].handler = k.handler
         \/ ~ UploadBusy
         \/ setup.host = "worker"
  PROVE  HttpInv'
<1> USE TransportConstants
<1>1. call' = [d \in Calls |-> call'[d]] /\ \A d \in Calls : call'[d] = IF d = c THEN k ELSE call[d]
  BY DEF HttpInv
<1>2. \A d \in Calls : RequestSound(call'[d])
  BY <1>1 DEF HttpInv
<1>3. GateSound'
  BY <1>1 DEF HttpInv, GateSound
<1>4. NodeBounded'
  <2> SUFFICES ASSUME setup.host = "node" PROVE Cardinality(Paid') <= MaxUploads
    BY DEF NodeBounded
  <2>1. IsFiniteSet(Uploads) /\ IsFiniteSet(Paid) /\ Cardinality(Paid) <= MaxUploads
    BY FS_Subset DEF Uploads, Paid, HttpInv, NodeBounded
  <2>2. CASE Paid' \subseteq Paid
    <3>1. Cardinality(Paid') <= Cardinality(Paid)
      BY <2>1, <2>2, FS_Subset
    <3>2. Cardinality(Paid') \in Nat /\ Cardinality(Paid) \in Nat
      BY <2>1, <2>2, FS_Subset, FS_CardinalityType
    <3> QED BY <2>1, <3>1, <3>2
  <2>3. CASE ~ UploadBusy
    <3>1. Paid' \subseteq Uploads \cup {c}
      BY <1>1 DEF Paid, Uploads
    <3>2. IsFiniteSet(Uploads \cup {c}) /\ Cardinality(Uploads \cup {c}) <= Cardinality(Uploads) + 1
          /\ Cardinality(Uploads) \in Nat
      <4>1. IsFiniteSet(Uploads \cup {c}) /\ Cardinality(Uploads \cup {c}) = IF c \in Uploads THEN Cardinality(Uploads) ELSE Cardinality(Uploads) + 1
        BY <2>1, FS_AddElement
      <4>2. Cardinality(Uploads) \in Nat
        BY <2>1, FS_CardinalityType
      <4> QED BY <4>1, <4>2
    <3>3. Cardinality(Uploads) < MaxUploads
      BY <2>3, <3>2 DEF UploadBusy
    <3>4. Cardinality(Paid') <= Cardinality(Uploads \cup {c}) /\ IsFiniteSet(Paid')
      BY <3>1, <3>2, FS_Subset
    <3>5. Cardinality(Paid') \in Nat /\ Cardinality(Uploads \cup {c}) \in Nat
      BY <3>2, <3>4, FS_CardinalityType
    <3> QED BY <3>2, <3>3, <3>4, <3>5
  <2>4. UploadBusy => Paid' \subseteq Paid
    BY <1>1 DEF Paid, Uploads
  <2> QED BY <2>2, <2>3, <2>4
<1> QED
  BY <1>1, <1>2, <1>3, <1>4 DEF HttpInv

\* A request that arrives is over, reads its body or, but for burns, uploads
\* and images, runs.
LEMMA ArriveKeeps ==
  ASSUME HttpInv, NEW c \in Calls, NEW l, Arrive(c, l)
  PROVE  HttpInv' /\ call[c].answer = ""
<1> DEFINE h == Route(l)
           refusal == IF h \in Handlers THEN EarlyRefusal(h, l) ELSE h
           next == IF refusal # "" THEN "over"
                   ELSE IF h \in {"operation", "upload", "image"} THEN "reading" ELSE "running"
           k == [step |-> next, line |-> IF refusal = "" THEN l ELSE NoLine, handler |-> h, answer |-> refusal,
                 live |-> next = "running", lease |-> FALSE]
<1>1. call[c].step = "new" /\ call' = [call EXCEPT ![c] = k] /\ clock' = clock /\ rates' = rates /\ setup' = setup
  BY DEF Arrive
<1>2. call[c].answer = ""
  BY <1>1 DEF HttpInv, RequestSound
<1> HIDE DEF h, refusal
<1>3. RequestSound(k)
  BY DEF RequestSound, RequestShaped
<1>4. ~ (k.step = "running" /\ k.handler = "upload") /\ k.step # "gating" /\ ~ k.lease
  OBVIOUS
<1>5. WindowsSound'
  BY <1>1 DEF HttpInv, WindowsSound
<1> HIDE DEF k
<1> QED BY <1>1, <1>2, <1>3, <1>4, <1>5, CallStep

\* A request that is answered before its handler runs is over.
LEMMA AnswerKeeps ==
  ASSUME HttpInv, NEW c \in Calls, NEW status, Answer(c, status), WindowsSound', setup' = setup, clock' = clock,
         call[c].step \in {"reading", "gating"}
  PROVE  HttpInv'
<1> DEFINE k == call[c]
           over == [k EXCEPT !.step = "over", !.line = NoLine, !.answer = status]
<1>1. RequestSound(k) /\ call = [d \in Calls |-> call[d]]
  BY DEF HttpInv
<1>2. call' = [call EXCEPT ![c] = over]
  BY <1>1 DEF Answer
<1>3. over.step = "over" /\ over.handler = k.handler /\ over.live = k.live /\ over.lease = k.lease
  BY <1>1 DEF RequestSound, RequestShaped
<1>4. RequestShaped(over)
  BY <1>1 DEF RequestSound, RequestShaped
<1>5. RequestSound(over)
  BY <1>1, <1>3, <1>4 DEF RequestSound
<1> HIDE DEF over
<1> QED BY <1>2, <1>3, <1>5, CallStep

\* A body lets an upload run only when there is room, or wait for the gate.
LEMMA BodyKeeps ==
  ASSUME HttpInv, NEW c \in Calls, NEW refusal, Body(c, refusal)
  PROVE  HttpInv' /\ call[c].answer = ""
<1> DEFINE k == call[c]
<1>1. /\ RequestSound(k) /\ k.step = "reading" /\ clock \in Nat /\ WindowsSound
      /\ clock' = clock /\ setup' = setup /\ call = [d \in Calls |-> call[d]]
  BY DEF Body, HttpInv
<1>2. k.answer = "" /\ ~ (k.live /\ k.handler \in {"operation", "upload"})
  BY <1>1 DEF RequestSound
<1>4. rates' = rates \/ rates' = Restarted(clock) \/ rates' = Counted(k.line.ip, clock)
  BY DEF Body
<1>5. WindowsSound'
  <2>1. CASE rates' = rates
    BY <1>1, <2>1 DEF WindowsSound
  <2>2. CASE rates' = Restarted(clock)
    BY <1>1, <2>2, WindowedType DEF WindowsSound, Restarted
  <2>3. CASE rates' = Counted(k.line.ip, clock)
    <3>1. ASSUME NEW q PROVE [Windowed(q, clock) EXCEPT !.count = @ + 1] \in [since : Nat, count : Nat]
      BY <1>1, WindowedType
    <3> QED BY <1>1, <2>3, <3>1 DEF WindowsSound, Counted
  <2> QED BY <1>4, <2>1, <2>2, <2>3
<1>3. ASSUME NEW status, Answer(c, status) PROVE HttpInv'
  BY <1>1, <1>3, <1>5, AnswerKeeps
<1>6. CASE call' = [call EXCEPT ![c].step = "running", ![c].live = TRUE] /\ ~ BusyAfterBody(k.handler)
  <2> DEFINE begun == [k EXCEPT !.step = "running", !.live = TRUE]
  <2>1. call' = [call EXCEPT ![c] = begun]
    BY <1>1, <1>6
  <2>2. begun.step = "running" /\ begun.handler = k.handler /\ begun.live = TRUE /\ begun.lease = k.lease
    BY <1>1 DEF RequestSound, RequestShaped
  <2>3. RequestShaped(begun)
    BY <1>1 DEF RequestSound, RequestShaped
  <2>4. RequestSound(begun)
    BY <2>2, <2>3 DEF RequestSound
  <2>5. ~ (begun.step = "running" /\ begun.handler = "upload") \/ ~ UploadBusy
    BY <1>6, <2>2 DEF BusyAfterBody
  <2>6. begun.step # "gating" /\ (begun.lease => call[c].lease)
    BY <2>2
  <2> HIDE DEF begun, k
  <2>7. HttpInv'
    BY <1>1, <1>5, <2>1, <2>4, <2>5, <2>6, CallStep
  <2> QED BY <1>2, <2>7 DEF k
<1>7. CASE call' = [call EXCEPT ![c].step = "gating"] /\ Gated(c)
  <2> DEFINE waits == [k EXCEPT !.step = "gating"]
  <2>1. call' = [call EXCEPT ![c] = waits]
    BY <1>1, <1>7
  <2>2. waits.step = "gating" /\ waits.lease = k.lease /\ waits.answer = k.answer /\ waits.live = k.live /\ waits.handler = k.handler
    BY <1>1 DEF RequestSound, RequestShaped
  <2>3. RequestShaped(waits)
    BY <1>1 DEF RequestSound, RequestShaped
  <2>4. RequestSound(waits)
    BY <1>1, <1>2, <2>2, <2>3 DEF RequestSound
  <2>5. setup.host = "worker"
    BY <1>7 DEF Gated
  <2>6. ~ (waits.step = "running" /\ waits.handler = "upload") /\ (waits.lease => call[c].lease)
    BY <2>2
  <2> HIDE DEF waits, k
  <2>7. HttpInv'
    BY <1>1, <1>5, <2>1, <2>4, <2>5, <2>6, CallStep
  <2> QED BY <1>2, <2>7 DEF k
<1> QED
  BY <1>2, <1>3, <1>6, <1>7 DEF Body

\* The gate answers an upload of the worker, or starts it beside no other lease.
LEMMA GateKeeps ==
  ASSUME HttpInv, NEW c \in Calls, NEW answer, Gate(c, answer)
  PROVE  HttpInv' /\ call[c].answer = ""
<1>1. /\ RequestSound(call[c]) /\ call[c].step = "gating" /\ setup.host = "worker" /\ WindowsSound
      /\ clock' = clock /\ setup' = setup /\ rates' = rates
  BY DEF Gate, HttpInv, GateSound
<1>2. call[c].answer = "" /\ WindowsSound'
  BY <1>1 DEF RequestSound, WindowsSound
<1>3. CASE Answer(c, answer)
  BY <1>1, <1>2, <1>3, AnswerKeeps
<1>4. CASE /\ \A d \in Calls : ~ call[d].lease
           /\ call' = [call EXCEPT ![c].step = "running", ![c].live = TRUE, ![c].lease = TRUE]
  <2> DEFINE begun == [call[c] EXCEPT !.step = "running", !.live = TRUE, !.lease = TRUE]
  <2>1. call' = [call EXCEPT ![c] = begun]
    BY <1>4 DEF HttpInv
  <2>2. begun.step = "running" /\ begun.live = TRUE
    BY <1>1 DEF RequestSound, RequestShaped
  <2>3. RequestShaped(begun)
    BY <1>1 DEF RequestSound, RequestShaped
  <2>4. RequestSound(begun)
    BY <2>2, <2>3 DEF RequestSound
  <2> HIDE DEF begun
  <2> QED BY <1>1, <1>2, <1>4, <2>1, <2>2, <2>4, CallStep
<1> QED
  BY <1>2, <1>3, <1>4 DEF Gate

\* A lease that ends leaves its upload as it is.
LEMMA LeaseEndsKeeps ==
  ASSUME HttpInv, NEW c \in Calls, LeaseEnds(c)
  PROVE  HttpInv' /\ call'[c].answer = call[c].answer
<1> DEFINE k == call[c]
           m == [k EXCEPT !.lease = FALSE]
<1>1. /\ RequestSound(k) /\ clock' = clock /\ rates' = rates /\ setup' = setup
      /\ call' = [call EXCEPT ![c] = m] /\ WindowsSound /\ call = [d \in Calls |-> call[d]]
  BY DEF LeaseEnds, HttpInv
<1>2. m.step = k.step /\ m.handler = k.handler /\ m.answer = k.answer /\ m.live = k.live /\ m.lease = FALSE
  BY <1>1 DEF RequestSound, RequestShaped
<1>3. RequestShaped(m)
  BY <1>1 DEF RequestSound, RequestShaped
<1>4. RequestSound(m)
  BY <1>1, <1>2, <1>3 DEF RequestSound
<1>5. WindowsSound' /\ call'[c] = m
  BY <1>1 DEF WindowsSound
<1>6. k.step = "gating" => setup.host = "worker"
  BY DEF HttpInv, GateSound
<1> HIDE DEF m
<1> QED BY <1>1, <1>2, <1>4, <1>5, <1>6, CallStep

\* The deadline answers and leaves burns and uploads running.
LEMMA DeadlineKeeps ==
  ASSUME HttpInv, NEW c \in Calls, Deadline(c)
  PROVE  HttpInv' /\ call[c].answer = ""
<1> DEFINE k == call[c]
           m == [k EXCEPT !.answer = "504", !.step = IF k.handler \in {"markets", "resolve"} THEN "over" ELSE @]
<1>1. /\ RequestSound(k) /\ k.step = "running" /\ k.answer = "" /\ clock' = clock /\ rates' = rates /\ setup' = setup
      /\ k.handler \in {"operation", "upload", "markets", "resolve"}
      /\ call' = [call EXCEPT ![c] = m] /\ WindowsSound
  BY DEF Deadline, HttpInv
<1>2. m.handler = k.handler /\ m.live = k.live /\ m.lease = k.lease /\ m.step = IF k.handler \in {"markets", "resolve"} THEN "over" ELSE "running"
  BY <1>1 DEF RequestSound, RequestShaped
<1>6. RequestShaped(m)
  BY <1>1 DEF RequestSound, RequestShaped
<1>3. RequestSound(m)
  <2> HIDE DEF m
  <2>1. m.step \notin {"new", "reading", "gating"}
    BY <1>2
  <2>2. m.handler \in {"operation", "upload"} => m.step = "running"
    BY <1>1, <1>2
  <2> QED BY <1>6, <2>1, <2>2 DEF RequestSound
<1>4. WindowsSound'
  BY <1>1 DEF WindowsSound
<1> HIDE DEF m
<1> QED BY <1>1, <1>2, <1>3, <1>4, CallStep

\* A handler that ends does not answer a second time.
LEMMA SettleKeeps ==
  ASSUME HttpInv, NEW c \in Calls, NEW status, Settle(c, status)
  PROVE  HttpInv' /\ (call[c].answer # "" => call'[c].answer = call[c].answer)
<1> DEFINE k == call[c]
           m == [k EXCEPT !.step = "over", !.live = FALSE, !.line = NoLine, !.answer = IF @ = "" THEN status ELSE @]
<1>1. /\ RequestSound(k) /\ clock' = clock /\ rates' = rates /\ setup' = setup
      /\ call' = [call EXCEPT ![c] = m] /\ WindowsSound /\ call = [d \in Calls |-> call[d]]
  BY DEF Settle, HttpInv
<1>2. m.handler = k.handler /\ m.live = FALSE /\ m.lease = k.lease /\ m.step = "over" /\ m.answer = IF k.answer = "" THEN status ELSE k.answer
  BY <1>1 DEF RequestSound, RequestShaped
<1>6. RequestShaped(m)
  BY <1>1 DEF RequestSound, RequestShaped
<1>3. RequestSound(m)
  BY <1>1, <1>2, <1>6 DEF RequestSound
<1>4. WindowsSound'
  BY <1>1 DEF WindowsSound
<1>5. call'[c] = m
  BY <1>1
<1> HIDE DEF m
<1> QED BY <1>1, <1>2, <1>3, <1>4, <1>5, CallStep

\* Time and the start of a drain touch no request.
LEMMA OthersKeep ==
  ASSUME HttpInv, Drain \/ Time \/ UNCHANGED httpVars
  PROVE  HttpInv' /\ call' = call
<1>1. call' = call /\ rates' = rates /\ clock' \in Nat /\ setup' = setup
  BY DEF Drain, Time, HttpInv, httpVars
<1> QED
  BY <1>1 DEF HttpInv, WindowsSound, GateSound, NodeBounded, Paid, Uploads

LEMMA HttpInvStep ==
  ASSUME HttpInv, [HttpNext]_httpVars
  PROVE  HttpInv' /\ \A c \in Calls : call[c].answer # "" => call'[c].answer = call[c].answer
<1>1. CASE Drain \/ Time \/ UNCHANGED httpVars
  BY <1>1, OthersKeep
<1>2. ASSUME NEW c \in Calls, NEW k, call' = [call EXCEPT ![c] = k] PROVE \A d \in Calls \ {c} : call'[d] = call[d]
  BY <1>2 DEF HttpInv
<1>3. ASSUME NEW c \in Calls, NEW l, Arrive(c, l) PROVE \A d \in Calls \ {c} : call'[d] = call[d]
  BY <1>3 DEF Arrive, HttpInv
<1>4. ASSUME NEW c \in Calls, NEW refusal, Body(c, refusal) PROVE \A d \in Calls \ {c} : call'[d] = call[d]
  BY <1>4 DEF Body, Answer, HttpInv
<1>5. ASSUME NEW c \in Calls, Deadline(c) PROVE \A d \in Calls \ {c} : call'[d] = call[d]
  BY <1>5 DEF Deadline, HttpInv
<1>6. ASSUME NEW c \in Calls, NEW status, Settle(c, status) PROVE \A d \in Calls \ {c} : call'[d] = call[d]
  BY <1>6 DEF Settle, HttpInv
<1>11. ASSUME NEW c \in Calls, NEW answer, Gate(c, answer) PROVE \A d \in Calls \ {c} : call'[d] = call[d]
  BY <1>11 DEF Gate, Answer, HttpInv
<1>12. ASSUME NEW c \in Calls, LeaseEnds(c) PROVE \A d \in Calls \ {c} : call'[d] = call[d]
  BY <1>12 DEF LeaseEnds, HttpInv
<1>7. CASE \E c \in Calls : \E l \in Lines : Arrive(c, l)
  BY <1>3, <1>7, ArriveKeeps
<1>8. CASE \E c \in Calls : \E refusal \in BodyRefusals : Body(c, refusal)
  BY <1>4, <1>8, BodyKeeps
<1>9. CASE \E c \in Calls : Deadline(c)
  BY <1>5, <1>9, DeadlineKeeps
<1>10. CASE \E c \in Calls : \E status \in Results(call[c].handler) : Settle(c, status)
  BY <1>6, <1>10, SettleKeeps
<1>13. CASE \E c \in Calls : \E answer \in {""} \cup GateAnswers : Gate(c, answer)
  BY <1>11, <1>13, GateKeeps
<1>14. CASE \E c \in Calls : LeaseEnds(c)
  BY <1>12, <1>14, LeaseEndsKeeps
<1> QED
  BY <1>1, <1>7, <1>8, <1>9, <1>10, <1>13, <1>14 DEF HttpNext

\* Before the first request.
LEMMA HttpInvInit == HttpInit => HttpInv
<1> SUFFICES ASSUME HttpInit PROVE HttpInv
  OBVIOUS
<1>2. call = [c \in Calls |-> call[c]]
  BY DEF HttpInit
<1>3. ASSUME NEW c \in Calls PROVE RequestSound(call[c]) /\ call[c].step = "new" /\ ~ call[c].lease
  <2> DEFINE k == call[c]
  <2>1. k = [step |-> "new", line |-> NoLine, handler |-> "", answer |-> "", live |-> FALSE, lease |-> FALSE]
    BY DEF HttpInit
  <2> HIDE DEF k
  <2>2. k.step = "new" /\ k.answer = "" /\ ~ k.live /\ ~ k.lease
    BY <2>1
  <2>3. k \in [step : {"new"}, line : {NoLine}, handler : {""}, answer : {""}, live : BOOLEAN, lease : BOOLEAN]
    BY <2>1
  <2>4. k \in [step : {k.step}, line : {k.line}, handler : {k.handler}, answer : {k.answer}, live : BOOLEAN, lease : BOOLEAN]
    BY <2>3
  <2> QED BY <2>2, <2>4 DEF RequestSound, RequestShaped, k
<1>4. WindowsSound /\ clock \in Nat
  <2>1. DOMAIN << >> = {}
    OBVIOUS
  <2> QED BY <2>1 DEF HttpInit, WindowsSound
<1>5. NodeBounded
  <2>1. Paid = {}
    BY <1>3 DEF Paid, Uploads
  <2>2. Cardinality(Paid) = 0
    BY <2>1, FS_EmptySet
  <2> QED BY <2>2, TransportConstants DEF NodeBounded
<1>6. GateSound
  BY <1>3 DEF GateSound
<1> QED BY <1>2, <1>3, <1>4, <1>5, <1>6 DEF HttpInv

-----------------------------------------------------------------------------
(* The theorems of the requests *)

\* server.ts and fetch-handler.ts: on the paths that both know, a request gets
\* the same status or handler from either, in every wiring.
THEOREM TransportsRouteAlike == HttpSpec => []RoutesAgree
<1>1. RoutesAgree
  BY SameRoute DEF RoutesAgree
<1> QED BY <1>1, PTL

\* maxInflightMetadataUploads, the response deadline and Retry-After: however
\* bodies, gate answers, deadlines and ends of leases interleave, the node server
\* keeps the upload limit and the worker runs no two uploads whose leases both
\* stand, work that outlives its deadline holds its slot, and a client that
\* waits as long as it was told is admitted.
THEOREM LimitsStayHonest == HttpSpec => []LimitsHonest
<1>1. HttpInit => HttpInv
  BY HttpInvInit
<1>2. HttpInv /\ [HttpNext]_httpVars => HttpInv'
  BY HttpInvStep
<1>3. HttpInv => LimitsHonest
  <2> SUFFICES ASSUME HttpInv PROVE LimitsHonest
    OBVIOUS
  <2>1. SlotHeld
    BY DEF HttpInv, RequestSound, SlotHeld, Inflight
  <2>2. RetryAfterHonest
    BY WaitSuffices DEF HttpInv, RetryAfterHonest
  <2>3. PaidUploadsBounded
    BY DEF HttpInv, NodeBounded, GateSound, PaidUploadsBounded, Paid, Uploads
  <2> QED BY <2>1, <2>2, <2>3 DEF LimitsHonest
<1> QED
  BY <1>1, <1>2, <1>3, PTL DEF HttpSpec

\* A request is answered once: neither a handler that ends after its deadline
\* nor anything else changes an answer.
THEOREM AnswersAreFinal == HttpSpec => AnswerFinal
<1>1. HttpInit => HttpInv
  BY HttpInvInit
<1>2. HttpInv /\ [HttpNext]_httpVars
        => HttpInv' /\ [\A c \in Calls : call[c].answer # "" => call'[c].answer = call[c].answer]_httpVars
  BY HttpInvStep
<1> QED
  BY <1>1, <1>2, PTL DEF HttpSpec, AnswerFinal

-----------------------------------------------------------------------------
(* The index: the inductive invariant (CommunityIndexer) *)

\* What one invocation lists at most.
Reach == PAGE * MAX_PAGES

\* No more arrives ahead of the head than that.
Bounded == MaxBacklog <= Reach

\* Every signature up to the head h has nothing to rank or is kept, or the
\* backfill will come past it.
Reached(h, b, d, kept) == Bounded => \A s \in 1 .. h : s \in Errored \cup kept \/ (~ d /\ s < b)

\* What arrived since the first index is never left to the backfill ...
Recent(h, kept) == Bounded => \A s \in InitialBurns + 1 .. h : s \in Errored \cup kept

\* ... so cursors may be committed, in whatever order, once `kept' is stored.
\* The head stays empty only until the first listing, and a backfill that has
\* ended before that had nothing to do.
Sound(h, b, d, kept) ==
  /\ Reached(h, b, d, kept) /\ Recent(h, kept)
  /\ h # 0 => h >= InitialBurns
  /\ h = 0 /\ d => InitialBurns = 0

\* Pages from a newest signature downwards, without a gap.
Gapless(l, a, n, top) ==
  l.listed = a .. n /\ l.head < a /\ a <= n /\ InitialBurns <= n /\ n <= top

\* A run that lists: so far every page was full.
Listing(l, stored, top) ==
  /\ Sound(l.head, l.backfill, l.done, stored)
  /\ \/ l.pages = 0 /\ l.listed = {}
     \/ /\ l.pages \in 1 .. MAX_PAGES - 1
        /\ \E a, n \in 1 .. top : Gapless(l, a, n, top) /\ n - a + 1 = l.pages * PAGE

\* A run that has listed down to its head, or as far as it may.
Listed(l, stored, top) ==
  /\ Sound(l.head, l.backfill, l.done, stored)
  /\ \/ l.listed = {} /\ (l.head = 0 => InitialBurns = 0)
     \/ \E a, n \in 1 .. top : Gapless(l, a, n, top) /\ (a = l.head + 1 \/ n - a + 1 = Reach)

\* The head that a run will commit.
NextHead(l) == NextLatestSignature(l.head, l.newest)

\* A run that knows its cursors.
Closing(l, kept) == Sound(NextHead(l), l.backfill, l.done, kept) /\ NextHead(l) >= l.head

RunSound(l, stored, top) ==
  /\ l.phase = "list" => Listing(l, stored, top)
  /\ l.phase = "backfill" => Listed(l, stored, top)
  /\ l.phase \in {"fetch", "store"} => Closing(l, stored \cup l.listed)
  /\ l.phase = "commit" => Closing(l, stored)
  /\ l.phase = "store" => l.listed \cap Errored = {}

IndexInv ==
  /\ TypeOK
  /\ InitialBurns <= chain
  /\ Sound(head, backfill, done, rows)
  /\ Recent(chain - Reach, rows)
  /\ \A r \in Runs : RunSound(run[r], rows, chain)

\* The locals of a run.
Locals(top) ==
  [phase : {"idle", "list", "backfill", "fetch", "store", "commit"},
   head : 0 .. top, backfill : 0 .. top, done : BOOLEAN,
   listed : SUBSET (1 .. top), pages : 0 .. MAX_PAGES, newest : 0 .. top]

-----------------------------------------------------------------------------
(* Intervals and pages *)

\* The ends of an interval.
LEMMA Ends ==
  ASSUME NEW a \in Int, NEW b \in Int, a <= b
  PROVE  Oldest(a .. b) = a /\ Newest(a .. b) = b
<1>1. Oldest(a .. b) = a
  <2>1. \A s \in a .. b : (\A t \in a .. b : s <= t) <=> s = a
    OBVIOUS
  <2>2. a \in a .. b
    OBVIOUS
  <2> QED BY <2>1, <2>2 DEF Oldest
<1>2. Newest(a .. b) = b
  <2>1. \A s \in a .. b : (\A t \in a .. b : s >= t) <=> s = b
    OBVIOUS
  <2>2. b \in a .. b
    OBVIOUS
  <2> QED BY <2>1, <2>2 DEF Newest
<1> QED BY <1>1, <1>2

\* The newest signature that is asked for, and the oldest on the page.
Top(before) == IF before = 0 THEN chain ELSE before - 1

Bottom(before, until) ==
  IF Top(before) - PAGE > until THEN Top(before) - PAGE + 1 ELSE until + 1

\* A page is the interval of the PAGE newest signatures of what was asked for.
LEMMA PageMeans ==
  ASSUME chain \in Nat, NEW before \in 0 .. chain, NEW until \in Nat
  PROVE  /\ Bottom(before, until) \in Nat /\ Top(before) \in Nat
         /\ Page(before, until) = Bottom(before, until) .. Top(before)
         /\ Cardinality(Page(before, until)) =
              IF Bottom(before, until) > Top(before) THEN 0 ELSE Top(before) - Bottom(before, until) + 1
<1> USE IndexerConstants
<1> DEFINE hi == Top(before)
           lo == Bottom(before, until)
<1> USE DEF Top, Bottom
<1> DEFINE range == {s \in 1 .. chain : s > until /\ (before = 0 \/ s < before)}
<1>1. hi \in Nat /\ lo \in Nat
  OBVIOUS
<1>2. range = until + 1 .. hi
  <2>1. ASSUME NEW s PROVE s \in range <=> s \in until + 1 .. hi
    OBVIOUS
  <2> QED BY <2>1
<1>3. ASSUME NEW s \in until + 1 .. hi PROVE Cardinality({t \in range : t > s}) = hi - s
  <2>1. {t \in range : t > s} = s + 1 .. hi
    <3>1. \A t : t \in {u \in until + 1 .. hi : u > s} <=> t \in s + 1 .. hi
      BY <1>1, <1>3
    <3>2. {t \in range : t > s} = {u \in until + 1 .. hi : u > s}
      BY <1>2
    <3> DEFINE A == {u \in until + 1 .. hi : u > s}
               B == s + 1 .. hi
    <3>3. \A t : t \in A <=> t \in B
      BY <3>1
    <3>4. {t \in range : t > s} = A
      BY <3>2
    <3> HIDE DEF A, B
    <3>5. A = B
      BY <3>3
    <3> USE DEF B
    <3> QED BY <3>4, <3>5
  <2>2. Cardinality(s + 1 .. hi) = hi - s
    <3> HIDE DEF hi
    <3>1. s + 1 \in Int /\ hi \in Int /\ s <= hi
      BY <1>1, <1>3
    <3>2. Cardinality(s + 1 .. hi) = IF s + 1 > hi THEN 0 ELSE hi - (s + 1) + 1
      BY <3>1, FS_Interval
    <3> QED BY <1>1, <3>1, <3>2
  <2> HIDE DEF range, hi
  <2> QED BY <2>1, <2>2
<1>4. Page(before, until) = {s \in range : Cardinality({t \in range : t > s}) < PAGE}
  BY DEF Page
<1>5. Page(before, until) = lo .. hi
  <2>1. ASSUME NEW s PROVE s \in Page(before, until) <=> s \in until + 1 .. hi /\ hi - s < PAGE
    BY <1>2, <1>3, <1>4
  <2>2. ASSUME NEW s PROVE s \in lo .. hi <=> s \in until + 1 .. hi /\ hi - s < PAGE
    BY <1>1
  <2> QED BY <2>1, <2>2
<1>6. Cardinality(lo .. hi) = IF lo > hi THEN 0 ELSE hi - lo + 1
  <2> HIDE DEF lo, hi
  <2> QED BY <1>1, FS_Interval
<1> HIDE DEF Top, Bottom, range
<1> QED BY <1>1, <1>5, <1>6

\* The reach of a run is a number, at least a page.
LEMMA ReachIsNat == Reach \in Nat /\ Reach >= PAGE
  BY IndexerConstants DEF Reach

\* What holds of cursors and of runs goes on to hold while more is stored and
\* the chain grows.
LEMMA SoundGrows ==
  ASSUME NEW h, NEW b, NEW d, NEW R, NEW T, R \subseteq T, Sound(h, b, d, R)
  PROVE  Sound(h, b, d, T)
  BY DEF Sound, Reached, Recent

LEMMA RunGrows ==
  ASSUME NEW top \in Nat, NEW top2 \in Nat, top <= top2, NEW R, NEW T, R \subseteq T,
         NEW l \in Locals(top), RunSound(l, R, top)
  PROVE  l \in Locals(top2) /\ RunSound(l, T, top2)
<1>1. l \in Locals(top2)
  BY DEF Locals
<1>2. l.phase = "list" => Listing(l, T, top2)
  BY SoundGrows DEF RunSound, Listing, Gapless
<1>3. l.phase = "backfill" => Listed(l, T, top2)
  BY SoundGrows DEF RunSound, Listed, Gapless
<1>4. l.phase \in {"fetch", "store"} => Closing(l, T \cup l.listed)
  <2>1. R \cup l.listed \subseteq T \cup l.listed
    OBVIOUS
  <2> QED BY <2>1, SoundGrows DEF RunSound, Closing
<1>5. l.phase = "commit" => Closing(l, T)
  BY SoundGrows DEF RunSound, Closing
<1> QED BY <1>1, <1>2, <1>3, <1>4, <1>5 DEF RunSound

-----------------------------------------------------------------------------
(* Every step of the index keeps the invariant *)

\* The types, taken apart.
LEMMA Types ==
  ASSUME TypeOK
  PROVE  /\ chain \in Nat /\ chain <= MaxSignatures /\ rows \subseteq (1 .. chain) \ Errored
         /\ head \in 0 .. chain /\ backfill \in 0 .. chain /\ done \in BOOLEAN
         /\ run \in [Runs -> Locals(chain)] /\ failures \in 0 .. MaxFailures
  BY IndexerConstants DEF TypeOK, Locals

\* A step of one run that leaves the chain and the cursors alone.
LEMMA RunStep ==
  ASSUME IndexInv, NEW r \in Runs, NEW local \in Locals(chain), Becomes(r, local),
         rows \subseteq rows', rows' \subseteq (1 .. chain) \ Errored,
         UNCHANGED <<chain, head, backfill, done>>, failures' \in 0 .. MaxFailures,
         RunSound(local, rows', chain)
  PROVE  IndexInv'
<1>1. /\ chain \in Nat /\ run \in [Runs -> Locals(chain)]
  BY Types DEF IndexInv
<1>2. run' \in [Runs -> Locals(chain)]
  BY <1>1 DEF Becomes
<1>3. TypeOK'
  BY <1>2 DEF IndexInv, TypeOK, Locals
<1>4. Sound(head, backfill, done, rows')
  BY SoundGrows DEF IndexInv
<1>5. Recent(chain - Reach, rows')
  BY DEF IndexInv, Recent
<1>6. ASSUME NEW q \in Runs PROVE RunSound(run'[q], rows', chain)
  <2>1. CASE q = r
    BY <1>1, <2>1 DEF Becomes
  <2>2. CASE q # r
    <3>1. run'[q] = run[q] /\ run[q] \in Locals(chain) /\ RunSound(run[q], rows, chain)
      BY <1>1, <2>2 DEF Becomes, IndexInv
    <3>2. chain <= chain
      BY <1>1
    <3>3. RunSound(run[q], rows', chain)
      BY ONLY <1>1, <3>1, <3>2, rows \subseteq rows', RunGrows
    <3> QED BY <3>1, <3>3
  <2> QED BY <2>1, <2>2
<1> QED
  BY <1>3, <1>4, <1>5, <1>6 DEF IndexInv

\* An idle run claims nothing.
LEMMA IdleSound ==
  ASSUME NEW R, NEW top \in Nat
  PROVE  Idle \in Locals(top) /\ RunSound(Idle, R, top)
  BY IndexerConstants DEF Idle, Locals, RunSound

\* A run that starts copies sound cursors.
LEMMA ReadStateKeeps ==
  ASSUME IndexInv, NEW r \in Runs, ReadState(r)
  PROVE  IndexInv'
<1> DEFINE l == [Idle EXCEPT !.phase = "list", !.head = head, !.backfill = backfill, !.done = done]
<1>1. chain \in Nat /\ head \in 0 .. chain /\ backfill \in 0 .. chain /\ done \in BOOLEAN
  BY Types DEF IndexInv
<1>2. l \in Locals(chain)
  BY <1>1, IndexerConstants, 0 \in 0 .. chain, 0 \in 0 .. MAX_PAGES DEF Idle, Locals
<1>3. l.phase = "list" /\ l.head = head /\ l.backfill = backfill /\ l.done = done /\ l.pages = 0 /\ l.listed = {}
  BY DEF Idle
<1>4. RunSound(l, rows, chain)
  <2> HIDE DEF l
  <2> QED BY <1>3 DEF RunSound, Listing, IndexInv
<1>5. Becomes(r, l) /\ rows' = rows /\ failures' = failures
  BY DEF ReadState
<1>6. rows' \subseteq (1 .. chain) \ Errored /\ failures' \in 0 .. MaxFailures
  BY <1>5, Types DEF IndexInv
<1> HIDE DEF l
<1> QED
  BY <1>2, <1>4, <1>5, <1>6, RunStep DEF ReadState

\* A page continues the ones before it downwards.
LEMMA ListPageKeeps ==
  ASSUME IndexInv, NEW r \in Runs, ListPage(r)
  PROVE  IndexInv'
<1> USE IndexerConstants
<1> DEFINE l    == run[r]
           before == IF l.listed = {} THEN 0 ELSE Oldest(l.listed)
           next == Page(before, l.head)
           last == Cardinality(next) < PAGE \/ l.pages + 1 = MAX_PAGES
           m    == [l EXCEPT !.listed = @ \cup next,
                             !.pages = @ + 1,
                             !.phase = IF last THEN "backfill" ELSE "list"]
           hi   == Top(before)
           lo   == Bottom(before, l.head)
<1>1. chain \in Nat /\ l \in Locals(chain) /\ InitialBurns <= chain
  BY Types DEF IndexInv
<1>2. Listing(l, rows, chain) /\ l.phase = "list"
  BY DEF ListPage, IndexInv, RunSound
<1>3. /\ l.head \in 0 .. chain /\ l.pages \in 0 .. MAX_PAGES /\ l.listed \subseteq 1 .. chain
      /\ l.backfill \in 0 .. chain /\ l.done \in BOOLEAN /\ l.newest \in 0 .. chain
  BY <1>1 DEF Locals
<1>4. Becomes(r, m)
  BY DEF ListPage
<1>5. /\ before \in Nat /\ before <= chain
      /\ \/ before = 0 /\ l.listed = {} /\ l.pages = 0
         \/ \E n \in 1 .. chain : /\ before \in 1 .. chain /\ Gapless(l, before, n, chain)
                                  /\ n - before + 1 = l.pages * PAGE /\ l.pages \in 1 .. MAX_PAGES - 1
  <2>1. CASE l.pages = 0 /\ l.listed = {}
    BY <1>1, <2>1
  <2>2. CASE l.pages \in 1 .. MAX_PAGES - 1 /\ \E a, n \in 1 .. chain : Gapless(l, a, n, chain) /\ n - a + 1 = l.pages * PAGE
    <3>1. PICK a \in 1 .. chain, n \in 1 .. chain : Gapless(l, a, n, chain) /\ n - a + 1 = l.pages * PAGE
      BY <2>2
    <3>2. l.listed = a .. n /\ a <= n
      BY <3>1 DEF Gapless
    <3>3. l.listed # {} /\ Oldest(l.listed) = a
      BY <3>2, Ends
    <3>4. before = a
      BY <3>3
    <3> HIDE DEF before
    <3> QED BY <1>1, <2>2, <3>1, <3>4
  <2> QED BY <1>2, <2>1, <2>2 DEF Listing
<1> HIDE DEF before
<1>6. /\ lo \in Nat /\ hi \in Nat /\ next = lo .. hi
      /\ Cardinality(next) = IF lo > hi THEN 0 ELSE hi - lo + 1
  <2>1. before \in 0 .. chain /\ l.head \in Nat
    BY <1>1, <1>3, <1>5
  <2> HIDE DEF l
  <2> QED BY ONLY <1>1, <2>1, PageMeans
<1>7. hi <= chain /\ l.head < lo /\ (hi - PAGE > l.head => lo = hi - PAGE + 1) /\ (hi - PAGE <= l.head => lo = l.head + 1)
  BY <1>1, <1>3, <1>5 DEF Top, Bottom
<1> HIDE DEF hi, lo
<1> HIDE DEF next
<1>8. /\ m.listed = l.listed \cup next /\ m.pages = l.pages + 1 /\ m.phase = (IF last THEN "backfill" ELSE "list")
      /\ m.head = l.head /\ m.backfill = l.backfill /\ m.done = l.done /\ m.newest = l.newest
  BY <1>1 DEF Locals
<1>9. MAX_PAGES \in Nat /\ l.pages \in Nat /\ l.pages + 1 <= MAX_PAGES
  BY <1>3, <1>5
<1>10. m \in Locals(chain)
  <2>1. l.listed \cup next \subseteq 1 .. chain
    BY <1>1, <1>3, <1>6, <1>7
  <2>2. l.pages + 1 \in 0 .. MAX_PAGES
    BY <1>9
  <2> HIDE DEF last, l
  <2>3. (IF last THEN "backfill" ELSE "list") \in {"idle", "list", "backfill", "fetch", "store", "commit"}
    OBVIOUS
  <2> QED BY <1>1, <2>1, <2>2, <2>3 DEF Locals
<1> HIDE DEF m
\* Nothing more to list.
<1>11. ASSUME lo > hi PROVE RunSound(m, rows, chain)
  <2>1. next = {} /\ last
    BY <1>6, <1>11
  <2>2. hi <= l.head
    BY <1>1, <1>3, <1>6, <1>7, <1>11
  <2>3. Listed(m, rows, chain)
    <3>1. CASE before = 0 /\ l.listed = {}
      <4>1. hi = chain
        BY <3>1 DEF hi, Top
      <4>2. l.head = 0 => InitialBurns = 0
        BY <1>1, <1>3, <2>2, <4>1
      <4> QED BY <1>2, <1>8, <2>1, <3>1, <4>2 DEF Listing, Listed
    <3>2. CASE \E n \in 1 .. chain : before \in 1 .. chain /\ Gapless(l, before, n, chain)
      <4>1. PICK n \in 1 .. chain : before \in 1 .. chain /\ Gapless(l, before, n, chain)
        BY <3>2
      <4>2. before = l.head + 1
        BY <1>3, <2>2, <4>1 DEF hi, Top, Gapless
      <4>3. Gapless(m, before, n, chain)
        BY <1>8, <2>1, <4>1 DEF Gapless
      <4> QED BY <1>2, <1>8, <4>1, <4>2, <4>3 DEF Listing, Listed
    <3> QED BY <1>5, <3>1, <3>2
  <2> QED BY <1>8, <2>1, <2>3 DEF RunSound
\* A page, full or not, below what was listed.
<1>12. ASSUME lo <= hi PROVE RunSound(m, rows, chain)
  <2>1. PICK n \in 1 .. chain : Gapless(m, lo, n, chain) /\ n - lo + 1 = l.pages * PAGE + Cardinality(next)
    <3>1. CASE before = 0 /\ l.listed = {} /\ l.pages = 0
      <4>1. hi = chain
        BY <3>1 DEF hi, Top
      <4>2. m.listed = lo .. chain
        BY <1>6, <1>8, <3>1, <4>1
      <4>3. Gapless(m, lo, chain, chain)
        BY <1>1, <1>3, <1>6, <1>7, <1>8, <1>12, <4>1, <4>2 DEF Gapless
      <4>4. l.pages * PAGE = 0
        BY <3>1
      <4>5. chain \in 1 .. chain
        BY <1>1, <1>3, <1>6, <1>7, <1>12
      <4> QED BY <1>1, <1>6, <1>12, <4>1, <4>3, <4>4, <4>5
    <3>2. CASE \E n \in 1 .. chain : before \in 1 .. chain /\ Gapless(l, before, n, chain) /\ n - before + 1 = l.pages * PAGE
      <4>1. PICK n \in 1 .. chain : before \in 1 .. chain /\ Gapless(l, before, n, chain) /\ n - before + 1 = l.pages * PAGE
        BY <3>2
      <4>2. hi = before - 1
        BY <4>1 DEF hi, Top
      <4>3. m.listed = lo .. n
        <5>1. l.listed = before .. n /\ before <= n
          BY <4>1 DEF Gapless
        <5> QED BY <1>6, <1>8, <1>12, <4>1, <4>2, <5>1
      <4>4. Gapless(m, lo, n, chain)
        <5>1. before <= n /\ InitialBurns <= n /\ n <= chain
          BY <4>1 DEF Gapless
        <5>2. lo <= n
          BY <1>6, <1>12, <4>1, <4>2, <5>1
        <5> QED BY <1>7, <1>8, <4>3, <5>1, <5>2 DEF Gapless
      <4>5. Cardinality(next) = before - lo
        BY <1>6, <1>12, <4>1, <4>2
      <4>6. n - lo + 1 = l.pages * PAGE + Cardinality(next)
        BY <1>6, <4>1, <4>5
      <4> QED BY <4>4, <4>6
    <3> QED BY <1>5, <3>1, <3>2
  <2>2. lo \in 1 .. chain
    <3>1. lo <= n
      BY <2>1 DEF Gapless
    <3> QED BY <1>1, <1>3, <1>6, <1>7, <3>1
  <2>3. CASE Cardinality(next) < PAGE
    <3>1. lo = l.head + 1
      BY <1>3, <1>6, <1>7, <1>12, <2>3
    <3>2. Listed(m, rows, chain)
      BY <1>2, <1>8, <2>1, <2>2, <3>1 DEF Listing, Listed
    <3> QED BY <1>8, <2>3, <3>2 DEF RunSound
  <2>4. CASE ~ Cardinality(next) < PAGE
    <3>1. Cardinality(next) = PAGE
      BY <1>3, <1>6, <1>7, <1>12, <2>4
    <3>2. n - lo + 1 = (l.pages + 1) * PAGE
      BY <1>9, <2>1, <3>1
    <3>3. CASE l.pages + 1 = MAX_PAGES
      <4>1. n - lo + 1 = Reach
        BY <3>2, <3>3 DEF Reach
      <4>2. Listed(m, rows, chain)
        BY <1>2, <1>8, <2>1, <2>2, <4>1 DEF Listing, Listed
      <4> QED BY <1>8, <3>3, <4>2 DEF RunSound
    <3>4. CASE l.pages + 1 # MAX_PAGES
      <4>1. m.pages \in 1 .. MAX_PAGES - 1
        BY <1>8, <1>9, <3>4
      <4>2. Listing(m, rows, chain)
        BY <1>2, <1>8, <2>1, <2>2, <3>2, <4>1 DEF Listing
      <4> QED BY <1>8, <2>4, <3>4, <4>2 DEF RunSound
    <3> QED BY <3>3, <3>4
  <2> QED BY <2>3, <2>4
<1>13. RunSound(m, rows, chain)
  BY <1>6, <1>11, <1>12
<1>14. rows' = rows /\ failures' = failures /\ UNCHANGED <<chain, head, backfill, done>>
  BY DEF ListPage
<1>15. rows' \subseteq (1 .. chain) \ Errored /\ failures' \in 0 .. MaxFailures
  BY <1>14, Types DEF IndexInv
<1> QED
  BY <1>4, <1>10, <1>13, <1>14, <1>15, RunStep

\* The head that a run which has listed will commit.
ListedHead(l) == IF l.listed = {} THEN l.head ELSE Newest(l.listed)

\* What a run that has listed may rely on.
LEMMA ListedMeans ==
  ASSUME IndexInv, NEW l \in Locals(chain), Listed(l, rows, chain)
  PROVE  /\ ListedHead(l) \in l.head .. chain
         /\ ListedHead(l) # 0 => ListedHead(l) >= InitialBurns
         /\ Recent(ListedHead(l), rows \cup l.listed)
         /\ l.head # 0 => Reached(ListedHead(l), l.backfill, l.done, rows \cup l.listed)
         /\ l.head = 0 /\ l.done => InitialBurns = 0
         /\ l.head = 0 /\ l.listed = {} => InitialBurns = 0
         /\ l.listed # {} => /\ ListedHead(l) = IncrementalNewest(l.listed, {}) /\ ListedHead(l) # 0
                             /\ Oldest(l.listed) \in 1 .. chain
                             /\ l.listed = Oldest(l.listed) .. ListedHead(l)
         /\ Cardinality(l.listed) < PAGE /\ l.listed # {} => Oldest(l.listed) = l.head + 1
<1> USE IndexerConstants
<1> DEFINE N == ListedHead(l)
<1>1. chain \in Nat /\ l.head \in 0 .. chain /\ InitialBurns <= chain
  BY Types DEF IndexInv, Locals
<1>2. /\ Reached(l.head, l.backfill, l.done, rows) /\ Recent(l.head, rows)
      /\ l.head # 0 => l.head >= InitialBurns
      /\ l.head = 0 /\ l.done => InitialBurns = 0
  BY DEF Listed, Sound
<1>3. CASE l.listed = {}
  <2>1. N = l.head
    BY <1>3 DEF ListedHead
  <2>2. l.head = 0 => InitialBurns = 0
    BY <1>3 DEF Listed, Gapless
  <2>3. Recent(l.head, rows \cup l.listed) /\ Reached(l.head, l.backfill, l.done, rows \cup l.listed)
    BY <1>2 DEF Recent, Reached
  <2> QED BY <1>1, <1>2, <1>3, <2>1, <2>2, <2>3
<1>4. CASE l.listed # {}
  <2>1. PICK a \in 1 .. chain, n \in 1 .. chain : Gapless(l, a, n, chain) /\ (a = l.head + 1 \/ n - a + 1 = Reach)
    BY <1>4 DEF Listed
  <2>2. l.listed = a .. n /\ l.head < a /\ a <= n /\ InitialBurns <= n /\ n <= chain
    BY <2>1 DEF Gapless
  <2>3. N = n /\ Oldest(l.listed) = a /\ IncrementalNewest(l.listed, {}) = n
    BY <1>4, <2>2, Ends DEF ListedHead, IncrementalNewest
  <2>4. Recent(n, rows \cup l.listed)
    <3> SUFFICES ASSUME Bounded, NEW s \in InitialBurns + 1 .. n, s \notin Errored, s \notin rows, s \notin l.listed PROVE FALSE
      BY DEF Recent
    <3>1. s < a
      BY <2>2
    <3>2. CASE a = l.head + 1
      BY <1>1, <1>2, <3>1, <3>2 DEF Recent
    <3>3. CASE n - a + 1 = Reach
      <4>1. s \in InitialBurns + 1 .. chain - Reach
        BY <1>1, <2>2, <3>1, <3>3, ReachIsNat
      <4> QED BY <4>1 DEF IndexInv, Recent
    <3> QED BY <2>1, <3>2, <3>3
  <2>5. ASSUME l.head # 0 PROVE Reached(n, l.backfill, l.done, rows \cup l.listed)
    <3> SUFFICES ASSUME Bounded, NEW s \in 1 .. n PROVE s \in Errored \cup (rows \cup l.listed) \/ (~ l.done /\ s < l.backfill)
      BY DEF Reached
    <3>1. CASE s <= l.head
      BY <1>1, <1>2, <3>1 DEF Reached
    <3>2. CASE s > l.head
      BY <1>1, <1>2, <2>4, <2>5, <3>2 DEF Recent
    <3> QED BY <1>1, <3>1, <3>2
  <2>6. Cardinality(l.listed) < PAGE => a = l.head + 1
    <3>1. Cardinality(a .. n) = IF a > n THEN 0 ELSE n - a + 1
      BY FS_Interval
    <3> QED BY <2>1, <2>2, <3>1, ReachIsNat
  <2> QED BY <1>1, <1>2, <1>4, <2>2, <2>3, <2>4, <2>5, <2>6
<1> QED BY <1>3, <1>4

\* A backfill page holds what is below its cursor, or it is full and the rest
\* is below the page.
LEMMA OlderMeans ==
  ASSUME chain \in Nat, NEW b \in 1 .. chain
  PROVE  /\ Page(b, 0) \subseteq 1 .. chain
         /\ Page(b, 0) # {} => Oldest(Page(b, 0)) \in 1 .. chain
         /\ \A s \in 1 .. b - 1 : s \in Page(b, 0) \/ (~ LastOlderPage(Page(b, 0)) /\ s < Oldest(Page(b, 0)))
         /\ Page(b, 0) = {} => LastOlderPage(Page(b, 0))
<1> USE IndexerConstants
<1> DEFINE lo == Bottom(b, 0)
           hi == Top(b)
           older == Page(b, 0)
<1>1. /\ lo \in Nat /\ hi \in Nat /\ older = lo .. hi
      /\ Cardinality(older) = IF lo > hi THEN 0 ELSE hi - lo + 1
  <2>1. b \in 0 .. chain /\ 0 \in Nat
    OBVIOUS
  <2> QED BY <2>1, PageMeans
<1>2. hi = b - 1 /\ lo >= 1 /\ (hi - PAGE > 0 => lo = hi - PAGE + 1) /\ (hi - PAGE <= 0 => lo = 1)
  BY DEF Top, Bottom
<1> HIDE DEF lo, hi, older
<1>3. lo <= hi => older # {} /\ Oldest(older) = lo
  <2>1. lo <= hi => Oldest(lo .. hi) = lo /\ lo \in lo .. hi
    BY <1>1, Ends
  <2> QED BY <1>1, <2>1
<1>4. \A s \in 1 .. b - 1 : s \in older \/ (~ LastOlderPage(older) /\ s < Oldest(older))
  <2> SUFFICES ASSUME NEW s \in 1 .. b - 1, s \notin older PROVE ~ LastOlderPage(older) /\ s < Oldest(older)
    OBVIOUS
  <2>1. s < lo /\ lo <= hi /\ lo = hi - PAGE + 1
    BY <1>1, <1>2
  <2> QED BY <1>1, <1>3, <2>1 DEF LastOlderPage
<1>5. older = {} => LastOlderPage(older)
  <2>1. older = {} => lo > hi
    BY <1>1, <1>3
  <2> QED BY <1>1, <2>1 DEF LastOlderPage
<1>6. older \subseteq 1 .. chain /\ (older # {} => Oldest(older) \in 1 .. chain)
  <2>1. older # {} => lo <= hi
    BY <1>1
  <2>2. hi <= chain
    BY <1>2
  <2>3. older \subseteq 1 .. chain
    BY <1>1, <1>2, <2>2
  <2>4. lo <= hi => lo \in 1 .. chain
    BY <1>1, <1>2, <2>2
  <2> QED BY <1>3, <2>1, <2>3, <2>4
<1> QED BY <1>4, <1>5, <1>6 DEF older

\* The cursors that a run chooses are sound once what it lists is stored.
LEMMA BackfillKeeps ==
  ASSUME IndexInv, NEW r \in Runs, Backfill(r)
  PROVE  IndexInv'
<1> USE IndexerConstants
<1> DEFINE l     == run[r]
           older == Page(l.backfill, 0)
           full  == Cardinality(l.listed) >= PAGE
           first == l.head = 0
           more  == ~ first /\ ~ l.done /\ l.backfill # 0
           fetch == [l EXCEPT !.phase = "fetch",
                              !.newest = IncrementalNewest(l.listed, IF more THEN older ELSE {})]
           begun == [fetch EXCEPT !.backfill = Oldest(l.listed)]
           back  == [fetch EXCEPT !.listed = @ \cup older,
                                  !.backfill = IF older = {} THEN 0 ELSE Oldest(older),
                                  !.done = LastOlderPage(older)]
           whole == [fetch EXCEPT !.done = TRUE]
           m     == IF first /\ full THEN begun ELSE IF more THEN back ELSE IF first THEN whole ELSE fetch
           N     == ListedHead(l)
<1>1. chain \in Nat /\ l \in Locals(chain) /\ InitialBurns <= chain
  BY Types DEF IndexInv
<1>2. Listed(l, rows, chain)
  BY DEF Backfill, IndexInv, RunSound
<1>3. /\ l.head \in 0 .. chain /\ l.listed \subseteq 1 .. chain
      /\ l.backfill \in 0 .. chain /\ l.done \in BOOLEAN
  BY <1>1 DEF Locals
<1>4. Becomes(r, m) /\ rows' = rows /\ failures' = failures /\ UNCHANGED <<chain, head, backfill, done>>
  BY DEF Backfill
<1> HIDE DEF l, m
<1>5. /\ N \in l.head .. chain
      /\ N # 0 => N >= InitialBurns
      /\ Recent(N, rows \cup l.listed)
      /\ l.head # 0 => Reached(N, l.backfill, l.done, rows \cup l.listed)
      /\ l.head = 0 /\ l.done => InitialBurns = 0
      /\ l.head = 0 /\ l.listed = {} => InitialBurns = 0
      /\ l.listed # {} => /\ N = IncrementalNewest(l.listed, {}) /\ N # 0
                          /\ Oldest(l.listed) \in 1 .. chain
                          /\ l.listed = Oldest(l.listed) .. N
      /\ Cardinality(l.listed) < PAGE /\ l.listed # {} => Oldest(l.listed) = l.head + 1
  <2> HIDE DEF N
  <2> QED BY <1>1, <1>2, ListedMeans DEF N
<1> HIDE DEF N
<1>6. l.listed = {} => N = l.head /\ ~ full
  <2>1. l.listed = {} => N = l.head
    BY DEF N, ListedHead
  <2>2. l.listed = {} => Cardinality(l.listed) = 0
    BY FS_EmptySet
  <2> QED BY <2>1, <2>2
<1> DEFINE newest == IncrementalNewest(l.listed, {})
<1>7. newest \in 0 .. chain /\ NextLatestSignature(l.head, newest) = N
  <2>1. CASE l.listed = {}
    BY <1>1, <1>6, <2>1 DEF IncrementalNewest, NextLatestSignature
  <2>2. CASE l.listed # {}
    BY <1>1, <1>3, <1>5, <2>2 DEF NextLatestSignature
  <2> QED BY <2>1, <2>2
<1>8. IncrementalNewest(l.listed, IF more THEN older ELSE {}) = newest
  BY DEF IncrementalNewest
<1> HIDE DEF newest
<1>9. ASSUME NEW b \in 0 .. chain, NEW d \in BOOLEAN, NEW S \in SUBSET (1 .. chain),
             m = [fetch EXCEPT !.backfill = b, !.done = d, !.listed = S],
             Sound(N, b, d, rows \cup S)
      PROVE  m \in Locals(chain) /\ RunSound(m, rows, chain)
  <2>1. /\ m.phase = "fetch" /\ m.head = l.head /\ m.backfill = b /\ m.done = d /\ m.listed = S
        /\ m.newest = newest
    BY <1>1, <1>8, <1>9 DEF Locals
  <2>2. m \in Locals(chain)
    BY <1>1, <1>7, <1>8, <1>9 DEF Locals
  <2>3. NextHead(m) = N
    BY <1>7, <2>1 DEF NextHead
  <2>4. Closing(m, rows \cup m.listed)
    BY <1>3, <1>5, <1>9, <2>1, <2>3 DEF Closing
  <2> QED BY <2>1, <2>2, <2>4 DEF RunSound
<1>10. ASSUME first /\ full PROVE m \in Locals(chain) /\ RunSound(m, rows, chain)
  <2>1. l.listed # {}
    BY <1>6, <1>10
  <2>2. m = [fetch EXCEPT !.backfill = Oldest(l.listed), !.done = l.done, !.listed = l.listed]
    BY <1>1, <1>10 DEF m, Locals
  <2>3. Reached(N, Oldest(l.listed), l.done, rows \cup l.listed)
    <3> SUFFICES ASSUME Bounded, NEW s \in 1 .. N, s \notin Errored \cup (rows \cup l.listed) PROVE ~ l.done /\ s < Oldest(l.listed)
      BY DEF Reached
    <3>1. s < Oldest(l.listed)
      BY <1>1, <1>5, <2>1
    <3>2. l.done => InitialBurns = 0
      BY <1>5, <1>10
    <3>3. ~ l.done
      BY <1>5, <3>2 DEF Recent
    <3> QED BY <3>1, <3>3
  <2>4. Sound(N, Oldest(l.listed), l.done, rows \cup l.listed)
    BY <1>5, <1>10, <2>1, <2>3 DEF Sound
  <2>5. Oldest(l.listed) \in 0 .. chain
    BY <1>5, <2>1
  <2> HIDE DEF fetch
  <2> QED BY <1>3, <1>9, <2>2, <2>4, <2>5
<1>11. ASSUME more PROVE m \in Locals(chain) /\ RunSound(m, rows, chain)
  <2> DEFINE b == IF older = {} THEN 0 ELSE Oldest(older)
             d == LastOlderPage(older)
  <2>1. l.backfill \in 1 .. chain
    BY <1>1, <1>3, <1>11
  <2>2. /\ older \subseteq 1 .. chain
        /\ older # {} => Oldest(older) \in 1 .. chain
        /\ \A s \in 1 .. l.backfill - 1 : s \in older \/ (~ d /\ s < Oldest(older))
        /\ older = {} => d
    BY <1>1, <2>1, OlderMeans
  <2>3. m = [fetch EXCEPT !.backfill = b, !.done = d, !.listed = l.listed \cup older]
    BY <1>1, <1>11 DEF m, Locals
  <2>4. d \in BOOLEAN /\ b \in 0 .. chain /\ l.listed \cup older \in SUBSET (1 .. chain)
    BY <1>1, <1>3, <2>2 DEF LastOlderPage
  <2> HIDE DEF older, d
  <2>5. Reached(N, b, d, rows \cup (l.listed \cup older))
    <3> SUFFICES ASSUME Bounded, NEW s \in 1 .. N, s \notin Errored \cup (rows \cup (l.listed \cup older)) PROVE ~ d /\ s < b
      BY DEF Reached
    <3>1. s < l.backfill
      BY <1>5, <1>11 DEF Reached
    <3>2. s \in 1 .. l.backfill - 1
      BY <2>1, <3>1, <1>5, <1>1, <1>3
    <3>3. ~ d /\ s < Oldest(older)
      BY <2>2, <3>2
    <3> QED BY <2>2, <3>3
  <2>6. Recent(N, rows \cup (l.listed \cup older))
    BY <1>5 DEF Recent
  <2>7. N # 0
    BY <1>3, <1>5, <1>11
  <2>8. Sound(N, b, d, rows \cup (l.listed \cup older))
    BY <1>5, <2>5, <2>6, <2>7 DEF Sound
  <2> HIDE DEF b
  <2> QED BY <1>9, <2>3, <2>4, <2>8
<1>12. ASSUME first /\ ~ full PROVE m \in Locals(chain) /\ RunSound(m, rows, chain)
  <2>1. m = [fetch EXCEPT !.backfill = l.backfill, !.done = TRUE, !.listed = l.listed]
    BY <1>1, <1>12 DEF m, Locals
  <2>2. Reached(N, l.backfill, TRUE, rows \cup l.listed)
    <3>1. CASE l.listed = {}
      BY <1>6, <1>12, <3>1 DEF Reached
    <3>2. CASE l.listed # {}
      <4>1. Cardinality(l.listed) < PAGE
        <5>1. Oldest(l.listed) \in Int /\ N \in Int
          BY <1>1, <1>3, <1>5, <3>2
        <5>2. Cardinality(l.listed) \in Nat
          BY <1>5, <3>2, <5>1, FS_Interval, FS_CardinalityType
        <5> QED BY <1>12, <5>2
      <4>2. l.listed = 1 .. N
        BY <1>5, <1>12, <3>2, <4>1
      <4> QED BY <4>2 DEF Reached
    <3> QED BY <3>1, <3>2
  <2>3. N = 0 => InitialBurns = 0
    BY <1>5, <1>12
  <2>4. Sound(N, l.backfill, TRUE, rows \cup l.listed)
    BY <1>5, <2>2, <2>3 DEF Sound
  <2> QED BY <1>3, <1>9, <2>1, <2>4
<1>13. ASSUME ~ first /\ ~ more PROVE m \in Locals(chain) /\ RunSound(m, rows, chain)
  <2>1. m = [fetch EXCEPT !.backfill = l.backfill, !.done = l.done, !.listed = l.listed]
    BY <1>1, <1>13 DEF m, Locals
  <2>2. N # 0
    BY <1>3, <1>5, <1>13
  <2>3. Sound(N, l.backfill, l.done, rows \cup l.listed)
    BY <1>5, <1>13, <2>2 DEF Sound
  <2> QED BY <1>3, <1>9, <2>1, <2>3
<1>14. m \in Locals(chain) /\ RunSound(m, rows, chain)
  BY <1>10, <1>11, <1>12, <1>13
<1>15. rows' \subseteq (1 .. chain) \ Errored /\ failures' \in 0 .. MaxFailures
  BY <1>4, Types DEF IndexInv
<1> QED
  BY <1>4, <1>14, <1>15, RunStep

\* A run goes on to store only when every transaction that succeeded was found.
LEMMA FetchKeeps ==
  ASSUME IndexInv, NEW r \in Runs, NEW missing, Fetch(r, missing)
  PROVE  IndexInv'
<1> USE IndexerConstants
<1> DEFINE l == run[r]
           m == [l EXCEPT !.phase = "store", !.listed = Succeeded(@) \ missing]
<1>1. chain \in Nat /\ l \in Locals(chain) /\ failures \in 0 .. MaxFailures /\ rows \subseteq (1 .. chain) \ Errored
  BY Types DEF IndexInv
<1>2. Closing(l, rows \cup l.listed)
  BY DEF Fetch, IndexInv, RunSound
<1>3. rows' = rows /\ UNCHANGED <<chain, head, backfill, done>>
  BY DEF Fetch
<1>4. failures' \in 0 .. MaxFailures
  BY <1>1 DEF Fetch
<1>5. CASE missing = {}
  <2>1. Becomes(r, m)
    BY <1>5 DEF Fetch, AllFetched
  <2>2. /\ m.phase = "store" /\ m.listed = l.listed \ Errored /\ m.head = l.head
        /\ m.backfill = l.backfill /\ m.done = l.done /\ m.newest = l.newest
    BY <1>1, <1>5 DEF Locals, Succeeded
  <2>3. m \in Locals(chain)
    BY <1>1 DEF Locals, Succeeded
  <2> HIDE DEF m
  <2>4. Closing(m, rows \cup m.listed)
    BY <1>2, <2>2 DEF Closing, Sound, Reached, Recent, NextHead
  <2>5. RunSound(m, rows', chain)
    BY <1>3, <2>2, <2>4 DEF RunSound
  <2> QED BY <1>1, <1>3, <1>4, <2>1, <2>3, <2>5, RunStep
<1>6. CASE missing # {}
  <2>1. Becomes(r, Idle)
    BY <1>6 DEF Fetch, AllFetched
  <2> QED BY <1>1, <1>3, <1>4, <2>1, IdleSound, RunStep
<1> QED BY <1>5, <1>6

\* What a run stores completes what its cursors promise.
LEMMA StoreKeeps ==
  ASSUME IndexInv, NEW r \in Runs, Store(r)
  PROVE  IndexInv'
<1> USE IndexerConstants
<1> DEFINE l == run[r]
           m == [l EXCEPT !.phase = "commit"]
<1>1. chain \in Nat /\ l \in Locals(chain) /\ failures \in 0 .. MaxFailures /\ rows \subseteq (1 .. chain) \ Errored
  BY Types DEF IndexInv
<1>2. Closing(l, rows \cup l.listed) /\ l.listed \cap Errored = {}
  BY DEF Store, IndexInv, RunSound
<1>3. rows' = rows \cup l.listed /\ failures' = failures /\ UNCHANGED <<chain, head, backfill, done>> /\ Becomes(r, m)
  BY DEF Store
<1>4. m.phase = "commit" /\ m.head = l.head /\ m.backfill = l.backfill /\ m.done = l.done /\ m.newest = l.newest
  BY <1>1 DEF Locals
<1>5. m \in Locals(chain) /\ l.listed \subseteq 1 .. chain
  BY <1>1 DEF Locals
<1> HIDE DEF m
<1>6. Closing(m, rows')
  BY <1>2, <1>3, <1>4 DEF Closing, NextHead
<1>7. RunSound(m, rows', chain)
  BY <1>4, <1>6 DEF RunSound
<1>8. rows \subseteq rows' /\ rows' \subseteq (1 .. chain) \ Errored
  BY <1>1, <1>2, <1>3, <1>5
<1> QED BY <1>1, <1>3, <1>5, <1>7, <1>8, RunStep

\* The cursors that a run commits are sound, however old the ones it read.
LEMMA CommitKeeps ==
  ASSUME IndexInv, NEW r \in Runs, Commit(r)
  PROVE  IndexInv' /\ head' >= run[r].head
<1> USE IndexerConstants
<1> DEFINE l == run[r]
<1>1. chain \in Nat /\ l \in Locals(chain) /\ run \in [Runs -> Locals(chain)]
  BY Types DEF IndexInv
<1>2. Closing(l, rows)
  BY DEF Commit, IndexInv, RunSound
<1>3. /\ head' = NextHead(l) /\ backfill' = l.backfill /\ done' = l.done
      /\ UNCHANGED <<chain, rows, failures>> /\ Becomes(r, Idle)
  BY DEF Commit, NextHead
<1>4. head' \in 0 .. chain /\ backfill' \in 0 .. chain /\ done' \in BOOLEAN
  BY <1>1, <1>3 DEF Locals, NextHead, NextLatestSignature
<1>5. Idle \in Locals(chain) /\ RunSound(Idle, rows, chain)
  BY <1>1, IdleSound
<1>6. run' \in [Runs -> Locals(chain)]
  BY <1>1, <1>3, <1>5 DEF Becomes
<1>7. TypeOK'
  BY <1>3, <1>4, <1>6 DEF IndexInv, TypeOK, Locals
<1>8. Sound(head', backfill', done', rows) /\ head' >= l.head
  BY <1>2, <1>3 DEF Closing
<1>9. ASSUME NEW q \in Runs PROVE RunSound(run'[q], rows, chain)
  BY <1>1, <1>3, <1>5 DEF Becomes, IndexInv
<1>10. InitialBurns <= chain /\ Recent(chain - Reach, rows)
  BY DEF IndexInv
<1> QED BY <1>3, <1>7, <1>8, <1>9, <1>10 DEF IndexInv

\* A run that fails leaves its cursors uncommitted; what it stored stays.
LEMMA AbortKeeps ==
  ASSUME IndexInv, NEW r \in Runs, NEW stored, Abort(r, stored)
  PROVE  IndexInv'
<1> USE IndexerConstants
<1>1. chain \in Nat /\ run[r] \in Locals(chain) /\ failures \in 0 .. MaxFailures /\ rows \subseteq (1 .. chain) \ Errored
  BY Types DEF IndexInv
<1>2. stored = {} \/ (stored \subseteq run[r].listed /\ run[r].listed \cap Errored = {})
  BY DEF Abort, IndexInv, RunSound
<1>3. run[r].listed \subseteq 1 .. chain
  BY <1>1 DEF Locals
<1>4. rows' = rows \cup stored /\ failures' \in 0 .. MaxFailures /\ Becomes(r, Idle) /\ UNCHANGED <<chain, head, backfill, done>>
  BY <1>1 DEF Abort
<1>5. rows \subseteq rows' /\ rows' \subseteq (1 .. chain) \ Errored
  BY <1>1, <1>2, <1>3, <1>4
<1> QED BY <1>1, <1>4, <1>5, IdleSound, RunStep

\* The head keeps up: what arrives is within the reach of the next listing.
LEMMA FinalizeKeeps ==
  ASSUME IndexInv, Finalize
  PROVE  IndexInv'
<1> USE IndexerConstants
<1>1. /\ chain \in Nat /\ chain' = chain + 1 /\ chain' <= MaxSignatures /\ run \in [Runs -> Locals(chain)]
      /\ UNCHANGED <<rows, head, backfill, done, run, failures>>
      /\ rows \subseteq (1 .. chain) \ Errored
      /\ head \in 0 .. chain /\ backfill \in 0 .. chain /\ done \in BOOLEAN /\ failures \in 0 .. MaxFailures
  BY Types DEF Finalize, IndexInv
<1>2. ASSUME NEW q \in Runs PROVE run[q] \in Locals(chain') /\ RunSound(run[q], rows, chain')
  <2>1. run[q] \in Locals(chain) /\ RunSound(run[q], rows, chain) /\ chain' \in Nat /\ chain <= chain'
    BY <1>1 DEF IndexInv
  <2> QED BY ONLY <1>1, <2>1, RunGrows
<1>3. run \in [Runs -> Locals(chain')]
  BY <1>1, <1>2
<1>4. TypeOK'
  <2>1. chain' \in 0 .. MaxSignatures /\ rows' \subseteq (1 .. chain') \ Errored
    BY <1>1
  <2>2. head' \in 0 .. chain' /\ backfill' \in 0 .. chain'
    BY <1>1
  <2>3. run' \in [Runs -> Locals(chain')]
    BY <1>1, <1>3
  <2> QED BY <1>1, <2>1, <2>2, <2>3 DEF TypeOK, Locals
<1>5. Recent(chain' - Reach, rows)
  <2> SUFFICES ASSUME Bounded, NEW s \in InitialBurns + 1 .. chain' - Reach PROVE s \in Errored \cup rows
    BY DEF Recent
  <2>1. chain - (IF head > InitialBurns THEN head ELSE InitialBurns) < MaxBacklog
    BY DEF Finalize
  <2>2. s <= head
    BY <1>1, <2>1, ReachIsNat DEF Bounded
  <2> QED BY <1>1, <2>2 DEF IndexInv, Sound, Recent
<1>6. InitialBurns <= chain' /\ Sound(head, backfill, done, rows)
  BY <1>1 DEF IndexInv
<1> QED BY <1>1, <1>2, <1>4, <1>5, <1>6 DEF IndexInv

\* Before the first run nothing is promised.
LEMMA IndexInit == Init => IndexInv
<1> USE IndexerConstants
<1> SUFFICES ASSUME Init PROVE IndexInv
  OBVIOUS
<1>1. chain = InitialBurns /\ chain \in Nat /\ rows = {} /\ head = 0 /\ backfill = 0 /\ done = FALSE /\ failures = 0
  BY DEF Init
<1>2. ASSUME NEW q \in Runs PROVE run[q] \in Locals(chain) /\ RunSound(run[q], rows, chain)
  BY <1>1, IdleSound DEF Init
<1>3. run \in [Runs -> Locals(chain)]
  BY <1>2 DEF Init
<1>4. TypeOK
  <2>1. 0 \in 0 .. chain /\ 0 \in 0 .. MaxFailures /\ chain \in 0 .. MaxSignatures
    BY <1>1
  <2> QED BY <1>1, <1>3, <2>1 DEF TypeOK, Locals
<1>5. Sound(head, backfill, done, rows)
  BY <1>1 DEF Sound, Reached, Recent
<1>6. Recent(chain - Reach, rows)
  BY <1>1, ReachIsNat DEF Recent
<1> QED BY <1>1, <1>2, <1>4, <1>5, <1>6 DEF IndexInv

LEMMA IndexStep ==
  ASSUME IndexInv, [Next]_vars
  PROVE  IndexInv'
<1>1. CASE UNCHANGED vars
  BY <1>1 DEF vars, IndexInv, TypeOK, Sound, Reached, Recent
<1>2. CASE Finalize
  BY <1>2, FinalizeKeeps
<1>3. CASE \E r \in Runs : ReadState(r) \/ ListPage(r) \/ Backfill(r) \/ Store(r) \/ Commit(r)
  BY <1>3, ReadStateKeeps, ListPageKeeps, BackfillKeeps, StoreKeeps, CommitKeeps
<1>4. CASE \E r \in Runs : \E S \in SUBSET run[r].listed : Fetch(r, S) \/ Abort(r, S)
  BY <1>4, FetchKeeps, AbortKeeps
<1> QED BY <1>1, <1>2, <1>3, <1>4 DEF Next

-----------------------------------------------------------------------------
(* The theorems of the index *)

\* indexFinalizedBurns: nothing that burned is left behind both cursors, as
\* long as no more arrives ahead of the head than one invocation lists
\* (MAX_INCREMENTAL_PAGES pages of SIGNATURE_PAGE), however many invocations
\* overlap, in whatever order they commit and wherever they fail.
THEOREM NoBurnForgotten ==
  ASSUME MaxBacklog <= PAGE * MAX_PAGES
  PROVE  Spec => []CursorsSound
<1>1. Init => IndexInv
  BY IndexInit
<1>2. IndexInv /\ [Next]_vars => IndexInv'
  BY IndexStep
<1>3. IndexInv => CursorsSound
  BY DEF IndexInv, CursorsSound, NoBurnSkipped, Sound, Reached, Bounded, Reach
<1> QED
  BY <1>1, <1>2, <1>3, PTL DEF Spec

\* nextLatestSignature: no run commits a head older than the one it read.
THEOREM HeadNeverReturns == Spec => HeadAdvances
<1>1. Init => IndexInv
  BY IndexInit
<1>2. IndexInv /\ [Next]_vars => IndexInv'
  BY IndexStep
<1>3. ASSUME IndexInv, [Next]_vars, NEW r \in Runs,
             run[r].phase = "commit", run'[r].phase = "idle", failures' = failures
      PROVE  head' >= run[r].head
  <2>1. run \in [Runs -> Locals(chain)] /\ failures \in Nat
    BY <1>3, Types, IndexerConstants DEF IndexInv
  <2>2. run' # run /\ Next
    BY <1>3 DEF vars
  <2>3. ASSUME NEW q \in Runs, NEW local, Becomes(q, local), run[q].phase # "commit" PROVE FALSE
    BY <1>3, <2>1, <2>3 DEF Becomes
  <2>4. PICK q \in Runs : ReadState(q) \/ ListPage(q) \/ Backfill(q) \/ Store(q) \/ Commit(q) \/ \E S \in SUBSET run[q].listed : Fetch(q, S) \/ Abort(q, S)
    BY <2>2 DEF Next, Finalize
  <2>5. CASE ReadState(q) \/ ListPage(q) \/ Backfill(q) \/ Store(q) \/ \E S \in SUBSET run[q].listed : Fetch(q, S)
    BY <2>3, <2>5 DEF ReadState, ListPage, Backfill, Store, Fetch
  <2>6. CASE \E S \in SUBSET run[q].listed : Abort(q, S)
    BY <1>3, <2>1, <2>6 DEF Abort
  <2>7. CASE Commit(q)
    <3>1. q = r
      BY <1>3, <2>1, <2>7 DEF Commit, Becomes
    <3> QED BY <1>3, <2>7, <3>1, CommitKeeps
  <2> QED BY <2>4, <2>5, <2>6, <2>7
<1>4. IndexInv /\ [Next]_vars => [\A r \in Runs : run[r].phase = "commit" /\ run'[r].phase = "idle" /\ failures' = failures
       => head' >= run[r].head]_vars
  BY <1>3
<1> QED
  BY <1>1, <1>2, <1>4, PTL DEF Spec, HeadAdvances

=============================================================================
