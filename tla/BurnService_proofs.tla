------------------------- MODULE BurnService_proofs -------------------------
(***************************************************************************)
(* What holds of BurnService for any number of requests and vaults, and    *)
(* whatever builds, simulations and the relay answer.                      *)
(***************************************************************************)
EXTENDS BurnService, TLAPS

-----------------------------------------------------------------------------
(* Types *)

JobType ==
  [attempt : 0 .. RetryLimit, capStart : 0 .. Caps, fit : 0 .. Caps, cashback : BOOLEAN,
   hash : {Never} \cup 0 .. MaxTime, sent : BOOLEAN, landed : BOOLEAN,
   timer : {Never} \cup 0 .. MaxTime + Ttl]

\* Before a request holds a lease, after it gave it back, and between.
Outside == {"new", "reading", "refused", "resolve", "lease"}
Working == {"admit", "quote", "simulate", "height", "sign", "signed", "submit", "submitted", "failed"}

\* A request holds its vault.
Holds(r) == VaultOf[r] \in DOMAIN active /\ active[VaultOf[r]] = r

\* A field of a request's locals has its type.
LEMMA JobFields ==
  ASSUME TypeOK, NEW r \in Reqs
  PROVE  /\ job[r] \in JobType
         /\ job[r].attempt \in 0 .. RetryLimit /\ job[r].capStart \in 0 .. Caps
         /\ job[r].fit \in 0 .. Caps /\ job[r].cashback \in BOOLEAN
         /\ job[r].hash \in {Never} \cup 0 .. MaxTime
         /\ job[r].sent \in BOOLEAN /\ job[r].landed \in BOOLEAN
         /\ job[r].timer \in {Never} \cup 0 .. MaxTime + Ttl
  BY DEF TypeOK, JobType

\* The clock, the phases, the locals and the drain have their types after every step.
LEMMA LocalsNext ==
  ASSUME TypeOK, [Next]_vars
  PROVE  /\ now' \in 0 .. MaxTime
         /\ phase' \in [Reqs -> Phases]
         /\ job' \in [Reqs -> JobType]
<1> USE ServiceConstants
<1>1. now \in 0 .. MaxTime /\ phase \in [Reqs -> Phases] /\ job \in [Reqs -> JobType]
  BY DEF TypeOK, JobType
<1> SUFFICES ASSUME Next PROVE now' \in 0 .. MaxTime /\ phase' \in [Reqs -> Phases] /\ job' \in [Reqs -> JobType]
  BY <1>1 DEF vars
<1>2. ASSUME NEW r \in Reqs, Admit(r) \/ \E ok \in BOOLEAN : Start(r, ok) \/ Resolve(r, ok) PROVE now' = now /\ job' = job /\ phase' \in [Reqs -> Phases]
  BY <1>1, <1>2 DEF Admit, Start, Resolve, Goto, Finish, Phases
<1>3. ASSUME NEW r \in Reqs, Acquire(r) \/ ReleaseFailed(r) \/ CheckHeight(r) \/ CheckSigned(r) PROVE now' = now /\ job' = job /\ phase' \in [Reqs -> Phases]
  BY <1>1, <1>3 DEF Acquire, ReleaseFailed, CheckHeight, CheckSigned, Step, Goto, Finish, Phases
<1>4. ASSUME NEW r \in Reqs, \E ok \in BOOLEAN : AdmitTargets(r, ok) \/ Sign(r, ok) PROVE now' = now /\ job' = job /\ phase' \in [Reqs -> Phases]
  BY <1>1, <1>4 DEF AdmitTargets, Sign, Step, Goto, Phases
<1>5. ASSUME NEW r \in Reqs, NEW fit \in 0 .. Caps, Quote(r, fit) PROVE now' = now /\ job' \in [Reqs -> JobType] /\ phase' \in [Reqs -> Phases]
  BY <1>1, <1>5 DEF Quote, Step, Goto, Set, Phases, JobType
<1>6. ASSUME NEW r \in Reqs, NEW outcome \in Outcomes, Simulate(r, outcome) PROVE now' = now /\ job' \in [Reqs -> JobType] /\ phase' \in [Reqs -> Phases]
  <2> DEFINE j == job[r]
             next == [j EXCEPT !.attempt = IF @ <= RetryLimit THEN @ + 1 ELSE @,
                               !.cashback = @ \/ outcome = "6018",
                               !.capStart = IF outcome = "compute" THEN j.fit + 1 ELSE @]
  <2>1. j \in JobType
    BY <1>1
  <2>2. Retries(j, outcome) => next \in JobType
    <3> SUFFICES ASSUME Retries(j, outcome) PROVE next \in JobType
      OBVIOUS
    <3>1. next.cashback \in BOOLEAN
      BY <2>1 DEF JobType
    <3>2. j.attempt + 1 \in 0 .. RetryLimit
      BY <2>1 DEF JobType, Retries
    <3>3. outcome = "compute" => j.fit + 1 \in 0 .. Caps
      BY <2>1 DEF JobType, Retries
    <3> QED
      BY <2>1, <3>1, <3>2, <3>3 DEF JobType
  <2>3. job' = [job EXCEPT ![r] = IF Retries(j, outcome) THEN next ELSE j]
    BY <1>6, Zenon DEF Simulate, Set
  <2>4. now' = now /\ phase' \in [Reqs -> Phases]
    BY <1>1, <1>6 DEF Simulate, Step, Goto, Phases
  <2> QED
    BY <1>1, <2>1, <2>2, <2>3, <2>4
<1>7. ASSUME NEW r \in Reqs, NEW taken \in BOOLEAN, NEW told \in BOOLEAN, Submit(r, taken, told) PROVE now' = now /\ job' \in [Reqs -> JobType] /\ phase' \in [Reqs -> Phases]
  BY <1>1, <1>7 DEF Submit, Step, Goto, Set, Phases, JobType
<1>8. ASSUME NEW r \in Reqs, ReleaseSubmitted(r) PROVE now' = now /\ job' \in [Reqs -> JobType] /\ phase' \in [Reqs -> Phases]
  BY <1>1, <1>8 DEF ReleaseSubmitted, Finish, Goto, Set, Phases, JobType, Never
<1>9. ASSUME NEW r \in Reqs, TtlTimer(r) \/ Settle(r) \/ Land(r) PROVE now' = now /\ job' \in [Reqs -> JobType] /\ phase' = phase
  <2>1. CASE TtlTimer(r)
    BY <1>1, <2>1 DEF TtlTimer, Set, JobType
  <2>2. CASE Settle(r)
    BY <1>1, <2>2 DEF Settle
  <2>3. CASE Land(r)
    BY <1>1, <2>3 DEF Land, Set, JobType
  <2> QED
    BY <1>9, <2>1, <2>2, <2>3
<1>10. ASSUME Shutdown \/ Drained \/ Forced \/ Closed PROVE now' = now /\ job' = job /\ phase' = phase
  BY <1>10 DEF Shutdown, Drained, Forced, Closed
<1>11. ASSUME Tick PROVE now' \in 0 .. MaxTime /\ job' = job /\ phase' = phase
  BY <1>1, <1>11 DEF Tick
<1> QED
  BY <1>1, <1>2, <1>3, <1>4, <1>5, <1>6, <1>7, <1>8, <1>9, <1>10, <1>11 DEF Next, Pipeline

-----------------------------------------------------------------------------
(* The lease map *)

\* Freeing a vault removes its entry and no other.
LEMMA FreeMeans ==
  ASSUME NEW v
  PROVE  /\ DOMAIN Free(v) = DOMAIN active \ {v}
         /\ \A w \in DOMAIN active \ {v} : Free(v)[w] = active[w]
  BY DEF Free

\* deleteIfStillOurs removes at most the entry of the one who calls it, and
\* leaves it none.
LEMMA DeleteMeans ==
  ASSUME NEW r
  PROVE  /\ DOMAIN DeleteIfStillOurs(r) \subseteq DOMAIN active
         /\ \A w \in DOMAIN DeleteIfStillOurs(r) : DeleteIfStillOurs(r)[w] = active[w]
         /\ \A w \in DOMAIN active \ DOMAIN DeleteIfStillOurs(r) : w = VaultOf[r] /\ active[w] = r
         /\ VaultOf[r] \in DOMAIN DeleteIfStillOurs(r) => DeleteIfStillOurs(r)[VaultOf[r]] # r
<1>1. CASE VaultOf[r] \in DOMAIN active
  BY <1>1, FreeMeans DEF DeleteIfStillOurs, HolderOf
<1>2. CASE VaultOf[r] \notin DOMAIN active
  <2>1. DOMAIN DeleteIfStillOurs(r) = DOMAIN active
    BY <1>2, FreeMeans DEF DeleteIfStillOurs
  <2>2. \A w \in DOMAIN active : DeleteIfStillOurs(r)[w] = active[w]
    BY <1>2, FreeMeans DEF DeleteIfStillOurs
  <2> QED BY <1>2, <2>1, <2>2
<1> QED BY <1>1, <1>2

-----------------------------------------------------------------------------
(* LeasesSound *)

\* Every entry belongs to a request of its own vault that is past its lease.
HoldersPast ==
  /\ DOMAIN active \subseteq Vaults
  /\ \A v \in DOMAIN active : active[v] \in Reqs /\ VaultOf[active[v]] = v /\ phase[active[v]] \notin Outside

\* The requests in flight are those between their start and their end.
InflightIs == inflight = {r \in Reqs : phase[r] \notin {"new", "reading", "refused", "done"}}

Bookkept ==
  /\ submitted \subseteq {IdOf[r] : r \in Reqs}
  /\ drain \in [state : {"open", "draining", "drained", "forced", "clean", "cut"}, awaited : SUBSET Reqs]

\* The type invariant, taken apart.
LEMMA TypeParts ==
  TypeOK <=> /\ now \in 0 .. MaxTime /\ phase \in [Reqs -> Phases] /\ job \in [Reqs -> JobType]
             /\ InflightIs /\ HoldersPast /\ Bookkept
  BY DEF TypeOK, JobType, InflightIs, HoldersPast, Bookkept, Outside

\* The set of running burns, the submitted ids and the drain stay as they should be.
LEMMA BooksNext ==
  ASSUME TypeOK, [Next]_vars
  PROVE  InflightIs' /\ Bookkept'
<1>1. phase \in [Reqs -> Phases] /\ InflightIs /\ Bookkept
  BY TypeParts
<1> USE <1>1 DEF InflightIs, Bookkept
<1>2. ASSUME NEW r \in Reqs, Admit(r) \/ \E ok \in BOOLEAN : Start(r, ok) \/ Resolve(r, ok) PROVE InflightIs' /\ Bookkept'
  BY <1>2 DEF Admit, Start, Resolve, Goto, Finish, server
<1>3. ASSUME NEW r \in Reqs, Acquire(r) \/ ReleaseFailed(r) \/ ReleaseSubmitted(r) PROVE InflightIs' /\ Bookkept'
  BY <1>3 DEF Acquire, ReleaseFailed, ReleaseSubmitted, Goto, Finish
<1>4. ASSUME NEW r \in Reqs, NEW from, NEW to,
             from \notin {"new", "reading", "refused", "done"}, to \notin {"new", "reading", "refused", "done"}, Step(r, from, to)
      PROVE InflightIs' /\ Bookkept'
  BY <1>4 DEF Step, Goto, server
<1>5. ASSUME NEW r \in Reqs, \E ok \in BOOLEAN : AdmitTargets(r, ok) \/ Sign(r, ok) PROVE InflightIs' /\ Bookkept'
  BY <1>4, <1>5 DEF AdmitTargets, Sign
<1>6. ASSUME NEW r \in Reqs, NEW fit \in 0 .. Caps, Quote(r, fit) PROVE InflightIs' /\ Bookkept'
  BY <1>4, <1>6 DEF Quote
<1>7. ASSUME NEW r \in Reqs, NEW outcome \in Outcomes, Simulate(r, outcome) PROVE InflightIs' /\ Bookkept'
  BY <1>4, <1>7 DEF Simulate
<1>8. ASSUME NEW r \in Reqs, CheckHeight(r) \/ CheckSigned(r) \/ \E taken, told \in BOOLEAN : Submit(r, taken, told) PROVE InflightIs' /\ Bookkept'
  BY <1>4, <1>8 DEF CheckHeight, CheckSigned, Submit
<1>9. ASSUME NEW r \in Reqs, TtlTimer(r) \/ Settle(r) \/ Land(r) PROVE InflightIs' /\ Bookkept'
  BY <1>9 DEF TtlTimer, Settle, Land
<1>10. ASSUME Shutdown \/ Drained \/ Forced \/ Closed \/ Tick PROVE InflightIs' /\ Bookkept'
  <2>1. InflightIs' /\ submitted' = submitted
    BY <1>10 DEF Shutdown, Drained, Forced, Closed, Tick
  <2>2. Bookkept'
    BY <1>10 DEF Shutdown, Drained, Forced, Closed, Tick
  <2> QED BY <2>1, <2>2
<1>11. CASE UNCHANGED vars
  BY <1>11 DEF vars
<1> QED
  BY <1>2, <1>3, <1>5, <1>6, <1>7, <1>8, <1>9, <1>10, <1>11 DEF Next, Pipeline

\* A step of a request that holds its lease, or seeks it, leaves the others and
\* the lease map alone.
LEMMA StepMeans ==
  ASSUME TypeOK, NEW r \in Reqs, NEW from, NEW to, Step(r, from, to)
  PROVE  /\ phase[r] = from /\ phase' = [phase EXCEPT ![r] = to] /\ phase'[r] = to
         /\ \A s \in Reqs \ {r} : phase'[s] = phase[s]
         /\ now' = now /\ inflight' = inflight /\ active' = active /\ submitted' = submitted
  BY TypeParts DEF Step, Goto, server

\* The steps of the pipeline between the lease and its release.
Works(r) ==
  \/ \E ok \in BOOLEAN : AdmitTargets(r, ok) \/ Sign(r, ok)
  \/ \E fit \in 0 .. Caps : Quote(r, fit)
  \/ \E outcome \in Outcomes : Simulate(r, outcome)
  \/ \E taken, told \in BOOLEAN : Submit(r, taken, told)
  \/ CheckHeight(r) \/ CheckSigned(r)

\* They go from work to work, and no timer runs or stops.
LEMMA WorkMeans ==
  ASSUME TypeOK, NEW r \in Reqs, Works(r)
  PROVE  /\ phase[r] \in Working \ {"submitted", "failed"} /\ phase'[r] \in Working
         /\ \A s \in Reqs \ {r} : phase'[s] = phase[s] /\ job'[s] = job[s]
         /\ job'[r].timer = job[r].timer
         /\ now' = now /\ active' = active /\ submitted' = submitted
<1>1. job \in [Reqs -> JobType] /\ job[r] \in JobType
  BY TypeParts
<1>2. \A from, to : Step(r, from, to) =>
        /\ phase[r] = from /\ phase'[r] = to /\ \A s \in Reqs \ {r} : phase'[s] = phase[s]
        /\ now' = now /\ active' = active /\ submitted' = submitted
  BY StepMeans
<1>3. CASE \E ok \in BOOLEAN : AdmitTargets(r, ok) \/ Sign(r, ok)
  BY <1>2, <1>3 DEF AdmitTargets, Sign, Working
<1>4. CASE CheckHeight(r) \/ CheckSigned(r)
  BY <1>2, <1>4 DEF CheckHeight, CheckSigned, Working
<1>5. ASSUME NEW fit \in 0 .. Caps, Quote(r, fit)
      PROVE  /\ phase[r] = "quote" /\ phase'[r] \in {"simulate", "failed"}
             /\ \A s \in Reqs \ {r} : phase'[s] = phase[s] /\ job'[s] = job[s]
             /\ job'[r].timer = job[r].timer
             /\ now' = now /\ active' = active /\ submitted' = submitted
  <2>1. Step(r, "quote", IF fit < Caps THEN "simulate" ELSE "failed")
    BY <1>5 DEF Quote
  <2>2. (\A s \in Reqs \ {r} : job'[s] = job[s]) /\ job'[r].timer = job[r].timer
    BY <1>1, <1>5 DEF Quote, Set, JobType
  <2> QED BY <1>2, <2>1, <2>2
<1>6. ASSUME NEW outcome \in Outcomes, Simulate(r, outcome)
      PROVE  /\ phase[r] = "simulate" /\ phase'[r] \in {"height", "quote", "failed"}
             /\ \A s \in Reqs \ {r} : phase'[s] = phase[s] /\ job'[s] = job[s]
             /\ job'[r].timer = job[r].timer
             /\ now' = now /\ active' = active /\ submitted' = submitted
  <2>1. PICK to \in {"height", "quote", "failed"} : Step(r, "simulate", to)
    BY <1>6 DEF Simulate
  <2>2. (\A s \in Reqs \ {r} : job'[s] = job[s]) /\ job'[r].timer = job[r].timer
    BY <1>1, <1>6 DEF Simulate, Set, JobType
  <2> QED BY <1>2, <2>1, <2>2
<1>7. ASSUME NEW taken \in BOOLEAN, NEW told \in BOOLEAN, Submit(r, taken, told)
      PROVE  /\ phase[r] = "submit" /\ phase'[r] \in {"submitted", "failed"}
             /\ \A s \in Reqs \ {r} : phase'[s] = phase[s] /\ job'[s] = job[s]
             /\ job'[r].timer = job[r].timer
             /\ now' = now /\ active' = active /\ submitted' = submitted
  <2>1. PICK to \in {"submitted", "failed"} : Step(r, "submit", to)
    BY <1>7 DEF Submit
  <2>2. (\A s \in Reqs \ {r} : job'[s] = job[s]) /\ job'[r].timer = job[r].timer
    BY <1>1, <1>7 DEF Submit, Set, JobType
  <2> QED BY <1>2, <2>1, <2>2
<1> QED
  BY <1>3, <1>4, <1>5, <1>6, <1>7 DEF Works, Working

\* Nobody holds a vault without working for it, or having a timer that will end
\* the hold.
LEMMA HoldersNext ==
  ASSUME TypeOK, HoldsEnd, [Next]_vars
  PROVE  HoldersPast' /\ HoldsEnd'
<1> USE DEF HoldersPast, HoldsEnd, Outside
<1>1. phase \in [Reqs -> Phases] /\ job \in [Reqs -> JobType] /\ HoldersPast
  BY TypeParts
<1>2. ASSUME NEW r \in Reqs, Admit(r) \/ \E ok \in BOOLEAN : Start(r, ok) \/ Resolve(r, ok) PROVE HoldersPast' /\ HoldsEnd'
  BY <1>1, <1>2 DEF Admit, Start, Resolve, Goto, Finish, server
<1>3. ASSUME NEW r \in Reqs, Acquire(r) PROVE HoldersPast' /\ HoldsEnd'
  <2>1. CASE DuplicateRequest(IdOf[r]) \/ VaultBusy(VaultOf[r])
    BY <1>1, <1>3, <2>1 DEF Acquire, Finish, Goto
  <2>2. CASE ~ (DuplicateRequest(IdOf[r]) \/ VaultBusy(VaultOf[r]))
    <3>1. /\ DOMAIN active' = DOMAIN active \cup {VaultOf[r]} /\ active'[VaultOf[r]] = r
          /\ \A w \in DOMAIN active \ {VaultOf[r]} : active'[w] = active[w]
      <4>1. active' = Take(VaultOf[r], r)
        BY <1>3, <2>2 DEF Acquire
      <4> QED BY <4>1 DEF Take
    <3>2. phase' = [phase EXCEPT ![r] = "admit"] /\ job' = job
      BY <1>3, <2>2 DEF Acquire, Goto
    <3>3. VaultOf[r] \in Vaults
      BY DEF Vaults
    <3> QED BY <1>1, <3>1, <3>2, <3>3
  <2> QED BY <2>1, <2>2
<1>4. ASSUME NEW r \in Reqs, ReleaseFailed(r) PROVE HoldersPast' /\ HoldsEnd'
  BY <1>1, <1>4, DeleteMeans DEF ReleaseFailed, Finish, Goto
<1>5. ASSUME NEW r \in Reqs, ReleaseSubmitted(r) PROVE HoldersPast' /\ HoldsEnd'
  <2>1. job'[r].timer = now + Ttl /\ now + Ttl # Never /\ \A s \in Reqs \ {r} : job'[s] = job[s]
    BY <1>1, <1>5, TypeParts, ServiceConstants DEF ReleaseSubmitted, Set, JobType, Never
  <2> QED BY <1>1, <1>5, <2>1 DEF ReleaseSubmitted, Finish, Goto
<1>6. ASSUME NEW r \in Reqs, TtlTimer(r) PROVE HoldersPast' /\ HoldsEnd'
  <2>1. \A s \in Reqs \ {r} : job'[s] = job[s]
    BY <1>1, <1>6 DEF TtlTimer, Set
  <2>2. /\ DOMAIN active' \subseteq DOMAIN active
        /\ \A w \in DOMAIN active' : active'[w] = active[w] /\ active'[w] # r
    BY <1>1, <1>6, DeleteMeans DEF TtlTimer
  <2> QED BY <1>1, <1>6, <2>1, <2>2 DEF TtlTimer
<1>7. ASSUME NEW r \in Reqs, Settle(r) PROVE HoldersPast' /\ HoldsEnd'
  <2>1. /\ DOMAIN active' \subseteq DOMAIN active /\ \A w \in DOMAIN active' : active'[w] = active[w]
    BY <1>7, FreeMeans DEF Settle
  <2> QED BY <1>1, <1>7, <2>1 DEF Settle
<1>8. ASSUME NEW r \in Reqs, Land(r) PROVE HoldersPast' /\ HoldsEnd'
  <2>1. \A s \in Reqs : job'[s].timer = job[s].timer
    BY <1>1, <1>8 DEF Land, Set, JobType
  <2> QED BY <1>1, <1>8, <2>1 DEF Land
<1>9. ASSUME NEW r \in Reqs, Works(r) PROVE HoldersPast' /\ HoldsEnd'
  <2>1. /\ phase'[r] \notin {"new", "reading", "refused", "resolve", "lease", "done"}
        /\ \A s \in Reqs \ {r} : phase'[s] = phase[s] /\ job'[s] = job[s]
        /\ active' = active
    BY <1>9, WorkMeans DEF Working
  <2> QED BY <1>1, <2>1
<1>10. CASE Shutdown \/ Drained \/ Forced \/ Closed \/ Tick \/ UNCHANGED vars
  BY <1>1, <1>10 DEF Shutdown, Drained, Forced, Closed, Tick, vars
<1> QED
  BY <1>2, <1>3, <1>4, <1>5, <1>6, <1>7, <1>8, <1>9, <1>10 DEF Next, Pipeline, Works

\* Every lease is of a burn of its own vault and is going to be removed, whatever
\* the relay answers: no vault stays busy for ever.
THEOREM EveryLeaseEnds == Spec => []LeasesSound
<1>1. Init => LeasesSound
  BY ServiceConstants DEF Init, LeasesSound, TypeOK, HoldsEnd, Fresh, Never, Phases, Vaults
<1>2. LeasesSound /\ [Next]_vars => LeasesSound'
  <2> SUFFICES ASSUME LeasesSound, [Next]_vars PROVE LeasesSound'
    OBVIOUS
  <2>1. InflightIs' /\ Bookkept'
    BY BooksNext DEF LeasesSound
  <2>2. HoldersPast' /\ HoldsEnd'
    BY HoldersNext DEF LeasesSound
  <2>3. now' \in 0 .. MaxTime /\ phase' \in [Reqs -> Phases] /\ job' \in [Reqs -> JobType]
    BY LocalsNext DEF LeasesSound
  <2> QED
    BY <2>1, <2>2, <2>3 DEF LeasesSound, TypeOK, JobType, InflightIs, Bookkept, HoldersPast, Outside
<1> QED BY <1>1, <1>2, PTL DEF Spec

-----------------------------------------------------------------------------
(* OneOutstanding and SubmittedOnce, when the relay's answer can be believed *)

\* A request at work holds its vault.
WorkersHold == \A r \in Reqs : phase[r] \in Working => Holds(r)

\* What was submitted is known to be: the request says so, or has said so.
SentIsKnown ==
  \A r \in Reqs : /\ job[r].sent => phase[r] \in {"submitted", "done"}
                  /\ phase[r] = "submitted" => job[r].sent
                  /\ job[r].sent /\ phase[r] = "done" => IdOf[r] \in submitted

\* A transaction carries a blockhash of the past.
HashKnown ==
  \A r \in Reqs :
    phase[r] \in {"simulate", "height", "sign", "signed", "submit", "submitted"} => job[r].hash \in 0 .. now

\* A hold outlasts the transaction it is kept for.
HoldsOutlast ==
  \A r \in Reqs : job[r].timer # Never =>
    phase[r] = "done" /\ job[r].hash \in 0 .. now /\ job[r].timer >= job[r].hash + Ttl

\* While a transaction may be executed its vault is held for it.
OutstandingHolds == \A r \in Reqs : Outstanding(r) => Holds(r)

\* While a request is at work, no other of its vault with its id was submitted.
OnlySender ==
  \A r, s \in Reqs :
    r # s /\ VaultOf[r] = VaultOf[s] /\ IdOf[r] = IdOf[s] /\ phase[r] \in Working => ~ job[s].sent

LeaseInv ==
  LeasesSound /\ WorkersHold /\ SentIsKnown /\ HashKnown /\ HoldsOutlast /\ OutstandingHolds /\ OnlySender /\ SubmittedOnce

\* What was outstanding may have landed or expired, and nothing else becomes so
\* but by its submission.
LEMMA WorkSends ==
  ASSUME LeaseInv, ~ Ambiguous, NEW r \in Reqs, Works(r)
  PROVE  /\ job'[r].sent <=> phase'[r] = "submitted"
         /\ phase'[r] \in {"simulate", "height", "sign", "signed", "submit", "submitted"} => job'[r].hash \in 0 .. now
<1>1. /\ TypeOK /\ job \in [Reqs -> JobType] /\ job[r] \in JobType /\ now \in 0 .. MaxTime
  BY TypeParts DEF LeaseInv, LeasesSound
<1>2. phase[r] \in Working \ {"submitted", "failed"} /\ ~ job[r].sent
  BY <1>1, WorkMeans DEF LeaseInv, SentIsKnown, Working
<1>3. phase[r] \in {"simulate", "height", "sign", "signed", "submit"} => job[r].hash \in 0 .. now
  BY DEF LeaseInv, HashKnown
<1>4. \A from, to : Step(r, from, to) => phase[r] = from /\ phase'[r] = to
  BY <1>1, StepMeans
<1>5. CASE \E ok \in BOOLEAN : AdmitTargets(r, ok)
  BY <1>2, <1>4, <1>5 DEF AdmitTargets
<1>6. CASE CheckHeight(r) \/ CheckSigned(r) \/ \E ok \in BOOLEAN : Sign(r, ok)
  BY <1>2, <1>3, <1>4, <1>6 DEF CheckHeight, CheckSigned, Sign
<1>7. ASSUME NEW fit \in 0 .. Caps, Quote(r, fit)
      PROVE  ~ job'[r].sent /\ phase'[r] \in {"simulate", "failed"} /\ (phase'[r] = "simulate" => job'[r].hash = now)
  <2>1. Step(r, "quote", IF fit < Caps THEN "simulate" ELSE "failed")
    BY <1>7 DEF Quote
  <2>2. ~ job'[r].sent /\ (fit < Caps => job'[r].hash = now)
    BY <1>1, <1>2, <1>7 DEF Quote, Set, JobType
  <2> QED BY <1>4, <2>1, <2>2
<1>8. ASSUME NEW outcome \in Outcomes, Simulate(r, outcome)
      PROVE  /\ ~ job'[r].sent /\ phase[r] = "simulate" /\ phase'[r] \in {"height", "quote", "failed"}
             /\ job'[r].hash = job[r].hash
  <2>1. \E to \in {"height", "quote", "failed"} : Step(r, "simulate", to)
    BY <1>8 DEF Simulate
  <2>2. ~ job'[r].sent /\ job'[r].hash = job[r].hash
    BY <1>1, <1>2, <1>8 DEF Simulate, Set, JobType
  <2> QED BY <1>4, <2>1, <2>2
<1>9. ASSUME NEW taken \in BOOLEAN, NEW told \in BOOLEAN, Submit(r, taken, told)
      PROVE  /\ job'[r].sent <=> phase'[r] = "submitted"
             /\ phase[r] = "submit" /\ phase'[r] \in {"submitted", "failed"} /\ job'[r].hash = job[r].hash
  <2>1. Step(r, "submit", IF told THEN "submitted" ELSE "failed")
    BY <1>9 DEF Submit
  <2>2. job'[r].sent = taken /\ job'[r].hash = job[r].hash
    BY <1>1, <1>9 DEF Submit, Set, JobType
  <2>3. taken <=> told
    BY <1>9 DEF Submit
  <2> QED BY <1>4, <2>1, <2>2, <2>3
<1> QED
  BY <1>1, <1>3, <1>5, <1>6, <1>7, <1>8, <1>9 DEF Works

\* The steps between a lease and its release keep the invariant: only the one
\* that holds the vault submits.
LEMMA WorkNext ==
  ASSUME LeaseInv, ~ Ambiguous, NEW r \in Reqs, Works(r)
  PROVE  (WorkersHold /\ SentIsKnown /\ HashKnown /\ HoldsOutlast /\ OutstandingHolds /\ OnlySender /\ SubmittedOnce)'
<1>1. /\ phase[r] \in Working \ {"submitted", "failed"} /\ phase'[r] \in Working
      /\ \A s \in Reqs \ {r} : phase'[s] = phase[s] /\ job'[s] = job[s]
      /\ job'[r].timer = job[r].timer
      /\ now' = now /\ active' = active /\ submitted' = submitted
  BY WorkMeans DEF LeaseInv, LeasesSound
<1>2. /\ job'[r].sent <=> phase'[r] = "submitted"
      /\ phase'[r] \in {"simulate", "height", "sign", "signed", "submit", "submitted"} => job'[r].hash \in 0 .. now
  BY WorkSends
<1>3. "done" \notin Working /\ job[r].timer = Never
  BY <1>1 DEF LeaseInv, HoldsOutlast, Working
<1>4. \A s \in Reqs : Holds(s)' <=> Holds(s)
  BY <1>1 DEF Holds
<1>5. WorkersHold'
  BY <1>1, <1>4 DEF LeaseInv, WorkersHold
<1>6. SentIsKnown'
  BY <1>1, <1>2, <1>3 DEF LeaseInv, SentIsKnown
<1>7. HashKnown'
  BY <1>1, <1>2 DEF LeaseInv, HashKnown
<1>8. HoldsOutlast'
  BY <1>1, <1>3 DEF LeaseInv, HoldsOutlast
<1>9. OutstandingHolds'
  BY <1>1, <1>4, <1>5 DEF LeaseInv, OutstandingHolds, Outstanding, WorkersHold
<1>10. \A s \in Reqs \ {r} : VaultOf[s] = VaultOf[r] => phase[s] \notin Working
  BY <1>1 DEF LeaseInv, WorkersHold, Holds
<1>11. OnlySender'
  BY <1>1, <1>10 DEF LeaseInv, OnlySender
<1>12. SubmittedOnce'
  BY <1>1 DEF LeaseInv, SubmittedOnce, OnlySender
<1> QED
  BY <1>5, <1>6, <1>7, <1>8, <1>9, <1>11, <1>12

\* A request enters, or leaves before it holds anything.
LEMMA OutsideNext ==
  ASSUME LeaseInv, NEW r \in Reqs, phase[r] \in Outside,
         NEW p \in Outside \cup {"done"}, phase' = [phase EXCEPT ![r] = p],
         UNCHANGED <<now, job, active, submitted>>
  PROVE  (WorkersHold /\ SentIsKnown /\ HashKnown /\ HoldsOutlast /\ OutstandingHolds /\ OnlySender /\ SubmittedOnce)'
<1>1. /\ ~ job[r].sent /\ job[r].timer = Never
      /\ phase'[r] = p /\ p \notin Working /\ \A s \in Reqs \ {r} : phase'[s] = phase[s]
  BY TypeParts DEF LeaseInv, LeasesSound, SentIsKnown, HoldsOutlast, Outside, Working
<1>2. \A s \in Reqs : (Holds(s)' <=> Holds(s)) /\ (Outstanding(s)' <=> Outstanding(s))
  BY DEF Holds, Outstanding
<1>3. (WorkersHold /\ OutstandingHolds)'
  BY <1>1, <1>2 DEF LeaseInv, WorkersHold, OutstandingHolds
<1>4. (SentIsKnown /\ HashKnown /\ HoldsOutlast)'
  BY <1>1 DEF LeaseInv, SentIsKnown, HashKnown, HoldsOutlast, Outside
<1>5. (OnlySender /\ SubmittedOnce)'
  BY <1>1 DEF LeaseInv, OnlySender, SubmittedOnce
<1> QED BY <1>3, <1>4, <1>5

\* Who takes a vault finds neither a transaction outstanding nor its own id
\* submitted.
LEMMA AcquireNext ==
  ASSUME LeaseInv, NEW r \in Reqs, Acquire(r)
  PROVE  (WorkersHold /\ SentIsKnown /\ HashKnown /\ HoldsOutlast /\ OutstandingHolds /\ OnlySender /\ SubmittedOnce)'
<1>1. CASE DuplicateRequest(IdOf[r]) \/ VaultBusy(VaultOf[r])
  BY <1>1, OutsideNext DEF Acquire, Finish, Goto, Outside
<1>2. CASE ~ (DuplicateRequest(IdOf[r]) \/ VaultBusy(VaultOf[r]))
  <2>1. /\ phase[r] = "lease" /\ phase' = [phase EXCEPT ![r] = "admit"]
        /\ IdOf[r] \notin submitted /\ VaultOf[r] \notin DOMAIN active
        /\ active' = Take(VaultOf[r], r) /\ UNCHANGED <<now, job, submitted>>
    BY <1>2 DEF Acquire, Goto, DuplicateRequest, VaultBusy
  <2>2. /\ ~ job[r].sent /\ job[r].timer = Never
        /\ phase'[r] = "admit" /\ \A s \in Reqs \ {r} : phase'[s] = phase[s]
    BY <2>1, TypeParts DEF LeaseInv, LeasesSound, SentIsKnown, HoldsOutlast
  <2>3. Holds(r)' /\ \A s \in Reqs : Holds(s) => Holds(s)'
    BY <2>1 DEF Holds, Take
  <2>4. \A s \in Reqs : Outstanding(s)' <=> Outstanding(s)
    BY <2>1 DEF Outstanding
  <2>5. (WorkersHold /\ OutstandingHolds)'
    BY <2>2, <2>3, <2>4 DEF LeaseInv, WorkersHold, OutstandingHolds
  <2>6. (SentIsKnown /\ HashKnown /\ HoldsOutlast)'
    BY <2>1, <2>2 DEF LeaseInv, SentIsKnown, HashKnown, HoldsOutlast
  <2>7. \A s \in Reqs : VaultOf[s] = VaultOf[r] /\ IdOf[s] = IdOf[r] => ~ job[s].sent
    BY <2>1 DEF LeaseInv, SentIsKnown, WorkersHold, Holds, Working
  <2>8. (OnlySender /\ SubmittedOnce)'
    BY <2>1, <2>2, <2>7 DEF LeaseInv, OnlySender, SubmittedOnce
  <2> QED BY <2>5, <2>6, <2>8
<1> QED BY <1>1, <1>2

\* An end of work that submitted nothing, or that has told of its submission.
LEMMA ReleaseNext ==
  ASSUME LeaseInv, NEW r \in Reqs, ReleaseFailed(r) \/ ReleaseSubmitted(r)
  PROVE  (WorkersHold /\ SentIsKnown /\ HashKnown /\ HoldsOutlast /\ OutstandingHolds /\ OnlySender /\ SubmittedOnce)'
<1>1. TypeOK /\ job \in [Reqs -> JobType] /\ phase \in [Reqs -> Phases] /\ now \in 0 .. MaxTime
  BY TypeParts DEF LeaseInv, LeasesSound
<1>2. /\ phase[r] \in {"failed", "submitted"} /\ phase'[r] = "done"
      /\ \A s \in Reqs \ {r} : phase'[s] = phase[s]
      /\ now' = now
  BY <1>1 DEF ReleaseFailed, ReleaseSubmitted, Finish, Goto
<1>3. CASE ReleaseFailed(r)
  <2>1. ~ job[r].sent /\ job[r].timer = Never
    BY <1>3 DEF ReleaseFailed, LeaseInv, SentIsKnown, HoldsOutlast
  <2>2. \A s \in Reqs \ {r} : Holds(s) => Holds(s)'
    BY <1>3, DeleteMeans DEF ReleaseFailed, Holds
  <2>3. job' = job /\ submitted' = submitted
    BY <1>3 DEF ReleaseFailed
  <2>4. \A s \in Reqs : Outstanding(s)' <=> Outstanding(s)
    BY <1>2, <2>3 DEF Outstanding
  <2>5. (WorkersHold /\ OutstandingHolds)'
    BY <1>2, <2>1, <2>2, <2>4 DEF LeaseInv, WorkersHold, OutstandingHolds, Outstanding, Working
  <2>6. (SentIsKnown /\ HashKnown /\ HoldsOutlast)'
    BY <1>2, <2>1, <2>3 DEF LeaseInv, SentIsKnown, HashKnown, HoldsOutlast
  <2>7. (OnlySender /\ SubmittedOnce)'
    BY <1>2, <2>3 DEF LeaseInv, OnlySender, SubmittedOnce, Working
  <2> QED BY <2>5, <2>6, <2>7
<1>4. CASE ReleaseSubmitted(r)
  <2>1. job[r].sent /\ job[r].hash \in 0 .. now
    BY <1>4 DEF ReleaseSubmitted, LeaseInv, SentIsKnown, HashKnown
  <2>2. /\ job'[r].timer = now + Ttl
        /\ \A s \in Reqs : /\ job'[s].sent = job[s].sent /\ job'[s].landed = job[s].landed /\ job'[s].hash = job[s].hash
                           /\ s # r => job'[s] = job[s]
    BY <1>1, <1>4 DEF ReleaseSubmitted, Set, JobType
  <2>3. active' = active /\ submitted' = submitted \cup {IdOf[r]}
    BY <1>4 DEF ReleaseSubmitted
  <2>4. \A s \in Reqs : (Outstanding(s)' <=> Outstanding(s)) /\ (Holds(s)' <=> Holds(s))
    BY <1>2, <2>2, <2>3 DEF Outstanding, Holds
  <2>5. (WorkersHold /\ OutstandingHolds)'
    BY <1>2, <2>4 DEF LeaseInv, WorkersHold, OutstandingHolds, Working
  <2>6. (SentIsKnown /\ HashKnown)'
    BY <1>2, <2>1, <2>2, <2>3 DEF LeaseInv, SentIsKnown, HashKnown
  <2>7. HoldsOutlast'
    <3>1. now + Ttl >= job[r].hash + Ttl
      BY <1>1, <2>1, ServiceConstants
    <3> QED BY <1>2, <2>1, <2>2, <3>1 DEF LeaseInv, HoldsOutlast
  <2>8. (OnlySender /\ SubmittedOnce)'
    BY <1>2, <2>2 DEF LeaseInv, OnlySender, SubmittedOnce, Working
  <2> QED BY <2>5, <2>6, <2>7, <2>8
<1> QED BY <1>3, <1>4

\* The end of a hold: its transaction has landed or has expired.
LEMMA HoldEndsNext ==
  ASSUME LeaseInv, NEW r \in Reqs, TtlTimer(r) \/ Settle(r)
  PROVE  (WorkersHold /\ SentIsKnown /\ HashKnown /\ HoldsOutlast /\ OutstandingHolds /\ OnlySender /\ SubmittedOnce)'
<1>1. TypeOK /\ job \in [Reqs -> JobType] /\ now \in 0 .. MaxTime
  BY TypeParts DEF LeaseInv, LeasesSound
<1>2. phase' = phase /\ now' = now /\ submitted' = submitted
  BY DEF TtlTimer, Settle
<1>3. phase[r] = "done" /\ ~ Outstanding(r)
  <2>1. CASE TtlTimer(r)
    <3>1. /\ phase[r] = "done" /\ job[r].hash \in 0 .. now
          /\ job[r].timer >= job[r].hash + Ttl /\ now >= job[r].timer /\ job[r].timer \in 0 .. MaxTime + Ttl
      BY <1>1, <2>1 DEF TtlTimer, LeaseInv, HoldsOutlast, JobType
    <3> QED BY <1>1, <3>1, ServiceConstants DEF Outstanding
  <2>2. CASE Settle(r)
    BY <2>2 DEF Settle
  <2> QED BY <2>1, <2>2
<1>4. /\ \A s \in Reqs : /\ job'[s].sent = job[s].sent /\ job'[s].landed = job[s].landed /\ job'[s].hash = job[s].hash
                         /\ s # r => job'[s] = job[s]
      /\ job'[r].timer \in {Never, job[r].timer}
  BY <1>1 DEF TtlTimer, Settle, Set, JobType
<1>5. \A s \in Reqs \ {r} : Holds(s) => Holds(s)'
  <2>1. CASE TtlTimer(r)
    BY <2>1, DeleteMeans DEF TtlTimer, Holds
  <2>2. CASE Settle(r)
    BY <2>2, FreeMeans DEF Settle, Holds, HolderOf
  <2> QED BY <2>1, <2>2
<1>6. \A s \in Reqs : Outstanding(s)' <=> Outstanding(s)
  BY <1>2, <1>4 DEF Outstanding
<1>7. (WorkersHold /\ OutstandingHolds)'
  BY <1>2, <1>3, <1>5, <1>6 DEF LeaseInv, WorkersHold, OutstandingHolds, Working
<1>8. (SentIsKnown /\ HashKnown)'
  BY <1>2, <1>4 DEF LeaseInv, SentIsKnown, HashKnown
<1>9. HoldsOutlast'
  BY <1>2, <1>4 DEF LeaseInv, HoldsOutlast
<1>10. (OnlySender /\ SubmittedOnce)'
  BY <1>2, <1>4 DEF LeaseInv, OnlySender, SubmittedOnce
<1> QED BY <1>7, <1>8, <1>9, <1>10

\* The chain goes on: transactions land and expire.
LEMMA ChainNext ==
  ASSUME LeaseInv, Tick \/ (\E r \in Reqs : Land(r)) \/ UNCHANGED <<now, phase, job, active, submitted>>
  PROVE  (WorkersHold /\ SentIsKnown /\ HashKnown /\ HoldsOutlast /\ OutstandingHolds /\ OnlySender /\ SubmittedOnce)'
<1>1. TypeOK /\ job \in [Reqs -> JobType] /\ now \in 0 .. MaxTime
  BY TypeParts DEF LeaseInv, LeasesSound
<1>2. phase' = phase /\ active' = active /\ submitted' = submitted /\ now' \in {now, now + 1}
  BY DEF Tick, Land
<1>3. \A s \in Reqs : /\ job'[s].sent = job[s].sent /\ job'[s].hash = job[s].hash /\ job'[s].timer = job[s].timer
                      /\ job[s].landed => job'[s].landed
  BY <1>1 DEF Tick, Land, Set, JobType
<1>4. \A s \in Reqs : (Outstanding(s)' => Outstanding(s)) /\ (Holds(s)' <=> Holds(s))
  BY <1>1, <1>2, <1>3, ServiceConstants DEF Outstanding, Holds, JobType, Never
<1>5. (WorkersHold /\ OutstandingHolds)'
  BY <1>2, <1>4 DEF LeaseInv, WorkersHold, OutstandingHolds
<1>6. (SentIsKnown /\ HashKnown /\ HoldsOutlast)'
  BY <1>1, <1>2, <1>3 DEF LeaseInv, SentIsKnown, HashKnown, HoldsOutlast
<1>7. (OnlySender /\ SubmittedOnce)'
  BY <1>2, <1>3 DEF LeaseInv, OnlySender, SubmittedOnce
<1> QED BY <1>5, <1>6, <1>7

\* The invariant, step by step.
LEMMA LeaseInductive == ASSUME ~ Ambiguous PROVE Spec => []LeaseInv
<1>1. Init => LeaseInv
  <2>1. Init => LeasesSound
    BY ServiceConstants DEF Init, LeasesSound, TypeOK, HoldsEnd, Fresh, Never, Phases, Vaults
  <2> QED
    BY <2>1 DEF Init, LeaseInv, Fresh, WorkersHold, SentIsKnown, HashKnown, HoldsOutlast, OutstandingHolds,
         OnlySender, SubmittedOnce, Outstanding, Working
<1>2. LeaseInv /\ LeasesSound' /\ [Next]_vars => LeaseInv'
  <2> SUFFICES ASSUME LeaseInv, [Next]_vars
               PROVE  (WorkersHold /\ SentIsKnown /\ HashKnown /\ HoldsOutlast /\ OutstandingHolds /\ OnlySender /\ SubmittedOnce)'
    BY DEF LeaseInv
  <2>1. CASE \E r \in Reqs : Admit(r) \/ \E ok \in BOOLEAN : Start(r, ok) \/ Resolve(r, ok)
    <3>1. PICK r \in Reqs : Admit(r) \/ \E ok \in BOOLEAN : Start(r, ok) \/ Resolve(r, ok)
      BY <2>1
    <3>2. phase[r] \in Outside /\ UNCHANGED <<now, job, active, submitted>>
          /\ \E p \in Outside \cup {"done"} : phase' = [phase EXCEPT ![r] = p]
      BY <3>1 DEF Admit, Start, Resolve, Goto, Finish, Outside, server
    <3> QED BY <3>2, OutsideNext
  <2>2. CASE \E r \in Reqs : Acquire(r)
    BY <2>2, AcquireNext
  <2>3. CASE \E r \in Reqs : ReleaseFailed(r) \/ ReleaseSubmitted(r)
    BY <2>3, ReleaseNext
  <2>4. CASE \E r \in Reqs : TtlTimer(r) \/ Settle(r)
    BY <2>4, HoldEndsNext
  <2>5. CASE \E r \in Reqs : Works(r)
    BY <2>5, WorkNext
  <2>6. CASE Tick \/ (\E r \in Reqs : Land(r)) \/ Shutdown \/ Drained \/ Forced \/ Closed \/ UNCHANGED vars
    BY <2>6, ChainNext DEF Shutdown, Drained, Forced, Closed, vars
  <2> QED
    BY <2>1, <2>2, <2>3, <2>4, <2>5, <2>6 DEF Next, Pipeline, Works
<1> QED BY <1>1, <1>2, EveryLeaseEnds, PTL DEF Spec

\* A vault never has two transactions that the chain may still execute, if the
\* relay does not take one and say that it has not: with an answer lost, two
\* requests suffice to break it (the run burn_ambiguous).
THEOREM OneTransactionPerVault == ASSUME ~ Ambiguous PROVE Spec => []OneOutstanding
<1>1. LeaseInv => OneOutstanding
  BY DEF LeaseInv, OutstandingHolds, OneOutstanding, Holds
<1> QED BY <1>1, LeaseInductive, PTL

\* Under the same assumption an id is submitted once for a vault.
THEOREM IdSubmittedOnce == ASSUME ~ Ambiguous PROVE Spec => []SubmittedOnce
<1>1. LeaseInv => SubmittedOnce
  BY DEF LeaseInv
<1> QED BY <1>1, LeaseInductive, PTL

=============================================================================
