------------------------ MODULE MetadataGate_proofs ------------------------
(***************************************************************************)
(* What holds of MetadataGate for any number of requests, clients and      *)
(* handlers, any clock and any number of lost calls.                       *)
(***************************************************************************)
EXTENDS MetadataGate, FiniteSetTheorems, WellFoundedInduction, TLAPS

-----------------------------------------------------------------------------
(* Tables *)

LEMMA PutMeans ==
  ASSUME NEW table, NEW key, NEW row
  PROVE  /\ DOMAIN Put(table, key, row) = DOMAIN table \cup {key}
         /\ Put(table, key, row)[key] = row
         /\ \A k \in DOMAIN table : k # key => Put(table, key, row)[k] = table[k]
BY DEF Put

LEMMA DropMeans ==
  ASSUME NEW table, NEW key
  PROVE  /\ DOMAIN Drop(table, key) = DOMAIN table \ {key}
         /\ \A k \in DOMAIN table : k # key => Drop(table, key)[k] = table[k]
BY DEF Drop, Restrict

LEMMA LiveLeasesAre ==
  /\ DOMAIN LiveLeases = {h \in DOMAIN leases : leases[h] > now}
  /\ \A h \in DOMAIN LiveLeases : LiveLeases[h] = leases[h]
BY DEF LiveLeases, RestrictValues, Restrict

LEMMA LiveJobsAre ==
  /\ DOMAIN LiveJobs = {r \in DOMAIN jobs : jobs[r].expires > now}
  /\ \A r \in DOMAIN LiveJobs : LiveJobs[r] = jobs[r]
BY DEF LiveJobs, RestrictValues, Restrict

LEMMA CollectMeans ==
  ASSUME NEW table
  PROVE  /\ DOMAIN CollectClients(table)
              = {s \in DOMAIN table : s = "global" \/ table[s].start > now - WINDOW}
         /\ \A s \in DOMAIN CollectClients(table) : CollectClients(table)[s] = table[s]
BY DEF CollectClients, RestrictDomain, Restrict

\* Every inhabited set of natural numbers has a least one.
LEMMA LeastNatural ==
  ASSUME NEW S, S \subseteq Nat, S # {}
  PROVE  \E d \in S : \A e \in S : d <= e
<1>1. PICK d \in S : \A e \in S : ~ (<<e, d>> \in OpToRel(<, Nat))
  BY NatLessThanWellFounded, WFMin, Zenon
<1>2. ASSUME NEW e \in S PROVE d <= e
  <2>1. ~ (e < d)
    BY <1>1, <1>2, Zenon DEF OpToRel
  <2> QED BY <2>1
<1> QED BY <1>2

-----------------------------------------------------------------------------
(* The inductive invariant.  A handler that may still write holds the lease it
   was granted or has outlived it; the global window counts at least the grants
   since it began, all of which came before its end; a row under a lease is its
   holder's own request; a completed row has a handler that paid for it; and a
   stored receipt stays until it expires. *)

States == {"new", "conflict", "replay", "processing", "busy", "rate", "acquired",
           "imaged", "paid", "failed", "settled", "over"}

Times == {Never} \cup Nat

HandlerTyped ==
  handler \in [Handlers -> [state : States, request : Requests \cup {"none"},
                            body : Bodies \cup {"none"}, granted : Times, stored : Times]]

HandlerRows ==
  /\ HandlerTyped
  /\ \A h \in Handlers :
       /\ handler[h].granted <= now /\ handler[h].stored <= now
       /\ handler[h].state = "new" => handler[h].granted = Never
       /\ handler[h].state \in Working => handler[h].granted # Never
       /\ handler[h].stored # Never => handler[h].state \in {"settled", "over"}

TableRows ==
  /\ now \in Nat /\ now <= MaxTime /\ lost \in 0 .. MaxLost
  /\ alarm \in Times
  /\ DOMAIN leases \subseteq Handlers
  /\ \A h \in DOMAIN leases : leases[h] \in Nat
  /\ DOMAIN jobs \subseteq Requests
  /\ \A r \in DOMAIN jobs :
       /\ jobs[r] \in [body : Bodies, state : {"processing", "complete"},
                       token : Handlers \cup {"none"}, expires : Nat]
       /\ jobs[r].state = "complete" <=> jobs[r].token = "none"
  /\ DOMAIN windows \subseteq Scopes
  /\ \A s \in DOMAIN windows :
       windows[s] \in [start : Nat, count : Nat \ {0}] /\ windows[s].start <= now

Leased ==
  \A h \in Handlers : handler[h].state \in Working =>
     \/ now >= handler[h].granted + LEASE
     \/ h \in DOMAIN leases /\ leases[h] = handler[h].granted + LEASE

Since(t) == {h \in Handlers : handler[h].granted >= t}

WindowCounts ==
  /\ "global" \notin DOMAIN windows => \A h \in Handlers : handler[h].granted = Never
  /\ "global" \in DOMAIN windows =>
       /\ windows["global"].count <= GLOBAL
       /\ Cardinality(Since(windows["global"].start)) <= windows["global"].count
       /\ \A h \in Handlers : handler[h].granted < windows["global"].start + WINDOW

JobOwned ==
  \A r \in DOMAIN jobs : jobs[r].token # "none" =>
     LET owner == handler[jobs[r].token]
     IN  owner.state # "new" /\ owner.request = r /\ owner.body = jobs[r].body

JobPaid ==
  \A r \in DOMAIN jobs : jobs[r].state = "complete" =>
     \E k \in Handlers : /\ handler[k].stored # Never /\ handler[k].request = r
                         /\ handler[k].body = jobs[r].body

ReceiptKept ==
  \A h \in Handlers : handler[h].stored # Never /\ now < handler[h].stored + TTL =>
     LET r == handler[h].request
     IN  /\ r \in DOMAIN jobs /\ jobs[r].state = "complete"
         /\ jobs[r].expires = handler[h].stored + TTL

Rows == HandlerRows /\ TableRows

GateInv ==
  /\ Rows
  /\ Leased /\ OneWriter
  /\ WindowCounts
  /\ JobOwned /\ JobPaid /\ ReceiptKept
  /\ PaidOnce /\ ReplayFaithful
  /\ AlarmCovers

LEMMA GateInvImplies == GateInv => WritesBounded /\ ReceiptsHonest /\ RowsSound
<1> SUFFICES ASSUME GateInv PROVE WritesBounded /\ ReceiptsHonest /\ RowsSound
  OBVIOUS
<1> USE DEF GateInv
<1>1. TypeOK
  BY DEF Rows, TableRows, TypeOK, Times
<1>2. WindowCap
  <2> SUFFICES ASSUME "global" \in DOMAIN windows
               PROVE  Cardinality(Since(windows["global"].start)) <= GLOBAL
    BY DEF WindowCap, Since
  <2> DEFINE c == Cardinality(Since(windows["global"].start))
  <2>1. Since(windows["global"].start) \subseteq Handlers
    BY DEF Since
  <2>2. c \in Nat
    BY <2>1, GateNames, FS_Subset, FS_CardinalityType
  <2>3. windows["global"].count \in Nat /\ c <= windows["global"].count /\ windows["global"].count <= GLOBAL
    BY DEF Rows, TableRows, WindowCounts
  <2> HIDE DEF c
  <2> QED BY <2>2, <2>3, GateConstants DEF c
<1> QED BY <1>1, <1>2 DEF WritesBounded, ReceiptsHonest, RowsSound

LEMMA InitGate == Init => GateInv
<1> SUFFICES ASSUME Init PROVE GateInv
  OBVIOUS
<1> USE GateConstants DEF Init, Never, Idle
<1>1. DOMAIN leases = {} /\ DOMAIN jobs = {} /\ DOMAIN windows = {}
  OBVIOUS
<1>2. HandlerRows
  BY DEF HandlerRows, HandlerTyped, States, Times, Working
<1>3. TableRows
  BY <1>1 DEF TableRows, Times
<1>4. Leased /\ OneWriter
  BY DEF Leased, OneWriter, Working
<1>5. WindowCounts
  BY <1>1 DEF WindowCounts
<1>6. JobOwned /\ JobPaid /\ ReceiptKept
  BY <1>1 DEF JobOwned, JobPaid, ReceiptKept
<1>7. PaidOnce /\ ReplayFaithful
  BY DEF PaidOnce, ReplayFaithful
<1>8. AlarmCovers
  BY <1>1 DEF AlarmCovers
<1> QED BY <1>2, <1>3, <1>4, <1>5, <1>6, <1>7, <1>8 DEF GateInv, Rows

-----------------------------------------------------------------------------
(* Steps of a handler that was answered: it moves to another state, may give up
   its lease and may delete a job under its own lease. *)

Moves(h, state) ==
  /\ handler[h].state # "new" /\ state \notin {"new", "replay"}
  /\ state \in Working => handler[h].state \in Working /\ leases' = leases
  /\ handler[h].stored # Never => state \in {"settled", "over"}
  /\ HandlerTyped' /\ handler'[h].state = state
  /\ \A k \in Handlers \ {h} : handler'[k].state = handler[k].state
  /\ \A k \in Handlers : /\ handler'[k].request = handler[k].request
                         /\ handler'[k].body = handler[k].body
                         /\ handler'[k].granted = handler[k].granted
                         /\ handler'[k].stored = handler[k].stored
  /\ leases' = leases \/ leases' = Drop(leases, h)
  /\ jobs' = jobs \/ \E r \in DOMAIN jobs : jobs[r].token = h /\ jobs' = Drop(jobs, r)
  /\ lost' \in 0 .. MaxLost
  /\ UNCHANGED <<now, windows, alarm>>

LEMMA MovesGate ==
  ASSUME GateInv, NEW h \in Handlers, NEW state, Moves(h, state)
  PROVE  GateInv'
<1> USE DEF GateInv, Rows
<1>0. /\ handler[h].state # "new" /\ state \notin {"new", "replay"}
      /\ state \in Working => handler[h].state \in Working /\ leases' = leases
      /\ handler[h].stored # Never => state \in {"settled", "over"}
      /\ HandlerTyped' /\ handler'[h].state = state
      /\ \A k \in Handlers \ {h} : handler'[k].state = handler[k].state
      /\ \A k \in Handlers : /\ handler'[k].request = handler[k].request
                             /\ handler'[k].body = handler[k].body
                             /\ handler'[k].granted = handler[k].granted
                             /\ handler'[k].stored = handler[k].stored
      /\ lost' \in 0 .. MaxLost
      /\ now' = now /\ windows' = windows /\ alarm' = alarm
  BY DEF Moves
<1>1. /\ DOMAIN leases' \subseteq DOMAIN leases
      /\ \A k \in DOMAIN leases' : leases'[k] = leases[k]
      /\ \A k \in DOMAIN leases : k # h => k \in DOMAIN leases'
  <2>1. CASE leases' = leases
    BY <2>1
  <2>2. CASE leases' = Drop(leases, h)
    BY <2>2 DEF Drop, Restrict
  <2> QED BY <2>1, <2>2 DEF Moves
<1>2. /\ DOMAIN jobs' \subseteq DOMAIN jobs
      /\ \A r \in DOMAIN jobs' : jobs'[r] = jobs[r]
      /\ \A r \in DOMAIN jobs : jobs[r].token = "none" => r \in DOMAIN jobs'
  <2>1. CASE jobs' = jobs
    BY <2>1
  <2>2. ASSUME NEW r \in DOMAIN jobs, jobs[r].token = h, jobs' = Drop(jobs, r)
        PROVE  /\ DOMAIN jobs' = DOMAIN jobs \ {r} /\ jobs[r].token # "none"
               /\ \A q \in DOMAIN jobs' : jobs'[q] = jobs[q]
    BY <2>2, GateNames DEF Drop, Restrict
  <2> QED BY <2>1, <2>2 DEF Moves
<1>3. HandlerRows'
  BY <1>0 DEF HandlerRows, Working
<1>4. TableRows'
  BY <1>0, <1>1, <1>2 DEF TableRows
<1>5. Leased' /\ OneWriter'
  <2>1. \A k \in Handlers : handler'[k].state \in Working => handler[k].state \in Working
    BY <1>0
  <2>2. Leased'
    BY <1>0, <1>1, <2>1 DEF Leased
  <2>3. OneWriter'
    BY <1>0, <2>1 DEF OneWriter
  <2> QED BY <2>2, <2>3
<1>6. WindowCounts'
  <2>1. \A t : Since(t)' = Since(t)
    BY <1>0 DEF Since
  <2> QED BY <1>0, <2>1 DEF WindowCounts
<1>7. JobOwned'
  BY <1>0, <1>2 DEF JobOwned, TableRows
<1>8. JobPaid'
  BY <1>0, <1>2 DEF JobPaid
<1>9. ReceiptKept'
  BY <1>0, <1>2 DEF ReceiptKept, TableRows
<1>10. PaidOnce'
  BY <1>0 DEF PaidOnce
<1>11. ReplayFaithful'
  BY <1>0 DEF ReplayFaithful
<1>12. AlarmCovers'
  BY <1>0, <1>2 DEF AlarmCovers
<1> QED BY <1>3, <1>4, <1>5, <1>6, <1>7, <1>8, <1>9, <1>10, <1>11, <1>12

LEMMA HandlerStepsGate ==
  ASSUME GateInv, NEW h \in Handlers,
         WriteImage(h) \/ WriteMetadata(h) \/ UploadFails(h) \/ Fail(h) \/ Release(h) \/ Lose(h)
  PROVE  GateInv'
<1> USE DEF GateInv, Rows
<1>1. /\ HandlerTyped /\ lost \in 0 .. MaxLost /\ MaxLost \in Nat
      /\ handler[h].stored # Never => handler[h].state \in {"settled", "over"}
  BY GateConstants DEF HandlerRows, TableRows
<1>2. ASSUME NEW state \in States, handler' = [handler EXCEPT ![h].state = state]
      PROVE  /\ HandlerTyped' /\ handler'[h].state = state
             /\ \A k \in Handlers \ {h} : handler'[k].state = handler[k].state
             /\ \A k \in Handlers : /\ handler'[k].request = handler[k].request
                                    /\ handler'[k].body = handler[k].body
                                    /\ handler'[k].granted = handler[k].granted
                                    /\ handler'[k].stored = handler[k].stored
  BY <1>1, <1>2 DEF HandlerTyped
<1>3. CASE WriteImage(h)
  <2>1. Moves(h, "imaged")
    BY <1>1, <1>2, <1>3 DEF WriteImage, Moves, States, Working
  <2> QED BY <2>1, MovesGate
<1>4. CASE WriteMetadata(h)
  <2>1. Moves(h, "paid")
    BY <1>1, <1>2, <1>4 DEF WriteMetadata, Moves, States, Working
  <2> QED BY <2>1, MovesGate
<1>5. CASE UploadFails(h)
  <2>1. Moves(h, "failed")
    BY <1>1, <1>2, <1>5 DEF UploadFails, Moves, States, Working
  <2> QED BY <2>1, MovesGate
<1>6. CASE Fail(h)
  <2>1. Moves(h, "settled")
    BY <1>1, <1>2, <1>6 DEF Fail, MayFail, Moves, States, Working
  <2> QED BY <2>1, MovesGate
<1>7. CASE Release(h)
  <2>1. Moves(h, "over")
    BY <1>1, <1>2, <1>7 DEF Release, Moves, States, Working
  <2> QED BY <2>1, MovesGate
<1>8. CASE Lose(h)
  <2> DEFINE next == IF handler[h].state \in {"paid", "failed"} THEN "settled" ELSE "over"
  <2>1. handler' = [handler EXCEPT ![h].state = next] /\ next \in {"settled", "over"}
    BY <1>1, <1>8 DEF Lose, HandlerTyped
  <2>2. handler[h].state # "new" /\ lost' \in 0 .. MaxLost
    BY <1>1, <1>8 DEF Lose, Busy, Working
  <2> HIDE DEF next
  <2>3. Moves(h, next)
    BY <1>1, <1>2, <1>8, <2>1, <2>2 DEF Lose, Moves, States, Working
  <2> QED BY <2>3, MovesGate
<1> QED BY <1>3, <1>4, <1>5, <1>6, <1>7, <1>8

-----------------------------------------------------------------------------
(* complete: under the caller's own lease the job becomes the receipt *)

LEMMA EarlierMeans ==
  ASSUME NEW due \in Nat, alarm \in Times
  PROVE  /\ Earlier(due) \in Nat /\ Earlier(due) <= due
         /\ alarm # Never => Earlier(due) <= alarm
BY DEF Earlier, Times, Never

LEMMA CompleteGate ==
  ASSUME GateInv, NEW h \in Handlers, Complete(h)
  PROVE  GateInv'
<1> USE DEF GateInv, Rows
<1> DEFINE r == handler[h].request
<1>1. /\ HandlerTyped /\ handler[h].state = "paid" /\ handler[h].stored = Never
      /\ now \in Nat /\ TTL \in Nat \ {0} /\ lost' = lost /\ now' = now /\ windows' = windows
      /\ lost \in 0 .. MaxLost
  BY GateConstants DEF HandlerRows, TableRows, Complete
<1>2. CASE ~ MayComplete(h)
  <2>1. handler' = [handler EXCEPT ![h].state = "settled", ![h].stored = Never]
    BY <1>2 DEF Complete
  <2>2. HandlerTyped'
    <3> DEFINE row == [handler[h] EXCEPT !.state = "settled", !.stored = Never]
    <3>1. row \in [state : States, request : Requests \cup {"none"},
                   body : Bodies \cup {"none"}, granted : Times, stored : Times]
      BY <1>1 DEF HandlerTyped, States, Times
    <3>2. handler' = [handler EXCEPT ![h] = row]
      BY <1>1, <2>1 DEF HandlerTyped
    <3> HIDE DEF row
    <3> QED BY <1>1, <3>1, <3>2 DEF HandlerTyped
  <2>3. \A k \in Handlers : /\ handler'[k].request = handler[k].request
                           /\ handler'[k].body = handler[k].body
                           /\ handler'[k].granted = handler[k].granted
                           /\ handler'[k].stored = handler[k].stored
                           /\ handler'[k].state = IF k = h THEN "settled" ELSE handler[k].state
    BY <1>1, <2>1 DEF HandlerTyped
  <2>4. UNCHANGED <<leases, jobs, alarm>>
    BY <1>2 DEF Complete
  <2>5. Moves(h, "settled")
    BY <1>1, <2>2, <2>3, <2>4 DEF Moves, Working
  <2> QED BY <2>5, MovesGate
<1>3. CASE MayComplete(h)
  <2>1. /\ r \in DOMAIN jobs /\ jobs[r].token = h
        /\ handler' = [handler EXCEPT ![h].state = "settled", ![h].stored = now]
        /\ jobs' = [jobs EXCEPT ![r] = Receipt(jobs[r])]
        /\ leases' = Drop(leases, h) /\ alarm' = Earlier(now + TTL)
    BY <1>3 DEF Complete, MayComplete
  <2>2. /\ HandlerTyped' /\ handler'[h].state = "settled" /\ handler'[h].stored = now
        /\ \A k \in Handlers \ {h} : handler'[k] = handler[k]
        /\ \A k \in Handlers : /\ handler'[k].request = handler[k].request
                               /\ handler'[k].body = handler[k].body
                               /\ handler'[k].granted = handler[k].granted
    BY <1>1, <2>1 DEF HandlerTyped, States, Times
  <2>3. /\ DOMAIN jobs' = DOMAIN jobs
        /\ \A q \in DOMAIN jobs : q # r => jobs'[q] = jobs[q]
        /\ jobs'[r] = Receipt(jobs[r])
    BY <2>1
  <2>4. /\ jobs[r] \in [body : Bodies, state : {"processing", "complete"},
                        token : Handlers \cup {"none"}, expires : Nat]
        /\ h # "none" /\ jobs[r].state # "complete" /\ jobs[r].body = handler[h].body
    BY <2>1, GateNames DEF TableRows, JobOwned
  <2>5. /\ jobs'[r] \in [body : Bodies, state : {"processing", "complete"},
                         token : Handlers \cup {"none"}, expires : Nat]
        /\ jobs'[r].state = "complete" /\ jobs'[r].token = "none"
        /\ jobs'[r].expires = now + TTL /\ jobs'[r].body = handler[h].body
    <3> DEFINE job == jobs[r]
    <3>1. jobs'[r] = [job EXCEPT !.state = "complete", !.token = "none", !.expires = now + TTL]
      BY <2>3 DEF Receipt
    <3>2. now + TTL \in Nat
      BY <1>1
    <3> HIDE DEF job
    <3>3. job = jobs[r]
      BY DEF job
    <3> QED BY <2>4, <3>1, <3>2, <3>3
  <2>6. /\ DOMAIN leases' = DOMAIN leases \ {h}
        /\ \A k \in DOMAIN leases' : leases'[k] = leases[k]
    BY <2>1 DEF Drop, Restrict
  <2>7. /\ alarm' \in Nat /\ alarm' <= now + TTL /\ (alarm # Never => alarm' <= alarm)
    BY <1>1, <2>1, EarlierMeans DEF TableRows
  <2>8. HandlerRows'
    BY <1>1, <2>2 DEF HandlerRows, Working, Never
  <2>9. TableRows'
    BY <1>1, <2>3, <2>5, <2>6, <2>7 DEF TableRows, Times
  <2>10. Leased' /\ OneWriter'
    <3>1. \A k \in Handlers : handler'[k].state \in Working => k # h /\ handler[k].state \in Working
      BY <2>2 DEF Working
    <3>2. Leased'
      BY <1>1, <2>2, <2>6, <3>1 DEF Leased
    <3>3. OneWriter'
      BY <1>1, <2>2, <3>1 DEF OneWriter
    <3> QED BY <3>2, <3>3
  <2>11. WindowCounts'
    <3>1. \A t : Since(t)' = Since(t)
      BY <2>2 DEF Since
    <3> QED BY <1>1, <2>2, <3>1 DEF WindowCounts
  <2>12. JobOwned'
    <3> SUFFICES ASSUME NEW q \in DOMAIN jobs', jobs'[q].token # "none"
                 PROVE  /\ handler'[jobs'[q].token].state # "new"
                        /\ handler'[jobs'[q].token].request = q
                        /\ handler'[jobs'[q].token].body = jobs'[q].body
      BY DEF JobOwned
    <3>1. q # r /\ q \in DOMAIN jobs /\ jobs'[q] = jobs[q] /\ jobs[q].token \in Handlers
      BY <2>3, <2>5 DEF TableRows
    <3>2. LET owner == handler[jobs[q].token]
          IN  owner.state # "new" /\ owner.request = q /\ owner.body = jobs[q].body
      BY <3>1 DEF JobOwned
    <3> QED BY <2>2, <3>1, <3>2
  <2>13. JobPaid'
    <3> SUFFICES ASSUME NEW q \in DOMAIN jobs', jobs'[q].state = "complete"
                 PROVE  \E k \in Handlers : /\ handler'[k].stored # Never /\ handler'[k].request = q
                                            /\ handler'[k].body = jobs'[q].body
      BY DEF JobPaid
    <3>1. CASE q = r
      BY <1>1, <2>2, <2>5, <3>1 DEF Never
    <3>2. CASE q # r
      <4>1. PICK k \in Handlers : /\ handler[k].stored # Never /\ handler[k].request = q
                                  /\ handler[k].body = jobs[q].body
        BY <2>3, <3>2 DEF JobPaid
      <4> QED BY <1>1, <2>2, <2>3, <3>2, <4>1
    <3> QED BY <3>1, <3>2
  <2>14. ReceiptKept'
    <3> SUFFICES ASSUME NEW k \in Handlers, handler'[k].stored # Never, now < handler'[k].stored + TTL
                 PROVE  /\ handler'[k].request \in DOMAIN jobs'
                        /\ jobs'[handler'[k].request].state = "complete"
                        /\ jobs'[handler'[k].request].expires = handler'[k].stored + TTL
      BY <1>1 DEF ReceiptKept
    <3>1. CASE k = h
      BY <2>2, <2>3, <2>1, <2>5, <3>1
    <3>2. CASE k # h
      <4>1. /\ handler[k].request \in DOMAIN jobs /\ jobs[handler[k].request].state = "complete"
            /\ jobs[handler[k].request].expires = handler[k].stored + TTL
        BY <2>2, <3>2 DEF ReceiptKept
      <4>2. handler[k].request # r
        BY <2>4, <4>1
      <4> QED BY <2>2, <2>3, <3>2, <4>1, <4>2
    <3> QED BY <3>1, <3>2
  <2>15. PaidOnce'
    <3> SUFFICES ASSUME NEW k \in Handlers, NEW l \in Handlers, k # l,
                        handler[k].request = handler[l].request,
                        handler'[k].stored # Never, handler[l].granted > handler'[k].stored
                 PROVE  handler[l].granted >= handler'[k].stored + TTL
      BY <2>2 DEF PaidOnce
    <3>1. handler[l].granted <= now
      BY DEF HandlerRows
    <3>2. k # h
      BY <1>1, <2>2, <3>1 DEF HandlerTyped, Times, Never
    <3> QED BY <2>2, <3>2 DEF PaidOnce
  <2>16. ReplayFaithful'
    <3>1. \A k \in Handlers : handler'[k].state = "replay" => handler[k].state = "replay"
      BY <2>2
    <3>2. \A k \in Handlers : handler[k].stored # Never => handler'[k].stored # Never
      BY <1>1, <2>2
    <3> QED BY <2>2, <3>1, <3>2 DEF ReplayFaithful
  <2>17. AlarmCovers'
    <3>1. alarm' # Never
      BY <2>7 DEF Never
    <3>2. \A s \in DOMAIN windows \ {"global"} : alarm' <= windows[s].start + WINDOW + 1
      BY <2>7, GateConstants DEF AlarmCovers, TableRows, Times
    <3>3. \A q \in DOMAIN jobs' : jobs'[q].state = "complete" => alarm' <= jobs'[q].expires + 1
      BY <1>1, <2>3, <2>5, <2>7 DEF AlarmCovers, TableRows, Times
    <3> QED BY <1>1, <3>1, <3>2, <3>3 DEF AlarmCovers
  <2> QED BY <2>8, <2>9, <2>10, <2>11, <2>12, <2>13, <2>14, <2>15, <2>16, <2>17
<1> QED BY <1>2, <1>3

-----------------------------------------------------------------------------
(* acquire *)

\* What an answered call leaves of the handler that made it and of the others.
Answered(h, row) ==
  /\ handler[h].state = "new" /\ row.state # "new" /\ row.stored = Never
  /\ row \in [state : States, request : Requests \cup {"none"},
              body : Bodies \cup {"none"}, granted : Times, stored : Times]
  /\ handler' = [handler EXCEPT ![h] = row]
  /\ now' = now /\ lost' = lost

LEMMA AnsweredMeans ==
  ASSUME GateInv, NEW h \in Handlers, NEW row, Answered(h, row)
  PROVE  /\ HandlerTyped' /\ handler'[h] = row
         /\ \A k \in Handlers \ {h} : handler'[k] = handler[k]
         /\ handler[h].granted = Never /\ handler[h].stored = Never
         /\ now \in Nat
         /\ \A r \in DOMAIN jobs : jobs[r].token # h
<1>1. \A r \in DOMAIN jobs : jobs[r].token # h
  BY GateNames DEF GateInv, JobOwned, Answered
<1> QED BY <1>1 DEF GateInv, Rows, HandlerRows, HandlerTyped, TableRows, Answered

LEMMA AnswerMeans ==
  ASSUME NEW client, NEW request, NEW body
  PROVE  LET answer == GateAnswer(client, request, body)
         IN  /\ answer \in {"conflict", "replay", "processing", "busy", "rate", "acquired"}
             /\ answer = "replay" =>
                  /\ request \in DOMAIN LiveJobs
                  /\ LiveJobs[request].body = body /\ LiveJobs[request].state = "complete"
             /\ answer = "acquired" =>
                  /\ request \notin DOMAIN LiveJobs /\ DOMAIN LiveLeases = {}
                  /\ ~ OverRate(client)
BY DEF GateAnswer, PriorAnswer

\* A refused call only takes what has expired out of the tables.
LEMMA RefusedGate ==
  ASSUME GateInv, NEW h \in Handlers, NEW row, Answered(h, row),
         row.state \in {"conflict", "replay", "processing", "busy", "rate"}, row.granted = Never,
         row.state = "replay" =>
           /\ row.request \in DOMAIN LiveJobs
           /\ LiveJobs[row.request].body = row.body /\ LiveJobs[row.request].state = "complete",
         leases' = LiveLeases, jobs' = LiveJobs, UNCHANGED <<windows, alarm>>
  PROVE  GateInv'
<1> USE DEF GateInv, Rows
<1>1. /\ HandlerTyped' /\ handler'[h] = row /\ row.stored = Never
      /\ \A k \in Handlers \ {h} : handler'[k] = handler[k]
      /\ handler[h].granted = Never /\ handler[h].stored = Never
      /\ now \in Nat /\ now' = now /\ lost' = lost /\ windows' = windows /\ alarm' = alarm
      /\ \A r \in DOMAIN jobs : jobs[r].token # h
  BY AnsweredMeans DEF Answered
<1>2. /\ DOMAIN jobs' = {r \in DOMAIN jobs : jobs[r].expires > now}
      /\ \A r \in DOMAIN jobs' : jobs'[r] = jobs[r]
  BY LiveJobsAre
<1>3. /\ DOMAIN leases' = {k \in DOMAIN leases : leases[k] > now}
      /\ \A k \in DOMAIN leases' : leases'[k] = leases[k]
  BY LiveLeasesAre
<1>4. HandlerRows'
  BY <1>1 DEF HandlerRows, Working, Never
<1>5. TableRows'
  BY <1>1, <1>2, <1>3 DEF TableRows
<1>6. Leased' /\ OneWriter'
  <2>1. \A k \in Handlers : handler'[k].state \in Working => k # h /\ handler[k].state \in Working
    BY <1>1 DEF Working
  <2>2. ASSUME NEW k \in Handlers, k # h, handler[k].state \in Working, ~ (now >= handler[k].granted + LEASE)
        PROVE  k \in DOMAIN leases' /\ leases'[k] = handler[k].granted + LEASE
    <3>1. k \in DOMAIN leases /\ leases[k] = handler[k].granted + LEASE /\ leases[k] \in Nat
      BY <2>2 DEF Leased, TableRows
    <3> QED BY <1>1, <1>3, <2>2, <3>1
  <2>3. Leased'
    BY <1>1, <2>1, <2>2 DEF Leased
  <2>4. OneWriter'
    BY <1>1, <2>1 DEF OneWriter
  <2> QED BY <2>3, <2>4
<1>7. WindowCounts'
  <2>1. \A k \in Handlers : handler'[k].granted = handler[k].granted
    BY <1>1
  <2>2. \A t : Since(t)' = Since(t)
    BY <2>1 DEF Since
  <2> QED BY <1>1, <2>1, <2>2 DEF WindowCounts
<1>8. JobOwned'
  BY <1>1, <1>2 DEF JobOwned, TableRows
<1>9. JobPaid'
  <2>1. \A k \in Handlers : handler[k].stored # Never => k # h
    BY <1>1
  <2> QED BY <1>1, <1>2, <2>1 DEF JobPaid
<1>10. ReceiptKept'
  <2> SUFFICES ASSUME NEW k \in Handlers, handler'[k].stored # Never, now < handler'[k].stored + TTL
               PROVE  /\ handler'[k].request \in DOMAIN jobs'
                      /\ jobs'[handler'[k].request].state = "complete"
                      /\ jobs'[handler'[k].request].expires = handler'[k].stored + TTL
    BY <1>1 DEF ReceiptKept
  <2>1. k # h /\ handler'[k] = handler[k]
    BY <1>1
  <2>2. /\ handler[k].request \in DOMAIN jobs /\ jobs[handler[k].request].state = "complete"
        /\ jobs[handler[k].request].expires = handler[k].stored + TTL
    BY <2>1 DEF ReceiptKept
  <2>3. handler[k].stored + TTL > now
    BY <1>1, <2>1, GateConstants DEF HandlerRows, HandlerTyped, Times, Never
  <2> QED BY <1>2, <2>1, <2>2, <2>3
<1>11. PaidOnce'
  <2>1. \A k \in Handlers : handler'[k].stored # Never => k # h /\ handler'[k] = handler[k]
    BY <1>1
  <2>2. \A k \in Handlers : handler'[k].stored # Never => handler'[k].stored \in Nat
    BY <1>1 DEF HandlerTyped, Times
  <2>3. ~ \E k \in Handlers : handler'[k].stored # Never /\ row.granted > handler'[k].stored
    BY <2>2 DEF Never
  <2> QED BY <1>1, <2>1, <2>3 DEF PaidOnce
<1>12. ReplayFaithful'
  <2> SUFFICES ASSUME NEW k \in Handlers, handler'[k].state = "replay"
               PROVE  \E l \in Handlers : /\ handler'[l].stored # Never
                                          /\ handler'[l].request = handler'[k].request
                                          /\ handler'[l].body = handler'[k].body
    BY DEF ReplayFaithful
  <2>1. CASE k = h
    <3>1. /\ row.request \in DOMAIN jobs /\ jobs[row.request].body = row.body
          /\ jobs[row.request].state = "complete"
      BY <1>1, <2>1, LiveJobsAre
    <3>2. PICK l \in Handlers : /\ handler[l].stored # Never /\ handler[l].request = row.request
                                /\ handler[l].body = row.body
      BY <3>1 DEF JobPaid
    <3> QED BY <1>1, <2>1, <3>2
  <2>2. CASE k # h
    <3>1. PICK l \in Handlers : /\ handler[l].stored # Never /\ handler[l].request = handler[k].request
                                /\ handler[l].body = handler[k].body
      BY <1>1, <2>2 DEF ReplayFaithful
    <3> QED BY <1>1, <2>2, <3>1
  <2> QED BY <2>1, <2>2
<1>13. AlarmCovers'
  BY <1>1, <1>2 DEF AlarmCovers
<1> QED BY <1>4, <1>5, <1>6, <1>7, <1>8, <1>9, <1>10, <1>11, <1>12, <1>13

\* The windows a grant leaves: the global one counts it, whether it goes on or
\* starts again.
LEMMA CountedMeans ==
  ASSUME TableRows, NEW client \in Clients,
         windows' = CollectClients(Put(Put(windows, "global", Bump(ReadWindow("global"))),
                                       client, Bump(ReadWindow(client))))
  PROVE  /\ "global" \in DOMAIN windows' /\ windows'["global"] = Bump(ReadWindow("global"))
         /\ DOMAIN windows' \subseteq DOMAIN windows \cup {"global", client}
         /\ \A s \in DOMAIN windows' : s \in {"global", client} => windows'[s] = Bump(ReadWindow(s))
         /\ \A s \in DOMAIN windows' : s \notin {"global", client} => windows'[s] = windows[s]
<1> DEFINE one == Put(windows, "global", Bump(ReadWindow("global")))
           both == Put(one, client, Bump(ReadWindow(client)))
<1>1. client # "global"
  BY GateNames
<1>2. /\ DOMAIN one = DOMAIN windows \cup {"global"} /\ one["global"] = Bump(ReadWindow("global"))
      /\ \A s \in DOMAIN windows : s # "global" => one[s] = windows[s]
  BY DEF Put
<1> HIDE DEF one
<1>3. /\ DOMAIN both = DOMAIN one \cup {client} /\ both[client] = Bump(ReadWindow(client))
      /\ \A s \in DOMAIN one : s # client => both[s] = one[s]
  BY DEF Put
<1>4. windows' = CollectClients(both)
  BY DEF one
<1> HIDE DEF both
<1>5. /\ DOMAIN windows' = {s \in DOMAIN both : s = "global" \/ both[s].start > now - WINDOW}
      /\ \A s \in DOMAIN windows' : windows'[s] = both[s]
  BY <1>4, CollectMeans
<1> QED BY <1>1, <1>2, <1>3, <1>5

LEMMA WindowMeans ==
  ASSUME TableRows, NEW s
  PROVE  /\ ReadWindow(s) \in [start : Nat, count : Nat]
         /\ ReadWindow(s).start <= now /\ now < ReadWindow(s).start + WINDOW
         /\ \/ s \in DOMAIN windows /\ ReadWindow(s) = windows[s]
            \/ ReadWindow(s) = [start |-> now, count |-> 0]
               /\ (s \in DOMAIN windows => now >= windows[s].start + WINDOW)
BY GateConstants DEF TableRows, ReadWindow

LEMMA BumpMeans ==
  ASSUME NEW w \in [start : Nat, count : Nat]
  PROVE  /\ Bump(w) \in [start : Nat, count : Nat \ {0}]
         /\ Bump(w).start = w.start /\ Bump(w).count = w.count + 1
BY DEF Bump

LEMMA GrantedGate ==
  ASSUME GateInv, NEW h \in Handlers, NEW client \in Clients, NEW request \in Requests,
         NEW body \in Bodies, NEW row, Answered(h, row),
         row = [state |-> "acquired", request |-> request, body |-> body,
                granted |-> now, stored |-> Never],
         request \notin DOMAIN LiveJobs, DOMAIN LiveLeases = {}, ~ OverRate(client),
         leases' = Put(LiveLeases, h, now + LEASE),
         jobs' = Put(LiveJobs, request, [body |-> body, state |-> "processing",
                                         token |-> h, expires |-> now + LEASE]),
         windows' = CollectClients(Put(Put(windows, "global", Bump(ReadWindow("global"))),
                                       client, Bump(ReadWindow(client)))),
         alarm' = Earlier(now + WINDOW + 1)
  PROVE  GateInv'
<1> USE DEF GateInv, Rows
<1> DEFINE job == [body |-> body, state |-> "processing", token |-> h, expires |-> now + LEASE]
<1>1. /\ HandlerTyped' /\ handler'[h] = row
      /\ \A k \in Handlers \ {h} : handler'[k] = handler[k]
      /\ handler[h].granted = Never /\ handler[h].stored = Never
      /\ now \in Nat /\ now' = now /\ lost' = lost
      /\ \A r \in DOMAIN jobs : jobs[r].token # h
      /\ LEASE \in Nat /\ WINDOW \in Nat /\ GLOBAL \in Nat /\ h # "none"
  BY AnsweredMeans, GateConstants, GateNames DEF Answered
<1>2. row.state = "acquired" /\ row.request = request /\ row.body = body /\ row.granted = now /\ row.stored = Never
  OBVIOUS
<1>3. /\ DOMAIN jobs' = {r \in DOMAIN jobs : jobs[r].expires > now} \cup {request}
      /\ \A r \in DOMAIN jobs' : r # request => r \in DOMAIN jobs /\ jobs'[r] = jobs[r]
      /\ jobs'[request] = job
      /\ ~ (request \in DOMAIN jobs /\ jobs[request].expires > now)
  <2>1. /\ DOMAIN jobs' = DOMAIN LiveJobs \cup {request} /\ jobs'[request] = job
        /\ \A r \in DOMAIN LiveJobs : r # request => jobs'[r] = LiveJobs[r]
    BY DEF Put
  <2> HIDE DEF job
  <2> QED BY <2>1, LiveJobsAre
<1>4. DOMAIN leases' = {h} /\ leases'[h] = now + LEASE
  BY DEF Put
<1>5. \A k \in DOMAIN leases : ~ (leases[k] > now)
  BY LiveLeasesAre
<1>6. alarm' \in Nat /\ alarm' <= now + WINDOW + 1 /\ (alarm # Never => alarm' <= alarm)
  BY <1>1, EarlierMeans DEF TableRows
<1>7. HandlerRows'
  BY <1>1, <1>2 DEF HandlerRows, Working, Never
<1>8. TableRows'
  <2>1. \A r \in DOMAIN jobs' :
           /\ jobs'[r] \in [body : Bodies, state : {"processing", "complete"},
                            token : Handlers \cup {"none"}, expires : Nat]
           /\ jobs'[r].state = "complete" <=> jobs'[r].token = "none"
    BY <1>1, <1>3 DEF TableRows
  <2>2. DOMAIN windows' \subseteq Scopes
    BY CountedMeans DEF TableRows, Scopes
  <2>3. \A s \in DOMAIN windows' :
          windows'[s] \in [start : Nat, count : Nat \ {0}] /\ windows'[s].start <= now
    <3> SUFFICES ASSUME NEW s \in DOMAIN windows'
                 PROVE  windows'[s] \in [start : Nat, count : Nat \ {0}] /\ windows'[s].start <= now
      OBVIOUS
    <3>1. CASE s \in {"global", client}
      <4>1. ReadWindow(s) \in [start : Nat, count : Nat] /\ ReadWindow(s).start <= now
        BY WindowMeans
      <4>2. windows'[s] = Bump(ReadWindow(s))
        BY <3>1, CountedMeans
      <4> QED BY <4>1, <4>2, BumpMeans
    <3>2. CASE s \notin {"global", client}
      BY <3>2, CountedMeans DEF TableRows
    <3> QED BY <3>1, <3>2
  <2> QED BY <1>1, <1>3, <1>4, <1>6, <2>1, <2>2, <2>3 DEF TableRows, Times
<1>9. Leased' /\ OneWriter'
  <2>1. ASSUME NEW k \in Handlers, k # h, handler[k].state \in Working
        PROVE  now >= handler[k].granted + LEASE
    <3>1. CASE k \in DOMAIN leases /\ leases[k] = handler[k].granted + LEASE
      <4>1. leases[k] \in Nat /\ ~ (leases[k] > now)
        BY <1>5, <3>1 DEF TableRows
      <4> QED BY <1>1, <3>1, <4>1
    <3> QED BY <2>1, <3>1 DEF Leased
  <2>2. Leased'
    BY <1>1, <1>2, <1>4, <2>1 DEF Leased
  <2>3. OneWriter'
    BY <1>1, <2>1 DEF OneWriter
  <2> QED BY <2>2, <2>3
<1>10. WindowCounts'
  <2> DEFINE w == ReadWindow("global")
  <2>1. /\ "global" \in DOMAIN windows' /\ windows'["global"].start = w.start
        /\ windows'["global"].count = w.count + 1
        /\ w.start \in Nat /\ w.count \in Nat /\ w.start <= now /\ now < w.start + WINDOW
    BY CountedMeans, WindowMeans, BumpMeans
  <2>2. w.count < GLOBAL
    BY <1>1, <2>1 DEF OverRate
  <2>3. Since(windows["global"].start)' = Since(w.start) \cup {h}
    <3>1. Since(windows["global"].start)' = {k \in Handlers : handler'[k].granted >= w.start}
      BY <2>1 DEF Since
    <3> HIDE DEF w
    <3>2. handler'[h].granted >= w.start
      BY <1>1, <1>2, <2>1
    <3> QED BY <1>1, <3>1, <3>2, <2>1 DEF Since, Never
  <2>4. /\ IsFiniteSet(Since(w.start)) /\ Cardinality(Since(w.start)) <= w.count
        /\ \A k \in Handlers : handler[k].granted < w.start + WINDOW
    <3>1. Since(w.start) \subseteq Handlers
      BY DEF Since
    <3>2. IsFiniteSet(Since(w.start))
      BY <3>1, GateNames, FS_Subset
    <3>3. CASE "global" \in DOMAIN windows /\ w = windows["global"]
      BY <3>2, <3>3 DEF WindowCounts
    <3>4. CASE w = [start |-> now, count |-> 0] /\ ("global" \in DOMAIN windows => now >= windows["global"].start + WINDOW)
      <4>1. \A k \in Handlers : handler[k].granted < now
        <5>1. CASE "global" \in DOMAIN windows
          BY <1>1, <3>4, <5>1 DEF WindowCounts, TableRows, HandlerRows, HandlerTyped, Times, Never
        <5>2. CASE "global" \notin DOMAIN windows
          BY <1>1, <5>2 DEF WindowCounts, Never
        <5> QED BY <5>1, <5>2
      <4>2. Since(w.start) = {}
        BY <1>1, <3>4, <4>1 DEF Since, HandlerRows, HandlerTyped, Times, Never
      <4>3. Cardinality(Since(w.start)) = 0
        BY <4>2, FS_EmptySet
      <4>4. \A k \in Handlers : handler[k].granted < w.start + WINDOW
        BY <1>1, <3>4, <4>1 DEF HandlerRows, HandlerTyped, Times, Never
      <4> QED BY <3>2, <3>4, <4>3, <4>4
    <3> QED BY <3>3, <3>4, WindowMeans
  <2> HIDE DEF w
  <2>5. Cardinality(Since(w.start) \cup {h}) <= w.count + 1
    <3> DEFINE counted == Since(w.start)
    <3>1. IsFiniteSet(counted) /\ Cardinality(counted) <= w.count
      BY <2>4
    <3> HIDE DEF counted
    <3>2. /\ Cardinality(counted) \in Nat
          /\ Cardinality(counted \cup {h}) = IF h \in counted THEN Cardinality(counted) ELSE Cardinality(counted) + 1
      BY <3>1, FS_AddElement, FS_CardinalityType
    <3>3. Cardinality(counted \cup {h}) <= w.count + 1
      BY <2>1, <3>1, <3>2
    <3> QED BY <3>3 DEF counted
  <2>6. \A k \in Handlers : handler'[k].granted < w.start + WINDOW
    BY <1>1, <1>2, <2>1, <2>4
  <2>7. Cardinality(Since(windows["global"].start))' <= w.count + 1
    BY <2>3, <2>5
  <2> QED BY <1>1, <2>1, <2>2, <2>6, <2>7 DEF WindowCounts
<1>11. JobOwned'
  <2> SUFFICES ASSUME NEW q \in DOMAIN jobs', jobs'[q].token # "none"
               PROVE  /\ handler'[jobs'[q].token].state # "new"
                      /\ handler'[jobs'[q].token].request = q
                      /\ handler'[jobs'[q].token].body = jobs'[q].body
    BY DEF JobOwned
  <2>1. CASE q = request
    BY <1>1, <1>2, <1>3, <2>1
  <2>2. CASE q # request
    <3>1. q \in DOMAIN jobs /\ jobs'[q] = jobs[q] /\ jobs[q].token \in Handlers \ {h}
      BY <1>1, <1>3, <2>2 DEF TableRows
    <3>2. LET owner == handler[jobs[q].token]
          IN  owner.state # "new" /\ owner.request = q /\ owner.body = jobs[q].body
      BY <3>1, GateNames DEF JobOwned
    <3> QED BY <1>1, <3>1, <3>2
  <2> QED BY <2>1, <2>2
<1>12. JobPaid'
  <2> SUFFICES ASSUME NEW q \in DOMAIN jobs', jobs'[q].state = "complete"
               PROVE  \E k \in Handlers : /\ handler'[k].stored # Never /\ handler'[k].request = q
                                          /\ handler'[k].body = jobs'[q].body
    BY DEF JobPaid
  <2>1. q # request /\ q \in DOMAIN jobs /\ jobs'[q] = jobs[q]
    BY <1>3
  <2>2. PICK k \in Handlers : /\ handler[k].stored # Never /\ handler[k].request = q
                              /\ handler[k].body = jobs[q].body
    BY <2>1 DEF JobPaid
  <2> QED BY <1>1, <2>1, <2>2
<1>13. ASSUME NEW k \in Handlers, handler'[k].stored # Never
       PROVE  /\ k # h /\ handler'[k] = handler[k] /\ handler[k].stored \in Nat
              /\ now < handler[k].stored + TTL =>
                   /\ handler[k].request # request /\ handler[k].request \in DOMAIN jobs'
                   /\ jobs'[handler[k].request].state = "complete"
                   /\ jobs'[handler[k].request].expires = handler[k].stored + TTL
  <2>1. k # h /\ handler'[k] = handler[k] /\ handler[k].stored \in Nat
    BY <1>1, <1>2, <1>13 DEF HandlerTyped, Times
  <2>2. ASSUME now < handler[k].stored + TTL
        PROVE  /\ handler[k].request # request /\ handler[k].request \in DOMAIN jobs'
               /\ jobs'[handler[k].request].state = "complete"
               /\ jobs'[handler[k].request].expires = handler[k].stored + TTL
    <3>1. /\ handler[k].request \in DOMAIN jobs /\ jobs[handler[k].request].state = "complete"
          /\ jobs[handler[k].request].expires = handler[k].stored + TTL
      BY <1>13, <2>1, <2>2 DEF ReceiptKept
    <3>2. handler[k].stored + TTL > now
      BY <1>1, <2>1, <2>2, GateConstants
    <3> QED BY <1>3, <3>1, <3>2
  <2> QED BY <2>1, <2>2
<1>14. ReceiptKept'
  BY <1>1, <1>13 DEF ReceiptKept
<1>15. PaidOnce'
  <2> SUFFICES ASSUME NEW k \in Handlers, NEW l \in Handlers, k # l,
                      handler'[k].request = handler'[l].request,
                      handler'[k].stored # Never, handler'[l].granted > handler'[k].stored
               PROVE  handler'[l].granted >= handler'[k].stored + TTL
    BY DEF PaidOnce
  <2>1. CASE l = h
    BY <1>1, <1>2, <1>13, <2>1, GateConstants
  <2>2. CASE l # h
    BY <1>1, <1>13, <2>2 DEF PaidOnce
  <2> QED BY <2>1, <2>2
<1>16. ReplayFaithful'
  <2> SUFFICES ASSUME NEW k \in Handlers, handler'[k].state = "replay"
               PROVE  \E l \in Handlers : /\ handler'[l].stored # Never
                                          /\ handler'[l].request = handler'[k].request
                                          /\ handler'[l].body = handler'[k].body
    BY DEF ReplayFaithful
  <2>1. k # h
    BY <1>1, <1>2
  <2>2. PICK l \in Handlers : /\ handler[l].stored # Never /\ handler[l].request = handler[k].request
                              /\ handler[l].body = handler[k].body
    BY <1>1, <2>1 DEF ReplayFaithful
  <2> QED BY <1>1, <2>1, <2>2
<1>17. AlarmCovers'
  <2>1. alarm' # Never
    BY <1>6 DEF Never
  <2>2. ASSUME NEW s \in DOMAIN windows' \ {"global"} PROVE alarm' <= windows'[s].start + WINDOW + 1
    <3>1. CASE s \in DOMAIN windows /\ windows'[s].start = windows[s].start
      <4>1. alarm # Never /\ alarm <= windows[s].start + WINDOW + 1 /\ alarm \in Nat /\ windows[s].start \in Nat
        BY <2>2, <3>1 DEF AlarmCovers, TableRows, Times
      <4> QED BY <1>1, <1>6, <3>1, <4>1
    <3>2. CASE windows'[s].start = now
      BY <1>1, <1>6, <3>2
    <3>3. CASE s = client
      <4>1. windows'[s].start = ReadWindow(s).start
        BY <2>2, <3>3, CountedMeans, WindowMeans, BumpMeans
      <4> QED BY <3>1, <3>2, <4>1, WindowMeans
    <3>4. CASE s # client
      <4>1. windows'[s] = windows[s] /\ s \in DOMAIN windows
        BY <2>2, <3>4, CountedMeans
      <4> QED BY <3>1, <4>1
    <3> QED BY <3>3, <3>4
  <2>3. ASSUME NEW q \in DOMAIN jobs', jobs'[q].state = "complete" PROVE alarm' <= jobs'[q].expires + 1
    <3>1. q # request /\ q \in DOMAIN jobs /\ jobs'[q] = jobs[q]
      BY <1>3, <2>3
    <3>2. alarm # Never /\ alarm <= jobs[q].expires + 1 /\ alarm \in Nat /\ jobs[q].expires \in Nat
      BY <2>3, <3>1 DEF AlarmCovers, TableRows, Times
    <3> QED BY <1>1, <1>6, <3>1, <3>2
  <2> QED BY <2>1, <2>2, <2>3 DEF AlarmCovers
<1> QED BY <1>7, <1>8, <1>9, <1>10, <1>11, <1>12, <1>14, <1>15, <1>16, <1>17

LEMMA AcquireGate ==
  ASSUME GateInv, NEW h \in Handlers, NEW client \in Clients, NEW request \in Requests,
         NEW body \in Bodies, Acquire(h, client, request, body)
  PROVE  GateInv'
<1> DEFINE answer == GateAnswer(client, request, body)
           row == [state |-> answer, request |-> request, body |-> body,
                   granted |-> IF answer = "acquired" THEN now ELSE Never, stored |-> Never]
<1>1. /\ handler[h].state = "new" /\ handler' = [handler EXCEPT ![h] = row]
      /\ now' = now /\ lost' = lost
  BY DEF Acquire
<1>2. answer \in {"conflict", "replay", "processing", "busy", "rate", "acquired"}
  BY AnswerMeans
<1>3. row.state = answer /\ row.request = request /\ row.body = body /\ row.stored = Never
  OBVIOUS
<1>4. now \in Nat
  BY DEF GateInv, Rows, TableRows
<1>5. row \in [state : States, request : Requests \cup {"none"},
               body : Bodies \cup {"none"}, granted : Times, stored : Times]
  <2> HIDE DEF answer
  <2> QED BY <1>2, <1>4 DEF States, Times
<1>6. Answered(h, row)
  <2> HIDE DEF row
  <2> QED BY <1>1, <1>2, <1>3, <1>5 DEF Answered
<1>7. CASE answer = "acquired"
  <2>1. row = [state |-> "acquired", request |-> request, body |-> body,
               granted |-> now, stored |-> Never]
    BY <1>7
  <2>2. request \notin DOMAIN LiveJobs /\ DOMAIN LiveLeases = {} /\ ~ OverRate(client)
    BY <1>7, AnswerMeans
  <2>3. /\ leases' = Put(LiveLeases, h, now + LEASE)
        /\ jobs' = Put(LiveJobs, request, [body |-> body, state |-> "processing",
                                           token |-> h, expires |-> now + LEASE])
        /\ windows' = CollectClients(Put(Put(windows, "global", Bump(ReadWindow("global"))),
                                         client, Bump(ReadWindow(client))))
        /\ alarm' = Earlier(now + WINDOW + 1)
    BY <1>7 DEF Acquire
  <2> HIDE DEF row
  <2> QED BY <1>6, <2>1, <2>2, <2>3, GrantedGate
<1>8. CASE answer # "acquired"
  <2>1. /\ leases' = LiveLeases /\ jobs' = LiveJobs /\ UNCHANGED <<windows, alarm>>
        /\ row.granted = Never
    BY <1>8 DEF Acquire
  <2>2. row.state = "replay" =>
           /\ row.request \in DOMAIN LiveJobs
           /\ LiveJobs[row.request].body = row.body /\ LiveJobs[row.request].state = "complete"
    BY <1>3, AnswerMeans
  <2>3. row.state \in {"conflict", "replay", "processing", "busy", "rate"}
    BY <1>2, <1>3, <1>8
  <2> HIDE DEF row
  <2> QED BY <1>6, <2>1, <2>2, <2>3, RefusedGate
<1> QED BY <1>7, <1>8

-----------------------------------------------------------------------------
(* The alarm and the clock *)

\* Whatever is left when the object's alarm has run is covered by the next.
LEMMA AlarmGate ==
  ASSUME GateInv, Alarm
  PROVE  GateInv'
<1> USE DEF GateInv, Rows
<1> DEFINE windows2 == CollectClients(windows)
           due == {windows2[s].start + WINDOW + 1 : s \in DOMAIN windows2 \ {"global"}}
                    \cup {LiveJobs[r].expires + 1 : r \in DOMAIN LiveJobs}
<1>1. /\ leases' = LiveLeases /\ jobs' = LiveJobs /\ windows' = windows2
      /\ alarm' = (IF due = {} THEN Never ELSE CHOOSE d \in due : \A e \in due : d <= e)
      /\ now' = now /\ handler' = handler /\ lost' = lost
  BY DEF Alarm
<1>2. /\ DOMAIN jobs' = {r \in DOMAIN jobs : jobs[r].expires > now}
      /\ \A r \in DOMAIN jobs' : jobs'[r] = jobs[r]
  BY <1>1, LiveJobsAre
<1>3. /\ DOMAIN leases' = {k \in DOMAIN leases : leases[k] > now}
      /\ \A k \in DOMAIN leases' : leases'[k] = leases[k]
  BY <1>1, LiveLeasesAre
<1>4. /\ DOMAIN windows' \subseteq DOMAIN windows
      /\ \A s \in DOMAIN windows' : windows'[s] = windows[s]
      /\ "global" \in DOMAIN windows <=> "global" \in DOMAIN windows'
  BY <1>1, CollectMeans
<1>5. due = {windows'[s].start + WINDOW + 1 : s \in DOMAIN windows' \ {"global"}}
              \cup {jobs'[r].expires + 1 : r \in DOMAIN jobs'}
  BY <1>1
<1>6. now \in Nat /\ WINDOW \in Nat
  BY GateConstants DEF TableRows
<1> HIDE DEF due, windows2
<1>7. due \subseteq Nat
  BY <1>2, <1>4, <1>5, <1>6 DEF TableRows
<1>8. due # {} => alarm' \in Nat /\ \A e \in due : alarm' <= e
  BY <1>1, <1>7, LeastNatural
<1>9. HandlerRows'
  BY <1>1 DEF HandlerRows, HandlerTyped
<1>10. TableRows'
  <2>1. alarm' \in Times
    BY <1>1, <1>8 DEF Times
  <2> QED BY <1>1, <1>2, <1>3, <1>4, <2>1 DEF TableRows
<1>11. Leased' /\ OneWriter'
  <2>1. ASSUME NEW k \in Handlers, handler[k].state \in Working, ~ (now >= handler[k].granted + LEASE)
        PROVE  k \in DOMAIN leases' /\ leases'[k] = handler[k].granted + LEASE
    <3>1. k \in DOMAIN leases /\ leases[k] = handler[k].granted + LEASE /\ leases[k] \in Nat
      BY <2>1 DEF Leased, TableRows
    <3> QED BY <1>3, <1>6, <2>1, <3>1
  <2> QED BY <1>1, <2>1 DEF Leased, OneWriter
<1>12. WindowCounts'
  <2>1. \A t : Since(t)' = {h \in Handlers : handler[h].granted >= t'}
    BY <1>1 DEF Since
  <2>2. CASE "global" \in DOMAIN windows
    <3>1. windows'["global"] = windows["global"]
      BY <1>4, <2>2
    <3>2. Since(windows["global"].start)' = Since(windows["global"].start)
      BY <1>1, <3>1 DEF Since
    <3>3. Cardinality(Since(windows["global"].start))' = Cardinality(Since(windows["global"].start))
      BY <3>2
    <3> QED BY <1>1, <1>4, <2>2, <3>1, <3>3 DEF WindowCounts
  <2>3. CASE "global" \notin DOMAIN windows
    BY <1>1, <1>4, <2>3 DEF WindowCounts
  <2> QED BY <2>2, <2>3
<1>13. JobOwned'
  BY <1>1, <1>2 DEF JobOwned
<1>14. JobPaid'
  BY <1>1, <1>2 DEF JobPaid
<1>15. ReceiptKept'
  <2> SUFFICES ASSUME NEW k \in Handlers, handler[k].stored # Never, now < handler[k].stored + TTL
               PROVE  /\ handler[k].request \in DOMAIN jobs'
                      /\ jobs'[handler[k].request].state = "complete"
                      /\ jobs'[handler[k].request].expires = handler[k].stored + TTL
    BY <1>1 DEF ReceiptKept
  <2>1. /\ handler[k].request \in DOMAIN jobs /\ jobs[handler[k].request].state = "complete"
        /\ jobs[handler[k].request].expires = handler[k].stored + TTL
        /\ jobs[handler[k].request].expires \in Nat
    BY DEF ReceiptKept, TableRows
  <2> QED BY <1>2, <1>6, <2>1
<1>16. PaidOnce' /\ ReplayFaithful'
  BY <1>1 DEF PaidOnce, ReplayFaithful
<1>17. AlarmCovers'
  <2>1. \A s \in DOMAIN windows' \ {"global"} : windows'[s].start + WINDOW + 1 \in due
    BY <1>5
  <2>2. \A r \in DOMAIN jobs' : jobs'[r].expires + 1 \in due
    BY <1>5
  <2>3. due # {} => alarm' # Never
    BY <1>8 DEF Never
  <2> QED BY <1>8, <2>1, <2>2, <2>3 DEF AlarmCovers
<1> QED BY <1>9, <1>10, <1>11, <1>12, <1>13, <1>14, <1>15, <1>16, <1>17

LEMMA TickGate ==
  ASSUME GateInv, Tick
  PROVE  GateInv'
<1> USE DEF GateInv, Rows
<1>1. /\ now' = now + 1 /\ now < MaxTime /\ now \in Nat /\ MaxTime \in Nat
      /\ leases' = leases /\ jobs' = jobs /\ windows' = windows /\ alarm' = alarm
      /\ handler' = handler /\ lost' = lost
  BY GateConstants DEF Tick, TableRows
<1>2. /\ LEASE \in Nat /\ TTL \in Nat
      /\ \A h \in Handlers : handler[h].granted \in Times /\ handler[h].stored \in Times
  BY GateConstants DEF HandlerRows, HandlerTyped
<1>3. HandlerRows'
  BY <1>1, <1>2 DEF HandlerRows, HandlerTyped, Times, Never
<1>4. TableRows'
  BY <1>1 DEF TableRows
<1>5. Leased' /\ OneWriter'
  BY <1>1, <1>2 DEF Leased, OneWriter, Times, Never
<1>6. WindowCounts'
  <2>1. Since(windows["global"].start)' = Since(windows["global"].start)
    BY <1>1 DEF Since
  <2>2. Cardinality(Since(windows["global"].start))' = Cardinality(Since(windows["global"].start))
    BY <2>1
  <2> QED BY <1>1, <2>2 DEF WindowCounts
<1>7. JobOwned' /\ JobPaid'
  BY <1>1 DEF JobOwned, JobPaid
<1>8. ReceiptKept'
  BY <1>1, <1>2 DEF ReceiptKept, Times, Never
<1>9. PaidOnce' /\ ReplayFaithful' /\ AlarmCovers'
  BY <1>1 DEF PaidOnce, ReplayFaithful, AlarmCovers
<1> QED BY <1>3, <1>4, <1>5, <1>6, <1>7, <1>8, <1>9

-----------------------------------------------------------------------------

LEMMA NextGate == GateInv /\ [Next]_vars => GateInv'
<1> SUFFICES ASSUME GateInv, [Next]_vars PROVE GateInv'
  OBVIOUS
<1>1. CASE UNCHANGED vars
  <2>1. UNCHANGED <<now, leases, jobs, windows, alarm, handler, lost>>
    BY <1>1 DEF vars
  <2>2. WindowCounts'
    <3>1. Since(windows["global"].start)' = Since(windows["global"].start)
      BY <2>1 DEF Since
    <3>2. Cardinality(Since(windows["global"].start))' = Cardinality(Since(windows["global"].start))
      BY <3>1
    <3> QED BY <2>1, <3>2 DEF GateInv, WindowCounts
  <2> QED BY <2>1, <2>2 DEF GateInv, Rows, HandlerRows, HandlerTyped, TableRows, Leased, OneWriter, JobOwned,
                           JobPaid, ReceiptKept, PaidOnce, ReplayFaithful, AlarmCovers
<1>2. CASE Next
  <2>1. ASSUME NEW h \in Handlers, NEW c \in Clients, NEW r \in Requests, NEW b \in Bodies, Acquire(h, c, r, b)
        PROVE  GateInv'
    BY <2>1, AcquireGate
  <2> QED BY <1>2, <2>1, HandlerStepsGate, CompleteGate, AlarmGate, TickGate DEF Next
<1> QED BY <1>1, <1>2

LEMMA GateInvariant == Spec => []GateInv
BY InitGate, NextGate, PTL DEF Spec

\* "The product permits only one paid write at a time", as far as a lease that
\* ends by itself can keep that, and no more uploads are granted in a window
\* than its cap, through every collection of expired rows and every lost call.
THEOREM WritesStayBounded == Spec => []WritesBounded
BY GateInvImplies, GateInvariant, PTL

\* A request that was paid for is not paid for again while its receipt lives,
\* and a receipt is replayed only to the request and body that paid for it.
THEOREM ReceiptsStayHonest == Spec => []ReceiptsHonest
BY GateInvImplies, GateInvariant, PTL

\* The rows of the three tables keep their types, and an alarm stands that will
\* look at every client window and every receipt when it may be collected.
THEOREM RowsStaySound == Spec => []RowsSound
BY GateInvImplies, GateInvariant, PTL

\* No step, of the receipt's own handler or of another, changes a receipt that
\* has not expired.
THEOREM ReceiptsStayStable == Spec => ReceiptStable
<1> DEFINE stays == \A r \in DOMAIN jobs :
                      jobs[r].state = "complete" /\ jobs[r].expires > now
                        => r \in DOMAIN jobs' /\ jobs'[r] = jobs[r]
<1>1. ASSUME GateInv, Next PROVE stays
  <2> SUFFICES ASSUME NEW r \in DOMAIN jobs, jobs[r].state = "complete", jobs[r].expires > now
               PROVE  r \in DOMAIN jobs' /\ jobs'[r] = jobs[r]
    OBVIOUS
  <2>1. jobs[r].token = "none" /\ "none" \notin Handlers
    BY <1>1, GateNames DEF GateInv, Rows, TableRows
  <2>2. r \in DOMAIN LiveJobs /\ LiveJobs[r] = jobs[r]
    BY LiveJobsAre
  <2>3. ASSUME NEW h \in Handlers, NEW c, NEW q, NEW b, Acquire(h, c, q, b)
        PROVE  r \in DOMAIN jobs' /\ jobs'[r] = jobs[r]
    <3>1. CASE GateAnswer(c, q, b) = "acquired"
      <4>1. q \notin DOMAIN LiveJobs
        BY <3>1, AnswerMeans
      <4>2. jobs' = Put(LiveJobs, q, [body |-> b, state |-> "processing", token |-> h, expires |-> now + LEASE])
        BY <2>3, <3>1 DEF Acquire
      <4> QED BY <2>2, <4>1, <4>2 DEF Put
    <3>2. CASE GateAnswer(c, q, b) # "acquired"
      <4>1. jobs' = LiveJobs
        BY <2>3, <3>2 DEF Acquire
      <4> QED BY <2>2, <4>1
    <3> QED BY <3>1, <3>2
  <2>4. ASSUME NEW h \in Handlers, Complete(h) PROVE r \in DOMAIN jobs' /\ jobs'[r] = jobs[r]
    <3>1. CASE MayComplete(h)
      <4>1. handler[h].request # r
        BY <2>1, <3>1 DEF MayComplete
      <4> QED BY <2>4, <3>1, <4>1 DEF Complete
    <3>2. CASE ~ MayComplete(h)
      BY <2>4, <3>2 DEF Complete
    <3> QED BY <3>1, <3>2
  <2>5. ASSUME NEW h \in Handlers, Fail(h) PROVE r \in DOMAIN jobs' /\ jobs'[r] = jobs[r]
    <3>1. CASE jobs' = jobs
      BY <3>1
    <3>2. CASE handler[h].request \in DOMAIN jobs /\ MayFail(jobs[handler[h].request], h)
               /\ jobs' = Drop(jobs, handler[h].request)
      <4>1. handler[h].request # r
        BY <2>1, <3>2 DEF MayFail
      <4> QED BY <3>2, <4>1 DEF Drop, Restrict
    <3> QED BY <2>5, <3>1, <3>2 DEF Fail
  <2>6. CASE Alarm
    BY <2>2, <2>6 DEF Alarm
  <2>7. CASE jobs' = jobs
    BY <2>7
  <2> QED BY <1>1, <2>3, <2>4, <2>5, <2>6, <2>7 DEF Next, WriteImage, WriteMetadata, UploadFails, Release, Lose, Tick
<1>2. GateInv /\ [Next]_vars => [stays]_vars
  BY <1>1
<1> QED BY <1>2, GateInvariant, PTL DEF Spec, ReceiptStable

=============================================================================
