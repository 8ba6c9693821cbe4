------------------------------- MODULE ReadPool -------------------------------
(***************************************************************************)
(* The reads of an enumeration: mapWithConcurrency of markets.ts hands the *)
(* addresses of a scan to a few workers, and each read is tried three      *)
(* times by retryReferenceRpc of server.ts.  A scan that failed, or that   *)
(* its deadline gave up, leaves workers behind which read on while the     *)
(* next scan of the mint begins.                                           *)
(***************************************************************************)
EXTENDS Integers, FiniteSets

CONSTANTS
  Scans,      \* scans of one mint, in the order they begin
  Addresses,  \* number of addresses to read
  Width,      \* CANDIDATE_READ_CONCURRENCY
  Attempts,   \* tries of one call
  Opening     \* addresses that may get an account meanwhile

ASSUME ReadPoolConstants ==
  /\ Scans \subseteq Nat /\ Addresses \in Nat \ {0} /\ Width \in Nat \ {0} /\ Attempts \in Nat \ {0}

VARIABLES
  there,   \* the addresses that have an account
  reads,   \* scan -> [state, cursor, rows, began]
  hand   \* scan -> worker -> [at, tries]; at 0 is one that has ended

poolVars == <<there, reads, hand>>

Workers == 1..Width

Rested == [at |-> 0, tries |-> 0]
TakesAddress(i) == [at |-> i, tries |-> 1]

PoolInit ==
  /\ there = {}
  /\ reads = [s \in Scans |-> [state |-> "idle", cursor |-> 1, rows |-> [i \in 1..Addresses |-> "none"], began |-> {}]]
  /\ hand = [s \in Scans |-> [w \in Workers |-> Rested]]

Reading(s) == {w \in Workers : hand[s][w] # Rested}

-----------------------------------------------------------------------------
(* The reads *)

\* No more workers than addresses; each takes one before anything is answered.
Started == IF Width < Addresses THEN Width ELSE Addresses

\* One scan of a mint at a time is waited for.
BeginScan(s) ==
  /\ reads[s].state = "idle"
  /\ \A r \in Scans : r < s => reads[r].state \notin {"idle", "running"}
  /\ reads' = [reads EXCEPT ![s].state = "running", ![s].cursor = Started + 1, ![s].began = there]
  /\ hand' = [hand EXCEPT ![s] = [w \in Workers |-> IF w <= Started THEN TakesAddress(w) ELSE Rested]]
  /\ UNCHANGED there

\* The worker takes the next address in one step with the end of the last read.
NextFor(s) == IF reads[s].cursor <= Addresses THEN TakesAddress(reads[s].cursor) ELSE Rested

\* Every worker came to the end of the list: Promise.all resolves.
FaultyCompletes(s, w) == Cardinality(Reading(s)) <= 1 /\ reads[s].cursor > Addresses
Completes(s, w)       == Reading(s) = {w} /\ reads[s].cursor > Addresses /\ reads[s].state = "running"

\* RPC answers what is there.
ReadAnswers(s, w) ==
  LET i == hand[s][w].at
  IN  /\ w \in Reading(s)
      /\ hand' = [hand EXCEPT ![s][w] = NextFor(s)]
      /\ reads' = [reads EXCEPT ![s].rows[i] = IF i \in there THEN "found" ELSE "absent",
                                ![s].cursor = IF @ <= Addresses THEN @ + 1 ELSE @,
                                ![s].state = IF Completes(s, w) THEN "ok" ELSE @]
      /\ UNCHANGED there

\* RPC fails: the call is made again after a pause.
ReadAgain(s, w) ==
  /\ w \in Reading(s) /\ hand[s][w].tries < Attempts
  /\ hand' = [hand EXCEPT ![s][w].tries = @ + 1]
  /\ UNCHANGED <<there, reads>>

\* The last try failed: the worker ends and the scan with it, the others read on.
ReadFails(s, w) ==
  /\ w \in Reading(s) /\ hand[s][w].tries = Attempts
  /\ hand' = [hand EXCEPT ![s][w] = Rested]
  /\ reads' = [reads EXCEPT ![s].state = IF @ = "running" THEN "failed" ELSE @]
  /\ UNCHANGED there

\* The discovery's deadline.
ScanLeft(s) ==
  /\ reads[s].state = "running"
  /\ reads' = [reads EXCEPT ![s].state = "left"]
  /\ UNCHANGED <<there, hand>>

\* An account is opened on the chain.
OpenAccount(i) == i \in Opening \ there /\ there' = there \cup {i} /\ UNCHANGED <<reads, hand>>

PoolNext ==
  \/ \E s \in Scans :
       \/ BeginScan(s) \/ ScanLeft(s)
       \/ \E w \in Workers : ReadAnswers(s, w) \/ ReadAgain(s, w) \/ ReadFails(s, w)
  \/ \E i \in 1..Addresses : OpenAccount(i)

-----------------------------------------------------------------------------
(* Properties *)

\* A scan that succeeds read every address, and one called absent was absent
\* when the scan began: no failure of RPC passes for an empty account.
RowsAreAnswers ==
  \A s \in Scans : reads[s].state = "ok" =>
    \A i \in 1..Addresses :
      /\ reads[s].rows[i] # "none"
      /\ reads[s].rows[i] = "absent" => i \notin reads[s].began

\* No address is read twice at once, and each worker is at one that was taken.
EachTakenOnce ==
  \A s \in Scans : \A w \in Reading(s) :
    /\ hand[s][w].at < reads[s].cursor
    /\ reads[s].rows[hand[s][w].at] = "none"
    /\ \A v \in Reading(s) : hand[s][v].at = hand[s][w].at => v = w

\* Only a scan that was given up or has failed leaves workers behind.
LeftBehind == \A s \in Scans : reads[s].state \in {"idle", "ok"} => Reading(s) = {}

PoolSound == RowsAreAnswers /\ EachTakenOnce /\ LeftBehind

=============================================================================
