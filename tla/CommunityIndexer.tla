-------------------------- MODULE CommunityIndexer --------------------------
(***************************************************************************)
(* The cron job behind the Community Vaults leaderboard                    *)
(* (app/community-indexer.ts, scheduled from app/worker.ts): it lists the  *)
(* burner program's finalized signatures newest first, fetches the         *)
(* transactions, stores their burn legs and moves two cursors, the head    *)
(* and the backfill.  Invocations may overlap, and any of them may fail    *)
(* between two awaits.                                                     *)
(*                                                                         *)
(* Signatures are numbered in chain order; 0 is the empty cursor value.    *)
(***************************************************************************)
EXTENDS Naturals, FiniteSets

CONSTANTS
  Runs,           \* overlapping invocations of the cron job
  PAGE,           \* SIGNATURE_PAGE
  MAX_PAGES,      \* MAX_INCREMENTAL_PAGES
  Errored,        \* the signatures whose transaction failed on chain
  InitialBurns,   \* bound: signatures older than the index
  MaxSignatures,  \* bound: signatures altogether
  MaxBacklog,     \* bound: signatures that arrive ahead of the head cursor
  MaxFailures     \* bound: RPC and database failures

ASSUME IndexerConstants ==
  /\ PAGE \in Nat \ {0} /\ MAX_PAGES \in Nat \ {0}
  /\ InitialBurns \in Nat /\ MaxSignatures \in Nat /\ InitialBurns <= MaxSignatures
  /\ Errored \subseteq 1 .. MaxSignatures
  /\ MaxBacklog \in Nat /\ MaxFailures \in Nat

VARIABLES
  chain,     \* the number of finalized signatures
  rows,      \* burn_legs, by signature
  head,      \* latest_signature
  backfill,  \* backfill_before
  done,      \* backfill_complete
  run,       \* the local state of every invocation
  failures

vars == <<chain, rows, head, backfill, done, run, failures>>

Idle == [phase |-> "idle", head |-> 0, backfill |-> 0, done |-> FALSE,
         listed |-> {}, pages |-> 0, newest |-> 0]

Oldest(S) == CHOOSE s \in S : \A t \in S : s <= t
Newest(S) == CHOOSE s \in S : \A t \in S : s >= t

\* getSignaturesForAddress: the PAGE newest finalized signatures above until
\* and, unless before is empty, below before.
Page(before, until) ==
  LET range == {s \in 1 .. chain : s > until /\ (before = 0 \/ s < before)}
  IN  {s \in range : Cardinality({t \in range : t > s}) < PAGE}

Init ==
  /\ chain = InitialBurns
  /\ rows = {} /\ head = 0 /\ backfill = 0 /\ done = FALSE
  /\ run = [r \in Runs |-> Idle]
  /\ failures = 0

\* A transaction that calls the burner is finalized.
Finalize ==
  /\ chain < MaxSignatures
  /\ chain - (IF head > InitialBurns THEN head ELSE InitialBurns) < MaxBacklog
  /\ chain' = chain + 1
  /\ UNCHANGED <<rows, head, backfill, done, run, failures>>

-----------------------------------------------------------------------------
(* One invocation of indexFinalizedBurns *)

Becomes(r, local) == run' = [run EXCEPT ![r] = local]

ReadState(r) ==
  /\ run[r].phase = "idle"
  /\ Becomes(r, [Idle EXCEPT !.phase = "list", !.head = head, !.backfill = backfill, !.done = done])
  /\ UNCHANGED <<chain, rows, head, backfill, done, failures>>

FaultyIncrementalNewest(listed, older) ==
  IF listed \cup older = {} THEN 0 ELSE Newest(listed \cup older)

\* The head only advances over the incremental pages.
IncrementalNewest(listed, older) == IF listed = {} THEN 0 ELSE Newest(listed)

\* One page of the incremental loop.
ListPage(r) ==
  /\ run[r].phase = "list"
  /\ LET l    == run[r]
         next == Page(IF l.listed = {} THEN 0 ELSE Oldest(l.listed), l.head)
         last == Cardinality(next) < PAGE \/ l.pages + 1 = MAX_PAGES
     IN  Becomes(r, [l EXCEPT !.listed = @ \cup next,
                              !.pages = @ + 1,
                              !.phase = IF last THEN "backfill" ELSE "list"])
  /\ UNCHANGED <<chain, rows, head, backfill, done, failures>>

LastOlderPage(older) == Cardinality(older) < PAGE

\* The first index starts the backfill below what it listed, or needs none;
\* a later one continues it by a page.
Backfill(r) ==
  /\ run[r].phase = "backfill"
  /\ LET l     == run[r]
         older == Page(l.backfill, 0)
         full  == Cardinality(l.listed) >= PAGE
         first == l.head = 0
         more  == ~ first /\ ~ l.done /\ l.backfill # 0
         fetch == [l EXCEPT !.phase = "fetch",
                            !.newest = IncrementalNewest(l.listed, IF more THEN older ELSE {})]
     IN  Becomes(r,
           IF first /\ full THEN [fetch EXCEPT !.backfill = Oldest(l.listed)]
           ELSE IF more
             THEN [fetch EXCEPT !.listed = @ \cup older,
                                !.backfill = IF older = {} THEN 0 ELSE Oldest(older),
                                !.done = LastOlderPage(older)]
           ELSE IF first THEN [fetch EXCEPT !.done = TRUE]
           ELSE fetch)
  /\ UNCHANGED <<chain, rows, head, backfill, done, failures>>

\* Failed transactions are not asked for: they burned nothing.
Succeeded(listed) == listed \ Errored

FaultyAllFetched(missing) == TRUE

\* missingTransactionSignatures
AllFetched(missing) == missing = {}

\* The transactions that succeeded are fetched; RPC may not have some of them.
Fetch(r, missing) ==
  /\ run[r].phase = "fetch"
  /\ missing \subseteq Succeeded(run[r].listed)
  /\ missing # {} => failures < MaxFailures
  /\ failures' = IF missing = {} THEN failures ELSE failures + 1
  /\ IF AllFetched(missing)
       THEN Becomes(r, [run[r] EXCEPT !.phase = "store", !.listed = Succeeded(@) \ missing])
       ELSE Becomes(r, Idle)
  /\ UNCHANGED <<chain, rows, head, backfill, done>>

\* INSERT OR IGNORE, keyed by signature
Store(r) ==
  /\ run[r].phase = "store"
  /\ rows' = rows \cup run[r].listed
  /\ Becomes(r, [run[r] EXCEPT !.phase = "commit"])
  /\ UNCHANGED <<chain, head, backfill, done, failures>>

FaultyNextLatestSignature(prior, newest) == prior

\* nextLatestSignature
NextLatestSignature(prior, newest) == IF newest # 0 THEN newest ELSE prior

\* The cursors are written in one database batch.
Commit(r) ==
  /\ run[r].phase = "commit"
  /\ head' = NextLatestSignature(run[r].head, run[r].newest)
  /\ backfill' = run[r].backfill
  /\ done' = run[r].done
  /\ Becomes(r, Idle)
  /\ UNCHANGED <<chain, rows, failures>>

\* A call throws, or the worker is cut off; rows are stored in batches, so some
\* of them may already be there.
Abort(r, stored) ==
  /\ run[r].phase # "idle" /\ failures < MaxFailures
  /\ stored \subseteq run[r].listed
  /\ run[r].phase # "store" => stored = {}
  /\ rows' = rows \cup stored
  /\ Becomes(r, Idle)
  /\ failures' = failures + 1
  /\ UNCHANGED <<chain, head, backfill, done>>

Progress(r) ==
  ReadState(r) \/ ListPage(r) \/ Backfill(r) \/ Fetch(r, {}) \/ Store(r) \/ Commit(r)

Next ==
  \/ Finalize
  \/ \E r \in Runs : ReadState(r) \/ ListPage(r) \/ Backfill(r) \/ Store(r) \/ Commit(r)
  \/ \E r \in Runs : \E S \in SUBSET run[r].listed : Fetch(r, S) \/ Abort(r, S)

Spec == Init /\ [][Next]_vars

\* The schedule keeps invoking the job, and calls that do not fail return.
FairSpec == Spec /\ \A r \in Runs : WF_vars(Progress(r))

-----------------------------------------------------------------------------
(* Properties *)

\* Every variable has its type; only successful burns are stored and no cursor
\* is ahead of the chain.
TypeOK ==
  /\ chain \in 0 .. MaxSignatures
  /\ rows \subseteq (1 .. chain) \ Errored
  /\ head \in 0 .. chain /\ backfill \in 0 .. chain /\ done \in BOOLEAN
  /\ run \in [Runs -> [phase : {"idle", "list", "backfill", "fetch", "store", "commit"},
                       head : 0 .. chain, backfill : 0 .. chain, done : BOOLEAN,
                       listed : SUBSET (1 .. chain), pages : 0 .. MAX_PAGES, newest : 0 .. chain]]
  /\ failures \in 0 .. MaxFailures

\* A burn at or below the head cursor is stored, or the backfill will still
\* come past it; otherwise it would never be ranked.  Holds with overlapping
\* runs, stale commits, partial writes and missing transactions as long as no
\* more than MAX_PAGES * PAGE signatures arrive between two runs.
NoBurnSkipped ==
  \A s \in 1 .. head : s \in Errored \/ s \in rows \/ (~ done /\ s < backfill)

\* The cursors are where they may be, and nothing unranked is behind both.
CursorsSound == TypeOK /\ NoBurnSkipped

\* A run never commits a head older than the one it started from: backfilled
\* signatures are not mistaken for new ones in a quiet minute.
HeadAdvances ==
  [][\A r \in Runs : run[r].phase = "commit" /\ run'[r].phase = "idle" /\ failures' = failures
       => head' >= run[r].head]_vars

\* Every successful burn is eventually ranked, for good.
EventuallyIndexed == <>[]((1 .. chain) \ Errored \subseteq rows)

=============================================================================
