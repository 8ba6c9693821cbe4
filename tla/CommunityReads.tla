---------------------------- MODULE CommunityReads ----------------------------
(***************************************************************************)
(* What the Community Vaults pages are told (app/community-indexer.ts):    *)
(* the rows decoded from a finalized transaction's instructions and logs,  *)
(* the batches in which they are stored, newest transaction first, and the *)
(* summaries that page through burn_legs meanwhile.  A vault's address is  *)
(* the launch, weights, mints and references it was derived from.          *)
(***************************************************************************)
EXTENDS SplitMath, SequencesExt

CONSTANTS
  Works,          \* what the runs have listed: sequences of sequences of
                  \* transactions, [sig, slot, calls, cut]
  Questions,      \* [kind : {"vault", "launch", "board"}, of]
  ROWS,           \* rows in a page of a summary (1000)
  BATCH,          \* rows in a batch of inserts (50)
  COMMUNITIES     \* communities on the board (250)

VARIABLES
  runs,     \* the transactions of this behaviour
  inserts,  \* the batches still to be stored
  burn_legs,
  reader    \* the summary under way

readsVars == <<runs, inserts, burn_legs, reader>>

Burner == "burner"

WeightsOf(call) == [j \in 1 .. Len(call.legs) |-> call.legs[j].bps]

TransactionsOf(work) == UNION {ToSet(work[r]) : r \in DOMAIN work}
CallsOf(work) == UNION {ToSet(t.calls) : t \in TransactionsOf(work)}

\* external: a burn that was finalized is one that the program admitted, and a
\* signature stands for one transaction
Finalized(work) ==
  /\ work \in Seq(Seq([sig : Nat, slot : Nat, calls : Seq(CallsOf(work)), cut : Nat]))
  /\ \A call \in CallsOf(work) :
       \/ call.kind = "validate"
       \/ /\ call.kind \in {"split", "wrapped"} /\ call.total \in Nat \ {0} /\ Len(call.legs) \in 1 .. MAX_SPLIT_TARGETS
          /\ WeightVector(WeightsOf(call))
  /\ \A t, u \in TransactionsOf(work) : t.sig = u.sig => t = u

ASSUME ReadsConstants ==
  /\ \A work \in Works : Finalized(work)
  /\ ROWS \in Nat \ {0} /\ BATCH \in Nat \ {0}

-----------------------------------------------------------------------------
(* Decoding a transaction *)

LogLine(what, prog, depth, value) == [what |-> what, prog |-> prog, depth |-> depth, value |-> value]

\* external: the runtime's log of one burn, each leg swapping before its record
BurnLog(call, depth) ==
  <<LogLine("invoke", Burner, depth, 0)>>
    \o FlattenSeq([i \in 1 .. Len(call.legs) |->
         <<LogLine("invoke", "jupiter", depth + 1, 0), LogLine("success", "jupiter", depth + 1, 0),
           LogLine("record", Burner, depth, LegAmount(call.total, WeightsOf(call), i))>>])
    \o <<LogLine("success", Burner, depth, 0)>>

\* external: a burn, a validation, or another program that calls the burner
CallLog(call) ==
  CASE call.kind = "split"    -> BurnLog(call, 1)
    [] call.kind = "validate" -> <<LogLine("invoke", Burner, 1, 0), LogLine("success", Burner, 1, 0)>>
    [] call.kind = "wrapped"  ->
         <<LogLine("invoke", "wrapper", 1, 0)>> \o BurnLog(call, 2) \o <<LogLine("success", "wrapper", 1, 0)>>

\* The runtime cuts long logs short.
LogOf(transaction) ==
  LET log == FlattenSeq([i \in 1 .. Len(transaction.calls) |-> CallLog(transaction.calls[i])])
  IN  SubSeq(log, 1, IF transaction.cut < Len(log) THEN transaction.cut ELSE Len(log))

NotEmpty(group) == group # <<>>

FaultyKept(groups) == groups

\* Calls that log no burn have no group.
Kept(groups) ==
  LET kept[n \in 0 .. Len(groups)] ==
        IF n = 0 THEN <<>> ELSE IF NotEmpty(groups[n]) THEN Append(kept[n - 1], groups[n]) ELSE kept[n - 1]
  IN  kept[Len(groups)]

\* One line of the log, read with the stack of running programs.
ReadLine(state, line) ==
  LET open == SubSeq(state.stack, 1, line.depth - 1)
  IN  CASE line.what = "invoke" ->
             [stack  |-> Append(open, line.prog),
              active |-> state.active \/ (line.depth = 1 /\ line.prog = Burner),
              groups |-> IF line.depth = 1 /\ line.prog = Burner THEN Append(state.groups, <<>>) ELSE state.groups]
        [] line.what = "record" ->
             IF state.active /\ state.stack # <<>> /\ Last(state.stack) = Burner
             THEN [state EXCEPT !.groups[Len(state.groups)] = Append(@, line.value)]
             ELSE state
        [] line.what = "success" ->
             [state EXCEPT
                !.stack  = IF @ # <<>> /\ Last(@) = line.prog THEN Front(@) ELSE @,
                !.active = @ /\ ~ (Len(state.stack) = 1 /\ line.prog = Burner)]

\* What was read of the first n lines.
ReadUpTo(log, n) ==
  LET state[k \in 0 .. n] ==
        IF k = 0 THEN [stack |-> <<>>, active |-> FALSE, groups |-> <<>>] ELSE ReadLine(state[k - 1], log[k])
  IN  state[n]

\* One group of recorded inputs for every top-level burn.
burnLogGroups(log) == Kept(ReadUpTo(log, Len(log)).groups)

\* decodeSplit
IsSplit(call) ==
  LET weights == WeightsOf(call)
  IN  call.kind = "split" /\ call.total # 0 /\ ValidLegCount(weights) /\ ValidWeights(weights)

VaultOf(call) ==
  [launch |-> call.launch,
   legs |-> [j \in 1 .. Len(call.legs) |->
               [mint |-> call.legs[j].mint, bps |-> call.legs[j].bps, ref |-> call.legs[j].ref]]]

Row(transaction, n, i) ==
  LET call == transaction.calls[n]
  IN  [sig |-> transaction.sig, slot |-> transaction.slot, index |-> n, leg |-> i,
       vault |-> VaultOf(call), mint |-> call.legs[i].mint, bps |-> call.legs[i].bps,
       pool |-> call.legs[i].pool,
       sol |-> LegAmount(call.total, WeightsOf(call), i)]

RowsOf(transaction, n) == [i \in 1 .. Len(transaction.calls[n].legs) |-> Row(transaction, n, i)]

\* The n-th call's rows, if the group of its turn tells what its data tells.
DecodedCall(transaction, groups, n) ==
  LET turn == Cardinality({k \in 1 .. n : IsSplit(transaction.calls[k])})
      rows == RowsOf(transaction, n)
  IN  IF /\ IsSplit(transaction.calls[n])
         /\ turn <= Len(groups)
         /\ groups[turn] = [i \in 1 .. Len(rows) |-> rows[i].sol]
      THEN rows ELSE <<>>

decodeBurnTransaction(transaction) ==
  LET groups == burnLogGroups(LogOf(transaction))
  IN  FlattenSeq([n \in 1 .. Len(transaction.calls) |-> DecodedCall(transaction, groups, n)])

-----------------------------------------------------------------------------
(* Storing *)

\* A run stores the rows of its transactions in batches.
Batches(run) ==
  LET rows == FlattenSeq([k \in 1 .. Len(run) |-> decodeBurnTransaction(run[k])])
  IN  [b \in 1 .. (Len(rows) + BATCH - 1) \div BATCH |->
         ToSet(SubSeq(rows, (b - 1) * BATCH + 1, IF b * BATCH < Len(rows) THEN b * BATCH ELSE Len(rows)))]

\* INSERT OR IGNORE
StoreBatch ==
  /\ inserts # <<>>
  /\ burn_legs' = burn_legs \cup Head(inserts)
  /\ inserts' = Tail(inserts)
  /\ UNCHANGED <<runs, reader>>

-----------------------------------------------------------------------------
(* Reading *)

Key(row) == <<row.slot, row.index, row.leg, row.sig>>

\* ORDER BY slot, instruction_index, leg_index; rows that tie keep one order.
Earlier(r, q) ==
  \E i \in 1 .. 4 : Key(r)[i] < Key(q)[i] /\ \A j \in 1 .. i - 1 : Key(r)[j] = Key(q)[j]

\* Burned atoms are selected without an order: by the index over target and
\* time, newest first.
Precedes(order, r, q) == IF order = "oldest first" THEN Earlier(r, q) ELSE Earlier(q, r)

RowsFor(question) ==
  CASE question.kind = "vault"  -> {r \in burn_legs : r.vault = question.of}
    [] question.kind = "launch" -> {r \in burn_legs : r.vault.launch = question.of}

\* One page: LIMIT and OFFSET over what the table holds now.
PageAt(rows, order, offset) ==
  LET sorted == [i \in 1 .. Cardinality(rows) |->
                   CHOOSE r \in rows : Cardinality({q \in rows : Precedes(order, q, r)}) = i - 1]
  IN  SubSeq(sorted, offset + 1, IF offset + ROWS < Len(sorted) THEN offset + ROWS ELSE Len(sorted))

CallOf(row) == <<row.sig, row.index>>

SumSol(rows) ==
  LET sum[n \in 0 .. Len(rows)] == IF n = 0 THEN 0 ELSE sum[n - 1] + rows[n].sol
  IN  sum[Len(rows)]

\* The row of the vault's last call, by slot, instruction and signature.
LatestCall(rows, vault) ==
  CHOOSE r \in rows : r.vault = vault /\
    \A q \in rows : q.vault = vault =>
      CallOf(q) = CallOf(r) \/ q.slot < r.slot
        \/ (q.slot = r.slot /\ (q.index < r.index \/ (q.index = r.index /\ q.sig < r.sig)))

\* latestVaultConfigs: the legs of that call that were read.
ConfigOf(rows, vault) ==
  LET last == CallOf(LatestCall(rows, vault))
      legs == {r \in rows : r.vault = vault /\ CallOf(r) = last}
  IN  [vault |-> vault,
       legs |-> [i \in {r.leg : r \in legs} |-> CHOOSE r \in legs : r.leg = i]]

Matches(vault, legs) == vault.legs = legs

\* vaultHref: the legs, each with its pool or with the zero reference, that
\* derive the vault; there is no link without such legs.
LinksOf(config) ==
  LET places == DOMAIN config.legs
      choice(mask) ==
        [i \in places |-> [mint |-> config.legs[i].mint, bps |-> config.legs[i].bps,
                           ref |-> IF i \in mask THEN config.legs[i].pool ELSE "zero"]]
  IN  IF places = 1 .. Cardinality(places) /\ places # {}
      THEN {legs \in {choice(mask) : mask \in SUBSET places} : Matches(config.vault, legs)}
      ELSE {}

Unasked == [phase |-> "ask", question |-> [kind |-> "none", of |-> 0], rows |-> <<>>, start |-> {},
            left |-> {}, top |-> <<>>, atoms |-> {}, configs |-> {}, burns |-> 0]

ReadsInit ==
  /\ runs \in Works
  /\ inserts = FlattenSeq([r \in 1 .. Len(runs) |-> Batches(runs[r])])
  /\ burn_legs = {} /\ reader = Unasked

AskFor(question) ==
  /\ reader.phase = "ask"
  /\ reader' = [Unasked EXCEPT !.question = question, !.start = burn_legs,
              !.left  = IF question.kind = "board" THEN {"top", "configs"} ELSE {},
              !.phase = IF question.kind = "board" THEN "board" ELSE "rows"]
  /\ UNCHANGED <<runs, inserts, burn_legs>>

\* communityVaultSummary and communityLaunchSummary, a page at a time.
SummaryPage ==
  /\ reader.phase = "rows"
  /\ LET page == PageAt(RowsFor(reader.question), "oldest first", Len(reader.rows))
         rows == reader.rows \o page
     IN  reader' = [reader EXCEPT
           !.rows = rows,
           !.phase = IF Len(page) < ROWS THEN "done" ELSE "rows",
           !.configs = IF Len(page) < ROWS
                       THEN {ConfigOf(ToSet(rows), v) : v \in {r.vault : r \in ToSet(rows)}} ELSE {}]
  /\ UNCHANGED <<runs, inserts, burn_legs>>

Sol(row) == row.sol
MintTotal(rows, mint) == MapThenSumSet(Sol, {r \in rows : r.mint = mint})
VaultTotal(vault) == MapThenSumSet(Sol, {r \in burn_legs : r.vault = vault})

\* The communities of the most SOL, up to the limit.
TopCommunities ==
  LET mints == {r.mint : r \in burn_legs}
      best(S) == \A m \in S, k \in mints \ S : MintTotal(burn_legs, m) >= MintTotal(burn_legs, k)
  IN  {S \in SUBSET mints : best(S) /\ (Cardinality(S) = COMMUNITIES \/ (S = mints /\ Cardinality(S) < COMMUNITIES))}

\* communityLeaderboard's first queries are sent together and may see
\* different tables; so may the pages that follow when both are answered.
Queried(query, found) ==
  /\ reader.phase = "board" /\ query \in reader.left
  /\ reader' = [found EXCEPT
       !.left  = IF reader.left = {query} THEN DOMAIN found.top[1] ELSE @ \ {query},
       !.phase = IF reader.left # {query} THEN "board" ELSE IF found.top[1] = <<>> THEN "burns" ELSE "atoms"]
  /\ UNCHANGED <<runs, inserts, burn_legs>>

BoardTop ==
  \E S \in TopCommunities :
    Queried("top", [reader EXCEPT !.top = <<[m \in S |-> MintTotal(burn_legs, m)]>>])

\* The last configuration of every launch's largest vault.
BoardConfigs ==
  Queried("configs", [reader EXCEPT !.configs =
    {ConfigOf(burn_legs, v) : v \in {r.vault : r \in {q \in burn_legs :
       \A p \in burn_legs : p.vault.launch = q.vault.launch => VaultTotal(p.vault) <= VaultTotal(q.vault)}}}])

\* exactBurnedAtoms of one community, a page at a time.
AtomsPage(m) ==
  /\ reader.phase = "atoms" /\ m \in reader.left
  /\ \A r \in ToSet(reader.rows) : r.mint = m
  /\ LET page == PageAt({r \in burn_legs : r.mint = m}, "newest first", Len(reader.rows))
         rows == reader.rows \o page
     IN  IF Len(page) < ROWS
         THEN reader' = [reader EXCEPT !.rows = <<>>, !.left = @ \ {m}, !.atoms = @ \cup {<<m, SumSol(rows)>>},
                                       !.phase = IF reader.left = {m} THEN "burns" ELSE "atoms"]
         ELSE reader' = [reader EXCEPT !.rows = rows]
  /\ UNCHANGED <<runs, inserts, burn_legs>>

CountBurns ==
  /\ reader.phase = "burns"
  /\ reader' = [reader EXCEPT !.phase = "done", !.burns = Cardinality({CallOf(r) : r \in burn_legs})]
  /\ UNCHANGED <<runs, inserts, burn_legs>>

ReadsNext ==
  \/ StoreBatch
  \/ \E q \in Questions : AskFor(q)
  \/ SummaryPage
  \/ BoardTop
  \/ BoardConfigs
  \/ \E m \in reader.left : AtomsPage(m)
  \/ CountBurns

-----------------------------------------------------------------------------
(* Properties *)

\* The burns of a transaction: its own calls of the burner that burn.
BurnsOf(transaction) ==
  FlattenSeq([n \in 1 .. Len(transaction.calls) |->
    IF transaction.calls[n].kind = "split" THEN RowsOf(transaction, n) ELSE <<>>])

\* Logs and instructions are matched call by call: what is stored, and will
\* be, are exactly the burns, whatever other calls stand between them; a log
\* that was cut short loses whole calls at its end and invents nothing.
RowsTrue ==
  LET rows == burn_legs \cup UNION ToSet(inserts)
  IN  \A t \in TransactionsOf(runs) :
        \E kept \in 0 .. Len(t.calls) :
          /\ {r \in rows : r.sig = t.sig} = ToSet(BurnsOf([t EXCEPT !.calls = SubSeq(@, 1, kept)]))
          /\ LogOf(t) = LogOf([t EXCEPT !.cut = @ + 1]) => kept = Len(t.calls)

IsSummary == reader.question.kind \in {"vault", "launch"}
Concerned(rows) ==
  {r \in rows : IF reader.question.kind = "vault" THEN r.vault = reader.question.of
                ELSE r.vault.launch = reader.question.of}

\* A summary leaves out no row that was stored when it was asked for and shows
\* none that is not stored; it counts a row twice only if an older one came in
\* between its pages.
SummaryCovers ==
  reader.phase = "done" /\ IsSummary =>
    /\ Concerned(reader.start) \subseteq ToSet(reader.rows)
    /\ ToSet(reader.rows) \subseteq Concerned(burn_legs)
    /\ Len(reader.rows) > Cardinality(ToSet(reader.rows)) =>
         \E r \in burn_legs \ reader.start, q \in ToSet(reader.rows) : Earlier(r, q)

\* The board understates nothing that was stored when it was asked for, and is
\* exact when nothing was stored meanwhile.
BoardCovers ==
  reader.phase = "done" /\ reader.question.kind = "board" =>
    /\ reader.burns >= Cardinality({CallOf(r) : r \in reader.start})
    /\ \A pair \in reader.atoms : pair[2] >= MintTotal(reader.start, pair[1])
    /\ burn_legs = reader.start => \A pair \in reader.atoms : pair[2] = reader.top[1][pair[1]]

\* A link of the board or of a summary opens the vault whose burns it stands
\* beside, although the legs of its last call may be stored in two batches and
\* read between them.
LinksLeadHome ==
  \A config \in reader.configs : \A legs \in LinksOf(config) :
    config.vault.legs = legs /\ Cardinality(LinksOf(config)) = 1

\* What the community pages show is what was burned.
CommunitySound == RowsTrue /\ SummaryCovers /\ BoardCovers /\ LinksLeadHome

=============================================================================
