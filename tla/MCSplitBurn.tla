---------------------------- MODULE MCSplitBurn ----------------------------
(* Instances of SplitBurn for TLC. *)
EXTENDS SplitBurn

CONSTANTS
  sameMint,    \* the vault's, holding the first leg's target mint
  otherMint,   \* the vault's, holding a mint no leg burns
  foreign      \* not the vault's

\* Two parts, each with its own calls: "hostile" routes that make several changes
\* each, and "mixed" venues, accumulators and donations.
VARIABLE part

\* The output that one lamport buys; a market of 0 is a reference the program
\* refuses to price.
MCLegFloor(i, amount, market) == amount * market

MCWeights == <<1, 2>>

MCAuxMint == [a \in Aux |-> IF a = sameMint THEN 1 ELSE 0]

MCAuxStatus == [a \in Aux |-> IF a = foreign THEN "lost" ELSE "ours"]

Legal(kinds, tokens, accums) ==
  [total |-> 3, min |-> <<1, 2>>, kind |-> kinds, tokens |-> tokens,
   accums |-> accums, defects |-> {}, badLegs |-> {}]

Variants(c) ==
  {[c EXCEPT !.defects = {d}] : d \in {"encoding", "accounts", "vault", "suffix", "accumulator"}}
  \cup {[c EXCEPT !.badLegs = {i}] : i \in Legs}
  \cup {[c EXCEPT !.total = 0], [c EXCEPT !.total = 1], [c EXCEPT !.min[2] = 0]}

\* Both legs through Jupiter; each route is handed the other leg's target
\* account, and the second one an account of the first target's mint.
HostileCalls ==
  {Legal(<<"jupiter", "jupiter">>, <<{2}, {1, sameMint}>>, <<{}, {}>>)}

\* Every mix of venues, all accumulators in the second slice and one of them in
\* the first one too or not, malformed calls, and a
\* curve leg before a Jupiter route that may close an accumulator and is handed
\* an account of a third mint and one that is not the vault's.
MixedCalls ==
  LET kinds == {<<k1, k2>> : k1 \in {"jupiter", "curve"}, k2 \in {"jupiter", "curve"}}
      slices == {<<a1, Accums>> : a1 \in {{}, {"pump"}}}
      legal == {Legal(k, <<{}, {1}>>, a) : k \in kinds, a \in slices}
  IN  legal \cup Variants(CHOOSE c \in legal : TRUE)
        \cup {Legal(<<"curve", "jupiter">>, <<{}, {1, otherMint, foreign}>>, <<{}, {"swap"}>>)}

Parts == {"hostile", "mixed"}

CallsOf(p)   == IF p = "hostile" THEN HostileCalls ELSE MixedCalls
OutputsOf(p) == IF p = "hostile" THEN {1, 2} ELSE {0, 2}
TouchesOf(p) == IF p = "hostile" THEN 2 ELSE 1
MarketsOf(p) == IF p = "hostile" THEN {1, 2} ELSE {0, 1}
AuxOf(p)     == IF p = "hostile" THEN {sameMint} ELSE {otherMint, foreign}

MCCalls == HostileCalls \cup MixedCalls

\* The accounts, reference pools and changes that the part is about.
Inside ==
  /\ ledger.market \in MarketsOf(part) /\ touches <= TouchesOf(part)
  /\ \A a \in Aux \ AuxOf(part) : ledger.amt[a] = 0

MCInit == part \in Parts /\ Init /\ Inside

\* An account that a call does not hand to its routes is empty when it runs.
Reaches(c) == \A a \in Aux : ledger.amt[a] # 0 => a \in TokenPool(c)

\* Next, within a part.
MCNext ==
  /\ part' = part
  /\ \/ \E c \in CallsOf(part) : Reaches(c) /\ Submit(c)
     \/ BeginLeg
     \/ \E out \in OutputsOf(part) : VenueSwap(out)
     \/ FinishLeg
     \/ Sweep
     \/ Environment /\ Inside'

MCSpec == MCInit /\ [][MCNext]_<<part, vars>>

=============================================================================
