----------------------------- MODULE MCBurnTrip -----------------------------
(* Instances of BurnTrip for TLC. *)
EXTENDS BurnTrip

Wire(payer, signers, valid, shape) ==
  [payer |-> payer, signers |-> signers, valid |-> valid, shape |-> shape, small |-> TRUE]

Prep(tx) == [sameId |-> TRUE, digest |-> TRUE, unsigned |-> TRUE, tx |-> tx]

WalletBurn == Wire("wallet", {"wallet"}, {}, "burn")

\* A burn, a transfer, a burn that somebody else pays for, and answers to
\* another request or that fail their checksum.
MCPreparations ==
  {Prep(WalletBurn), Prep([WalletBurn EXCEPT !.shape = "transfer"]),
   Prep(Wire("other", {"wallet", "other"}, {}, "burn")),
   [Prep(WalletBurn) EXCEPT !.sameId = FALSE], [Prep(WalletBurn) EXCEPT !.digest = FALSE]}

MCWires ==
  {Wire("other", {"other"}, v, s) : v \in {{}, {"other"}}, s \in {"burn", "transfer"}}
    \cup {Wire("other", {"wallet", "other"}, {"other"}, "burn")}

TripSpec == TripInit /\ [][TripNext]_tripVars

=============================================================================
