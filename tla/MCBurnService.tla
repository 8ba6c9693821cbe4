--------------------------- MODULE MCBurnService ---------------------------
(* Instances of BurnService for TLC. *)
EXTENDS BurnService, TLC

CONSTANTS r1, r2, r3

\* Two of the requests carry one requestId.
MCIdOf == [r \in Reqs |-> IF r = r3 THEN "b" ELSE "a"]

\* The two requests with one id are alike.
SameId == Permutations({r1, r2})

MCVaultOf == [r \in Reqs |-> "v"]

=============================================================================
