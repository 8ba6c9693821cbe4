------------------------- MODULE MCCommunityIndexer -------------------------
(* Instances of CommunityIndexer for TLC. *)
EXTENDS CommunityIndexer

CONSTANTS r1, r2

=============================================================================
