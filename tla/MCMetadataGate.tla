--------------------------- MODULE MCMetadataGate ---------------------------
(* Instances of MetadataGate for TLC. *)
EXTENDS MetadataGate, TLC

Symmetry == Permutations(Handlers) \cup Permutations(Requests) \cup Permutations(Clients)
              \cup Permutations(Bodies)

=============================================================================
