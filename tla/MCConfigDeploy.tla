--------------------------- MODULE MCConfigDeploy ---------------------------
(* ConfigDeploy for TLC. *)
EXTENDS ConfigDeploy, TLC

JobSymmetry == Permutations(Deploy)
=============================================================================
