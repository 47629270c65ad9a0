----------------------------- MODULE MCChangeSet -----------------------------
(* Instances of ChangeSet for TLC. *)
EXTENDS ChangeSet, TLC

CONSTANTS a, b
MCPaths == {a, b}
Alike == Permutations(MCPaths)
=============================================================================
