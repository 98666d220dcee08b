--------------------------- MODULE MCPendingInputs ---------------------------
(***************************************************************************)
(* PendingInputs for two or three inputs that are interchangeable.         *)
(***************************************************************************)
EXTENDS PendingInputs, TLC

Symmetry == Permutations(Inputs)

=============================================================================
