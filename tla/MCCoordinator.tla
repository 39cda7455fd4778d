--------------------------- MODULE MCCoordinator ----------------------------
(* A small instance of MutationCoordinator for TLC. *)
EXTENDS MutationCoordinator

AllOps == {"open", "close", "correct", "ensure"}
=============================================================================
