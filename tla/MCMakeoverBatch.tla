-------------------------- MODULE MCMakeoverBatch ---------------------------
(* MakeoverBatch on a small instance: see the .cfg files for the bounds. *)
EXTENDS MakeoverBatch
=============================================================================
