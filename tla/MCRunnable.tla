----------------------------- MODULE MCRunnable -----------------------------
(* Instances of Runnable for TLC. *)
EXTENDS Runnable
=============================================================================
