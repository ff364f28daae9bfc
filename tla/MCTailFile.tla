----------------------------- MODULE MCTailFile -----------------------------
(* Instances of TailFile for TLC. *)
EXTENDS TailFile
=============================================================================
