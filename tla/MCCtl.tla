------------------------------- MODULE MCCtl -------------------------------
(* scubed3ctl with two partitions and two directories to mount on. *)
EXTENDS Ctl, TLC

Symmetry == Permutations(Name)
============================================================================
