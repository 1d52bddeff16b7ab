------------------------------- MODULE MCProc -------------------------------
(* Small instances of Proc for TLC. *)
EXTENDS Proc, TLC

\* Process structures are interchangeable: no action orders them.
ProcSymmetry == Permutations(Proc)
=============================================================================
