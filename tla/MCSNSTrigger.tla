---- MODULE MCSNSTrigger ----
(***************************************************************************)
(* Instances of SNSTrigger for TLC.                                        *)
(***************************************************************************)
EXTENDS SNSTrigger, TLC

Symmetry == Permutations(Publication)
====
