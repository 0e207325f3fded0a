---- MODULE MCSQSTrigger ----
(***************************************************************************)
(* Instances of SQSTrigger for TLC.                                       *)
(***************************************************************************)
EXTENDS SQSTrigger, TLC

Symmetry == Permutations(Message)
====
