------------------------------ MODULE MCSession ------------------------------
(***************************************************************************)
(* Instances of Session for TLC.                                           *)
(***************************************************************************)
EXTENDS Session, TLC

\* Names none of which contains another.
OwnNameOnly == {<<s, s>> : s \in Service}

Symmetry == Permutations(Goroutine) \cup Permutations(ContainerId)
=============================================================================
