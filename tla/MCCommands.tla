------------------------------ MODULE MCCommands ------------------------------
(***************************************************************************)
(* Instances of Commands for TLC.  ContainerId needs one id more than      *)
(* entries, workers and running containers can name at once.               *)
(***************************************************************************)
EXTENDS Commands, FiniteSets, TLC

\* Names none of which contains another.
OwnNameOnly == {<<s, s>> : s \in Service}

\* The states in which both services have overlapped are not left.
OneOverlap == Cardinality(overlapped) <= 1

Symmetry == Permutations(Worker) \cup Permutations(ContainerId)
=============================================================================
