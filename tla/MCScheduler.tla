----------------------------- MODULE MCScheduler -----------------------------
(***************************************************************************)
(* Instances of Scheduler for TLC.  ContainerId needs one id more than     *)
(* entries, workers and running containers can name at once.               *)
(***************************************************************************)
EXTENDS Scheduler, TLC

\* Names none of which contains another.
OwnNameOnly == {<<s, s>> : s \in Service}

Symmetry == Permutations(Worker) \cup Permutations(ContainerId)
=============================================================================
