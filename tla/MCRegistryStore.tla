--------------------------- MODULE MCRegistryStore ---------------------------
(***************************************************************************)
(* The instance of RegistryStore for TLC: two processes, two services.     *)
(***************************************************************************)
EXTENDS RegistryStore, TLC

Symmetry == Permutations(Service)
=============================================================================
