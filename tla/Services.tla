------------------------------ MODULE Services ------------------------------
(***************************************************************************)
(* The names every component speaks of.                                    *)
(***************************************************************************)
EXTENDS Integers

CONSTANTS Service,      \* service names that commands and requests mention
          ContainerId   \* ids the Docker daemon hands out
=============================================================================
