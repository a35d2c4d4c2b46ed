-------------------------- MODULE MCStartupPolicy --------------------------
(* Two helpers, an administrator's and the service's (which is which does not *)
(* matter: each may run any command), and a BIOS update.                      *)
EXTENDS StartupPolicy, TLC

Interchangeable == Permutations(Helpers)
=============================================================================
