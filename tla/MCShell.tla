------------------------------ MODULE MCShell -------------------------------
(* Small instances of Shell for TLC. *)
EXTENDS Shell

CONSTANTS c1, c2

=============================================================================
