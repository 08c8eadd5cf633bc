------------------------------ MODULE MCRunner ------------------------------
(* Small instances of Runner for TLC. *)
EXTENDS Runner

CONSTANTS r1, r2, r3

=============================================================================
