----------------------------- MODULE MCTerminal -----------------------------
(* Small instances of Terminal for TLC. *)
EXTENDS Terminal

CONSTANTS l1, l2

=============================================================================
