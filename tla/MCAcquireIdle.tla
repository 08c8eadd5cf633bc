--------------------------- MODULE MCAcquireIdle ----------------------------
(* Small instances of AcquireIdle for TLC. *)
EXTENDS AcquireIdle

CONSTANTS q1, q2

=============================================================================
