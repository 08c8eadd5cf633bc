----------------------------- MODULE MCRouting ------------------------------
(* Small instances of Routing for TLC. *)
EXTENDS Routing

CONSTANTS s1, s2, s3, s4

TwoStacks == <<s1, s2>>
FourStacks == <<s1, s2, s3, s4>>

=============================================================================
