------------------------------ MODULE MCBroker ------------------------------
(* Small instances of Broker for TLC. *)
EXTENDS Broker, TLC

CONSTANTS r1, r2, h1, h2, s1, s2, q1, q2

OwnHosts == [r \in Runner |-> IF r = r1 THEN h1 ELSE h2]
SharedHost == [r \in Runner |-> h1]

Symmetry == Permutations(Request) \cup Permutations(Session)

=============================================================================
