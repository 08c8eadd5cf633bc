----------------------------- MODULE RunnerPool -----------------------------
(***************************************************************************)
(* What a stack's broker promises of its pool, whatever its requests,      *)
(* indexes and runners do on the way: a runner joins idle, is leased from  *)
(* idle to one session, and can only leave; it is never handed from one    *)
(* session to another nor taken back to idle.  A session that a client has *)
(* been given is settled: no runner is leased to it any more.              *)
(***************************************************************************)
CONSTANTS Runner, Session, NoSession

VARIABLES
    pool,      \* runner id -> its state and the session it is leased to
    settled    \* sessions given to a client

vars == <<pool, settled>>

Out == [state |-> "absent", sid |-> NoSession]
Free == [state |-> "idle", sid |-> NoSession]
LeasedTo(s) == [state |-> "busy", sid |-> s]

Init == pool = [r \in Runner |-> Out] /\ settled = {}

Join(r) ==
    /\ pool[r] = Out
    /\ pool' = [pool EXCEPT ![r] = Free]
    /\ UNCHANGED settled

Lease(r, s) ==
    /\ pool[r] = Free
    /\ s \notin settled
    /\ pool' = [pool EXCEPT ![r] = LeasedTo(s)]
    /\ UNCHANGED settled

Leave(r) ==
    /\ pool' = [pool EXCEPT ![r] = Out]
    /\ UNCHANGED settled

Settle(s) == settled' = settled \cup {s} /\ UNCHANGED pool

Next ==
    \/ \E r \in Runner : Join(r) \/ Leave(r)
    \/ \E r \in Runner, s \in Session : Lease(r, s)
    \/ \E s \in Session : Settle(s)

Spec == Init /\ [][Next]_vars

=============================================================================
