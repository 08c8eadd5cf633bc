---------------------------- MODULE ShellPromise ----------------------------
(***************************************************************************)
(* What a shell promises of the commands it is given, whatever its pipes,  *)
(* markers and goroutines do on the way: they run one at a time, each once *)
(* at most, and none begins after its call was answered.  A call that      *)
(* succeeds is answered once its command is over, with what that command   *)
(* wrote and its exit code; one that is cut short has been sent the first  *)
(* of its lines.  Every other call fails, and nothing is promised of it.   *)
(* A command may spoil the shell: from then on a success promises the      *)
(* lines alone.                                                            *)
(***************************************************************************)
EXTENDS Naturals, Sequences

CONSTANTS Call, NoCall, Line

VARIABLES
    running,   \* the call whose command runs, or NoCall
    over,      \* calls whose command has been run
    wrote,     \* what the command of each call has written
    spoiled,   \* a command has changed what the others inherit
    answer     \* what each call was answered

vars == <<running, over, wrote, spoiled, answer>>

Unanswered == [result |-> "none", lines |-> <<>>, stderr |-> <<>>, code |-> NoCall]
Failure == [result |-> "failed", lines |-> <<>>, stderr |-> <<>>, code |-> NoCall]
CutShort(lines) == [result |-> "dropped", lines |-> lines, stderr |-> <<>>,
                    code |-> NoCall]
Success(lines, stderr, code) == [result |-> "ok", lines |-> lines, stderr |-> stderr,
                                 code |-> code]

Init ==
    /\ running = NoCall
    /\ over = {}
    /\ wrote = [c \in Call |-> [out |-> <<>>, err |-> <<>>]]
    /\ spoiled = FALSE
    /\ answer = [c \in Call |-> Unanswered]

Begin(c) ==
    /\ running = NoCall
    /\ c \notin over
    /\ answer[c] = Unanswered
    /\ running' = c
    /\ UNCHANGED <<over, wrote, spoiled, answer>>

Write(c, line) ==
    /\ running = c
    /\ \/ wrote' = [wrote EXCEPT ![c].out = Append(@, line)]
       \/ wrote' = [wrote EXCEPT ![c].err = Append(@, line)]
    /\ UNCHANGED <<running, over, spoiled, answer>>

Spoil ==
    /\ running # NoCall
    /\ spoiled' = TRUE
    /\ UNCHANGED <<running, over, wrote, answer>>

\* The command ends, perhaps with a last line.
End(c) ==
    /\ running = c
    /\ running' = NoCall
    /\ over' = over \cup {c}
    /\ \/ UNCHANGED wrote
       \/ \E line \in Line : wrote' = [wrote EXCEPT ![c].out = Append(@, line)]
    /\ UNCHANGED <<spoiled, answer>>

\* Nobody is answered twice.
Reply(c, reply) ==
    /\ answer[c] = Unanswered
    /\ answer' = [answer EXCEPT ![c] = reply]
    /\ UNCHANGED <<running, over, wrote, spoiled>>

Succeed(c) ==
    /\ c \in over
    /\ Reply(c, Success(wrote[c].out, answer'[c].stderr, answer'[c].code))
    /\ ~spoiled => answer'[c].stderr = wrote[c].err /\ answer'[c].code = c

StopShort(c) ==
    /\ c \in over
    /\ \E n \in 0..Len(wrote[c].out) : Reply(c, CutShort(SubSeq(wrote[c].out, 1, n)))

Fail(c) == Reply(c, Failure)

Next ==
    \/ \E c \in Call : Begin(c) \/ End(c) \/ Succeed(c) \/ StopShort(c) \/ Fail(c)
    \/ \E c \in Call, line \in Line : Write(c, line)
    \/ Spoil

Spec == Init /\ [][Next]_vars

=============================================================================
