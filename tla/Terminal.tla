------------------------------ MODULE Terminal ------------------------------
(***************************************************************************)
(* The terminal of the front: the loop of connect, which creates a shell   *)
(* and tries again with growing delays, and run, which executes a command  *)
(* and recreates the shell of a session that was reassigned.  Both wait    *)
(* for answers while the other may start; busy is what keeps them apart.   *)
(* nginx, broker and runner are reduced to what they may answer: the       *)
(* modules Routing, Broker and Runner have the rest.                       *)
(***************************************************************************)
EXTENDS Naturals

CONSTANTS
    Loop,    \* calls of beginReconnect that may be under way at once
    Run      \* the call of run, of which busy allows one

ASSUME RunAssumption == Run \notin Loop

VARIABLES
    busy,      \* busy: the input is disabled
    loop,      \* what each loop of connect does
    delay,     \* its delay, in seconds
    run,       \* where run is
    call,      \* the request, then the answer, that each of them waits for
    session,   \* the record of the session in the cookie jar
    shell,     \* the shell of the jar exists on the runner of that session
    \* history
    hurt,      \* the shell was taken away from outside
    signalled  \* the signal came, and no shell has been given since

server == <<session, shell, hurt>>
vars == <<busy, loop, delay, run, call, server, signalled>>

INITIAL_DELAY == 1
MAX_DELAY == 8

Actor == Loop \cup {Run}

Status == {"ok", "reassigned", "gone", "error"}

\* cookie "new": the answer carries a cookie for a session just created.
Call(what) == [what |-> what, cookie |-> "keep"]
None == Call("none")

TypeOK ==
    /\ busy \in BOOLEAN
    /\ loop \in [Loop -> {"off", "waiting", "calling"}]
    /\ delay \in [Loop -> {1, 2, 4, 8}]
    /\ run \in {"idle", "calling", "streaming", "recreating"}
    /\ call \in [Actor -> [what : {"none", "create", "execute"} \cup Status,
                         cookie : {"keep", "new"}]]
    /\ session \in {"none", "live", "stale"}
    /\ shell \in BOOLEAN /\ hurt \in BOOLEAN
    /\ signalled \in BOOLEAN

Answered(a) == call[a].what \in Status

\* The page is loaded, with the cookies of an earlier visit or without.
Init ==
    /\ busy = TRUE /\ run = "idle"
    /\ \E l \in Loop :
          /\ loop = [m \in Loop |-> IF m = l THEN "calling" ELSE "off"]
          /\ call = [a \in Actor |-> IF a = l THEN Call("create") ELSE None]
    /\ delay = [l \in Loop |-> INITIAL_DELAY]
    /\ session \in {"none", "live", "stale"}
    /\ shell = FALSE /\ hurt = FALSE /\ signalled = FALSE

-----------------------------------------------------------------------------
(* The other side *)

\* The runner of the session dies ("stale"), or leaves and is deregistered.
RunnerGone ==
    /\ session = "live"
    /\ session' \in {"none", "stale"}
    /\ shell' = FALSE
    /\ hurt' = TRUE
    /\ UNCHANGED <<busy, loop, delay, run, call, signalled>>

Gives(a, what, cookie) ==
    /\ call' = [call EXCEPT ![a] = [what |-> what, cookie |-> cookie]]
    /\ UNCHANGED <<busy, loop, delay, run, shell, hurt, signalled>>

\* Resolving a stale session evicts its record, unless its own stack does not answer.
Resolve ==
    session' \in IF session = "stale" THEN {"stale", "none"} ELSE {session}

CreateOk(a) ==
    /\ call[a].what = "create"
    /\ Gives(a, "ok", IF session = "live" THEN "keep" ELSE "new")
    /\ Resolve

\* No idle runner, no answer in time, or a runner without a shell to give.
CreateFails(a) ==
    /\ call[a].what = "create"
    /\ \E cookie \in {"keep", "new"} :
          /\ cookie = "new" => session # "live"
          /\ Gives(a, "error", cookie)
    /\ Resolve

ExecuteOk(a) ==
    /\ call[a].what = "execute"
    /\ session = "live" /\ shell
    /\ Gives(a, "ok", "keep")
    /\ Resolve

\* The command is refused, no runner is idle, or no answer comes in time: nothing
\* tells of a session that was evicted on the way.
ExecuteFails(a) ==
    /\ call[a].what = "execute"
    /\ Gives(a, "error", "keep")
    /\ Resolve

\* 400 or 404 of a runner without the shell; a session whose record is gone is
\* replaced without a signal.
ExecuteGone(a) ==
    /\ call[a].what = "execute"
    /\ ~shell /\ session # "stale"
    /\ Gives(a, "gone", IF session = "live" THEN "keep" ELSE "new")
    /\ Resolve

\* X-Session-Reassigned, from a runner of the new session or from a stack that
\* has none idle either.
ExecuteReassigned(a) ==
    /\ call[a].what = "execute"
    /\ session = "stale"
    /\ \E cookie \in {"keep", "new"} : Gives(a, "reassigned", cookie)
    /\ Resolve

Serve(a) ==
    CreateOk(a) \/ CreateFails(a) \/ ExecuteOk(a) \/ ExecuteFails(a)
    \/ ExecuteGone(a) \/ ExecuteReassigned(a)

-----------------------------------------------------------------------------
(* The page *)

\* The answer's cookies enter the jar.  A runner that goes between the answer and
\* its arrival leaves a jar that names nothing.
Take(a, creates) ==
    /\ session' = IF call[a].cookie = "new" THEN "live" ELSE session
    /\ IF creates /\ call[a].what = "ok"
          THEN shell' = (session' = "live")
          ELSE shell' = (shell /\ call[a].cookie = "keep")
    /\ hurt' = (hurt /\ ~(creates /\ shell'))

Connected(l) ==
    /\ loop[l] = "calling" /\ Answered(l)
    /\ call[l].what = "ok"
    /\ Take(l, TRUE)
    /\ loop' = [loop EXCEPT ![l] = "off"]
    /\ call' = [call EXCEPT ![l] = None]
    /\ busy' = FALSE
    /\ signalled' = FALSE
    /\ UNCHANGED <<delay, run>>

\* Mutant of ConnectFails: the loop is not continued.
ConnectFailsForGood(l) ==
    /\ loop[l] = "calling" /\ Answered(l)
    /\ call[l].what # "ok"
    /\ Take(l, TRUE)
    /\ loop' = [loop EXCEPT ![l] = "off"]
    /\ call' = [call EXCEPT ![l] = None]
    /\ UNCHANGED <<busy, delay, run, signalled>>

\* Mutant of ConnectFails: the input is enabled while the loop waits.
ConnectFailsIdle(l) ==
    /\ loop[l] = "calling" /\ Answered(l)
    /\ call[l].what # "ok"
    /\ Take(l, TRUE)
    /\ loop' = [loop EXCEPT ![l] = "waiting"]
    /\ call' = [call EXCEPT ![l] = None]
    /\ busy' = FALSE
    /\ UNCHANGED <<delay, run, signalled>>

ConnectFails(l) ==
    /\ loop[l] = "calling" /\ Answered(l)
    /\ call[l].what # "ok"
    /\ Take(l, TRUE)
    /\ loop' = [loop EXCEPT ![l] = "waiting"]
    /\ call' = [call EXCEPT ![l] = None]
    /\ UNCHANGED <<busy, delay, run, signalled>>

\* Mutant of Retry: the delay is not bounded.
RetryLater(l) ==
    /\ loop[l] = "waiting"
    /\ loop' = [loop EXCEPT ![l] = "calling"]
    /\ delay' = [delay EXCEPT ![l] = 2 * @]
    /\ call' = [call EXCEPT ![l] = Call("create")]
    /\ UNCHANGED <<busy, run, server, signalled>>

\* setTimeout fires.
Retry(l) ==
    /\ loop[l] = "waiting"
    /\ loop' = [loop EXCEPT ![l] = "calling"]
    /\ delay' = [delay EXCEPT ![l] = IF 2 * @ > MAX_DELAY THEN MAX_DELAY ELSE 2 * @]
    /\ call' = [call EXCEPT ![l] = Call("create")]
    /\ UNCHANGED <<busy, run, server, signalled>>

\* The user, or a preset button, gives a command.
Submit ==
    /\ ~busy
    /\ busy' = TRUE
    /\ run' = "calling"
    /\ call' = [call EXCEPT ![Run] = Call("execute")]
    /\ UNCHANGED <<loop, delay, server, signalled>>

Streams ==
    /\ run = "calling" /\ Answered(Run)
    /\ call[Run].what = "ok"
    /\ Take(Run, FALSE)
    /\ run' = "streaming"
    /\ call' = [call EXCEPT ![Run] = None]
    /\ UNCHANGED <<busy, loop, delay, signalled>>

\* The events end, with the command or with the connection.
StreamEnds ==
    /\ run = "streaming"
    /\ run' = "idle"
    /\ busy' = FALSE
    /\ UNCHANGED <<loop, delay, call, server, signalled>>

\* Every failure but the signal gives the input back.
RunFails ==
    /\ run = "calling" /\ Answered(Run)
    /\ call[Run].what \in {"gone", "error"}
    /\ Take(Run, FALSE)
    /\ run' = "idle"
    /\ call' = [call EXCEPT ![Run] = None]
    /\ busy' = FALSE
    /\ UNCHANGED <<loop, delay, signalled>>

\* SessionReassignedError: the shell is created anew.
RunReassigned ==
    /\ run = "calling" /\ Answered(Run)
    /\ call[Run].what = "reassigned"
    /\ Take(Run, FALSE)
    /\ signalled' = TRUE
    /\ run' = "recreating"
    /\ call' = [call EXCEPT ![Run] = Call("create")]
    /\ UNCHANGED <<busy, loop, delay>>

Recreated ==
    /\ run = "recreating" /\ Answered(Run)
    /\ call[Run].what = "ok"
    /\ Take(Run, TRUE)
    /\ signalled' = FALSE
    /\ run' = "idle"
    /\ call' = [call EXCEPT ![Run] = None]
    /\ busy' = FALSE
    /\ UNCHANGED <<loop, delay>>

\* Mutant of RecreateFails: shellLost is not set.
RecreateFailsIdle ==
    /\ run = "recreating" /\ Answered(Run)
    /\ call[Run].what # "ok"
    /\ Take(Run, TRUE)
    /\ run' = "idle"
    /\ call' = [call EXCEPT ![Run] = None]
    /\ busy' = FALSE
    /\ UNCHANGED <<loop, delay, signalled>>

\* shellLost: beginReconnect, and the input stays disabled.
RecreateFails ==
    /\ run = "recreating" /\ Answered(Run)
    /\ call[Run].what # "ok"
    /\ Take(Run, TRUE)
    /\ run' = "idle"
    /\ \E l \in Loop :
          /\ loop[l] = "off"
          /\ loop' = [loop EXCEPT ![l] = "calling"]
          /\ delay' = [delay EXCEPT ![l] = INITIAL_DELAY]
          /\ call' = [call EXCEPT ![l] = Call("create"), ![Run] = None]
    /\ UNCHANGED <<busy, signalled>>

-----------------------------------------------------------------------------
Page ==
    \/ \E l \in Loop : Connected(l) \/ ConnectFails(l) \/ Retry(l)
    \/ Streams \/ RunFails \/ RunReassigned \/ Recreated \/ RecreateFails

Next ==
    \/ RunnerGone \/ \E a \in Actor : Serve(a)
    \/ Page \/ Submit \/ StreamEnds

Spec == Init /\ [][Next]_vars

\* The page's callbacks run, every request is answered or fails in the end (the
\* proxies have time limits), commands end, and a create that is repeated for
\* ever succeeds some day.
FairSpec ==
    Spec /\ WF_vars(Page) /\ WF_vars(StreamEnds)
         /\ \A a \in Actor : WF_vars(Serve(a)) /\ SF_vars(CreateOk(a))

-----------------------------------------------------------------------------
(* Properties *)

Under == {l \in Loop : loop[l] # "off"}

\* Whatever order answers and timers come in, shells are created by one at a time:
\* there is one loop of connect at most, and none while run waits; and the input
\* is enabled only while neither is under way (busy).
OneActivity ==
    /\ \A l, m \in Under : l = m
    /\ Under # {} => run = "idle"
    /\ ~busy => Under = {} /\ run = "idle"

\* The front never comes to lack a shell by itself: when the input is enabled and
\* there is no shell, the shell had been there and was taken away from outside.
OnlyTakenAway == ~busy /\ ~shell => hurt

\* After the signal that its session was reassigned the front takes no command
\* until it has been given a shell again, whatever fails in between.
SignalIsMinded == signalled => busy

\* The terminal becomes usable again, after any failures (FairSpec).
Usable == busy ~> ~busy

=============================================================================
