------------------------------- MODULE Runner -------------------------------
(***************************************************************************)
(* The runner process: its start, the handlers, each on a goroutine of its *)
(* own, with the ShellManager and the validator they call, and run, which  *)
(* shuts the process down.  Handlers interleave where they block or let go *)
(* of the ShellManager's mu.  The inside of a shell is the module Shell:   *)
(* here ExecuteStream holds a shell's mu while its command runs, and Close *)
(* waits for it.                                                           *)
(***************************************************************************)
EXTENDS Integers, FiniteSets

CONSTANTS
    Request,     \* requests to the runner, each handled once; a shell, and its id,
                 \* bears the name of the request that creates it
    NoShell,
    One,         \* the probability 1 is One parts
    Threshold    \* JEV_SAFE_THRESHOLD, in parts of One

ASSUME ShellAssumption == NoShell \notin Request
ASSUME ThresholdAssumption == One \in Nat \ {0} /\ Threshold \in 0..One

VARIABLES
    phase,       \* where start and run are
    sig,         \* the termination signal
    watched,     \* start's goroutine waits for the signal
    cancelled,   \* regCtx is done
    late,        \* the 10 s of the shutdown are over
    closing,     \* the shells that CloseAll has still to close
    firstErr,    \* run will return an error
    shells,      \* the ids in the ShellManager's map
    bash,        \* what became of each shell
    pc,          \* where the handler of a request is
    shell,       \* the shell a handler holds
    attempt,     \* the attempt of the validator
    gone,        \* requests whose client has left: their context is done
    \* history
    told,        \* ids that a client was given
    safe         \* requests whose command Jev found safe

startVars == <<sig, watched, cancelled>>
stopVars == <<late, closing, firstErr>>
handlerVars == <<pc, shell, attempt, gone, safe>>
shellVars == <<shells, bash, told>>
vars == <<phase, startVars, stopVars, handlerVars, shellVars>>

jevMaxRetries == 2

Alive == phase \notin {"returned", "failed"}
Accepting == phase \in {"serve", "deregister"}
InFlight == {r \in Request : pc[r] \notin {"idle", "ended"}}

TypeOK ==
    /\ phase \in {"listen", "identify", "configure", "register", "serve",
                  "deregister", "drain", "close", "returned", "failed"}
    /\ sig \in {"none", "channel", "taken", "read"}
    /\ watched \in BOOLEAN /\ cancelled \in BOOLEAN
    /\ late \in BOOLEAN /\ closing \subseteq Request /\ firstErr \in BOOLEAN
    /\ shells \subseteq Request /\ told \subseteq Request
    /\ bash \in [Request -> {"none", "up", "exited", "closed", "closed twice"}]
    /\ pc \in [Request -> {"idle", "create", "insert", "close", "validate",
                           "lock", "stream", "ended"}]
    /\ shell \in [Request -> Request \cup {NoShell}]
    /\ attempt \in [Request -> 0..jevMaxRetries]
    /\ gone \subseteq Request /\ safe \subseteq Request

Init ==
    /\ phase = "listen" /\ sig = "none"
    /\ watched = FALSE /\ cancelled = FALSE
    /\ late = FALSE /\ closing = {} /\ firstErr = FALSE
    /\ shells = {} /\ told = {} /\ bash = [s \in Request |-> "none"]
    /\ pc = [r \in Request |-> "idle"]
    /\ shell = [r \in Request |-> NoShell]
    /\ attempt = [r \in Request |-> 0]
    /\ gone = {} /\ safe = {}

-----------------------------------------------------------------------------
(* start *)

\* SIGTERM or SIGINT; of a second one nothing comes.
Signal ==
    /\ Alive
    /\ sig = "none"
    /\ sig' = "channel"
    /\ UNCHANGED <<phase, watched, cancelled, stopVars, handlerVars,
                   shellVars>>

\* One step of start, which ends the process when it fails.
StartStep(from, to) ==
    /\ phase = from
    /\ phase' \in {to, "failed"}
    /\ UNCHANGED <<sig, cancelled, stopVars, handlerVars, shellVars>>

Listen == StartStep("listen", "identify") /\ UNCHANGED watched
Identify == StartStep("identify", "configure") /\ UNCHANGED watched

\* BROKER_URL and the validator's settings; a goroutine begins to watch for the
\* signal.
Configure == StartStep("configure", "register") /\ watched' = TRUE

\* The goroutine takes the signal and cancels regCtx.
WatchSignal ==
    /\ Alive
    /\ watched
    /\ sig = "channel"
    /\ sig' = "taken"
    /\ watched' = FALSE
    /\ cancelled' = TRUE
    /\ UNCHANGED <<phase, stopVars, handlerVars, shellVars>>

\* Mutant of PutBack: the signal is not put back.
PutBackNot ==
    /\ Alive
    /\ sig = "taken"
    /\ sig' = "read"
    /\ UNCHANGED <<phase, watched, cancelled, stopVars, handlerVars,
                   shellVars>>

\* sig <- s, for run or for nobody.
PutBack ==
    /\ Alive
    /\ sig = "taken"
    /\ sig' = "channel"
    /\ UNCHANGED <<phase, watched, cancelled, stopVars, handlerVars,
                   shellVars>>

\* regCtx is done; the select may take this branch though there is a signal.
WatchEnds ==
    /\ Alive
    /\ watched /\ cancelled
    /\ watched' = FALSE
    /\ UNCHANGED <<phase, sig, cancelled, stopVars, handlerVars,
                   shellVars>>

\* The broker answers 201: regCancel, and run begins.  Attempts that fail are repeated
\* and leave everything as it is; what they do at the broker is in the module Broker.
RegisterOk ==
    /\ phase = "register"
    /\ cancelled' = TRUE
    /\ phase' = "serve"
    /\ UNCHANGED <<sig, watched, stopVars, handlerVars, shellVars>>

\* <-ctx.Done() between two attempts.
RegisterCancelled ==
    /\ phase = "register"
    /\ cancelled
    /\ phase' = "failed"
    /\ UNCHANGED <<startVars, stopVars, handlerVars, shellVars>>

-----------------------------------------------------------------------------
(* run *)

\* srv.Serve fails: run returns at once, and deregisters and closes nothing.
ServeFails ==
    /\ phase = "serve"
    /\ phase' = "failed"
    /\ UNCHANGED <<startVars, stopVars, handlerVars, shellVars>>

ReadSignal ==
    /\ phase = "serve"
    /\ sig = "channel"
    /\ sig' = "read"
    /\ phase' = "deregister"
    /\ UNCHANGED <<watched, cancelled, stopVars, handlerVars, shellVars>>

\* The time limit that deregister and Shutdown share.
TimeUp ==
    /\ phase \in {"deregister", "drain"}
    /\ ~late
    /\ late' = TRUE
    /\ UNCHANGED <<phase, startVars, closing, firstErr, handlerVars, shellVars>>

\* deregister returns, with an error or without; srv.Shutdown closes the listener.
Deregister ==
    /\ phase = "deregister"
    /\ phase' = "drain"
    /\ UNCHANGED <<startVars, stopVars, handlerVars, shellVars>>

\* Mutant of Shutdown: run closes the server without waiting for its handlers.
ShutdownAtOnce ==
    /\ phase = "drain"
    /\ phase' = "close"
    /\ closing' = shells
    /\ shells' = {}
    /\ UNCHANGED <<startVars, late, firstErr, handlerVars, bash, told>>

\* Shutdown ends with the last handler or with the time, and CloseAll takes the
\* map away.
Shutdown ==
    /\ phase = "drain"
    /\ InFlight = {} \/ late
    /\ firstErr' = (InFlight # {})
    /\ phase' = "close"
    /\ closing' = shells
    /\ shells' = {}
    /\ UNCHANGED <<startVars, late, handlerVars, bash, told>>

\* ExecuteStream holds the shell's mu.
Locked(s) == \E r \in Request : pc[r] = "stream" /\ shell[r] = s

\* Shell.Close: it has mu, tells bash to exit and waits for it; that is an error
\* when bash has exited before.
Close(s) ==
    /\ ~Locked(s)
    /\ bash' = [bash EXCEPT ![s] =
          IF @ \in {"up", "exited"} THEN "closed" ELSE "closed twice"]

\* Mutant of CloseNext: CloseAll returns with the first error.
CloseNextOrStop(s) ==
    /\ phase = "close"
    /\ s \in closing
    /\ Close(s)
    /\ closing' = IF bash[s] = "up" THEN closing \ {s} ELSE {}
    /\ firstErr' = (firstErr \/ bash[s] # "up")
    /\ UNCHANGED <<phase, startVars, late, handlerVars, shells, told>>


\* CloseAll goes on after an error, of which it returns the first.
CloseNext(s) ==
    /\ phase = "close"
    /\ s \in closing
    /\ Close(s)
    /\ closing' = closing \ {s}
    /\ firstErr' = (firstErr \/ bash[s] # "up")
    /\ UNCHANGED <<phase, startVars, late, handlerVars, shells, told>>

Return ==
    /\ phase = "close"
    /\ closing = {}
    /\ phase' = "returned"
    /\ UNCHANGED <<startVars, stopVars, handlerVars, shellVars>>

-----------------------------------------------------------------------------
(* The handlers *)

\* The server hands a request to its handler.
Serve(r) == Accepting /\ pc[r] = "idle"

\* A step of a handler to the point "to"; the process must not have ended.
Goes(r, to) == Alive /\ pc' = [pc EXCEPT ![r] = to]

\* The client of a request leaves: net/http cancels its context.
Leave(r) ==
    /\ Alive
    /\ r \in InFlight \ gone
    /\ gone' = gone \cup {r}
    /\ UNCHANGED <<phase, startVars, stopVars, pc, shell, attempt, safe, shellVars>>

\* 400 and 404: no shell_id cookie, an id that is not in the map, a bad body, a bad
\* client address.
Refuse(r) ==
    /\ Serve(r)
    /\ Goes(r, "ended")
    /\ UNCHANGED <<phase, startVars, stopVars, shell, attempt, gone, safe, shellVars>>

Create(r) ==
    /\ Serve(r)
    /\ Goes(r, "create")
    /\ UNCHANGED <<phase, startVars, stopVars, shell, attempt, gone, safe, shellVars>>

\* genID and newShell.  128 random bits do not repeat, so that the branch for a
\* duplicate id is not taken.
NewShell(r) ==
    /\ pc[r] = "create"
    /\ bash' = [bash EXCEPT ![r] = "up"]
    /\ shell' = [shell EXCEPT ![r] = r]
    /\ Goes(r, "insert")
    /\ UNCHANGED <<phase, startVars, stopVars, attempt, gone, safe, shells, told>>

NewShellFails(r) ==
    /\ pc[r] = "create"
    /\ Goes(r, "ended")
    /\ UNCHANGED <<phase, startVars, stopVars, shell, attempt, gone, safe, shellVars>>

\* The shell enters the map and the client is given its id, if it is still there.
Insert(r) ==
    /\ pc[r] = "insert"
    /\ shells' = shells \cup {shell[r]}
    /\ told' = IF r \in gone THEN told ELSE told \cup {shell[r]}
    /\ Goes(r, "ended")
    /\ UNCHANGED <<phase, startVars, stopVars, shell, attempt, gone, safe, bash>>

\* Mutant of Delete: the shell is looked up and stays in the map.
DeleteKeeps(r) ==
    /\ Serve(r)
    /\ \E s \in shells \cap told : shell' = [shell EXCEPT ![r] = s]
    /\ Goes(r, "close")
    /\ UNCHANGED <<phase, startVars, stopVars, attempt, gone, safe, shellVars>>

\* ShellManager.Delete takes the shell out of the map; Close follows without mu.
Delete(r) ==
    /\ Serve(r)
    /\ \E s \in shells \cap told :
          /\ shells' = shells \ {s}
          /\ shell' = [shell EXCEPT ![r] = s]
    /\ Goes(r, "close")
    /\ UNCHANGED <<phase, startVars, stopVars, attempt, gone, safe, bash, told>>

CloseDeleted(r) ==
    /\ pc[r] = "close"
    /\ Close(shell[r])
    /\ Goes(r, "ended")
    /\ UNCHANGED <<phase, startVars, stopVars, shell, attempt, gone, safe, shells,
                   told>>

\* ShellManager.Get, which returns before the validator is asked.
Execute(r) ==
    /\ Serve(r)
    /\ \E s \in shells \cap told : shell' = [shell EXCEPT ![r] = s]
    /\ Goes(r, "validate")
    /\ UNCHANGED <<phase, startVars, stopVars, attempt, gone, safe, shellVars>>

\* What a 200 of Jev can carry: a probability, a number outside [0,1], or no noul.
NoNoul == -2
Noul == -1..One + 1 \cup {NoNoul}

\* Mutant of Accepts: the range of the probability is not looked at.
AcceptsAny(noul) == noul # NoNoul /\ noul >= Threshold

\* verdict
Accepts(noul) == noul \in 0..One /\ noul >= Threshold

\* Jev answers 200 and the command is found safe.
Accept(r) ==
    /\ pc[r] = "validate"
    /\ r \notin gone
    /\ \E noul \in Noul :
          /\ Accepts(noul)
          /\ safe' = IF noul \in Threshold..One THEN safe \cup {r} ELSE safe
    /\ Goes(r, "lock")
    /\ UNCHANGED <<phase, startVars, stopVars, shell, attempt, gone, shellVars>>

\* Any other answer: 403 or 503.  With the context done every attempt fails like a
\* connection, so that all of them are made.
Reject(r) ==
    /\ pc[r] = "validate"
    /\ r \in gone => attempt[r] = jevMaxRetries
    /\ Goes(r, "ended")
    /\ UNCHANGED <<phase, startVars, stopVars, shell, attempt, gone, safe, shellVars>>


\* Mutant of Retry: one attempt too many.
RetryMore(r) ==
    /\ pc[r] = "validate"
    /\ Alive
    /\ attempt[r] <= jevMaxRetries
    /\ attempt' = [attempt EXCEPT ![r] = @ + 1]
    /\ UNCHANGED <<phase, startVars, stopVars, pc, shell, gone, safe, shellVars>>

\* No connection, no body, 429 or 529: the validator sleeps and tries again,
\* whether the client is still there or not.
Retry(r) ==
    /\ pc[r] = "validate"
    /\ Alive
    /\ attempt[r] < jevMaxRetries
    /\ attempt' = [attempt EXCEPT ![r] = @ + 1]
    /\ UNCHANGED <<phase, startVars, stopVars, pc, shell, gone, safe, shellVars>>

\* ExecuteStream gets mu and writes the command.
Begin(r) ==
    /\ pc[r] = "lock"
    /\ ~Locked(shell[r])
    /\ bash[shell[r]] = "up" /\ r \notin gone
    /\ Goes(r, "stream")
    /\ UNCHANGED <<phase, startVars, stopVars, shell, attempt, gone, safe, shellVars>>

\* ExecuteStream gets mu and finds the shell broken or closed, or the client gone.
BeginFails(r) ==
    /\ pc[r] = "lock"
    /\ ~Locked(shell[r])
    /\ bash[shell[r]] # "up" \/ r \in gone
    /\ Goes(r, "ended")
    /\ UNCHANGED <<phase, startVars, stopVars, shell, attempt, gone, safe, shellVars>>

\* The command ends, or bash with it, and the answer is complete.
CommandEnds(r) ==
    /\ pc[r] = "stream"
    /\ bash' \in {bash, [bash EXCEPT ![shell[r]] = "exited"]}
    /\ Goes(r, "ended")
    /\ UNCHANGED <<phase, startVars, stopVars, shell, attempt, gone, safe, shells,
                   told>>

-----------------------------------------------------------------------------
Starting ==
    Listen \/ Identify \/ Configure \/ WatchSignal \/ PutBack \/ RegisterCancelled

Stopping ==
    ReadSignal \/ TimeUp \/ Deregister \/ Shutdown \/ Return
    \/ \E s \in Request : CloseNext(s)

Handle(r) ==
    \/ NewShell(r) \/ NewShellFails(r) \/ Insert(r) \/ CloseDeleted(r)
    \/ Accept(r) \/ Reject(r) \/ Retry(r) \/ Begin(r) \/ BeginFails(r)

Next ==
    \/ Signal \/ Starting \/ WatchEnds \/ RegisterOk
    \/ ServeFails \/ Stopping
    \/ \E r \in Request :
          \/ Refuse(r) \/ Create(r) \/ Delete(r) \/ Execute(r)
          \/ Leave(r) \/ Handle(r) \/ CommandEnds(r)

Spec == Init /\ [][Next]_vars

\* Goroutines run, the calls to Jev, the broker and the metadata have time limits,
\* and the timer of the shutdown goes off.  Nothing sees to it that a user's command
\* ends.
FairSpec ==
    Spec /\ WF_vars(Starting) /\ WF_vars(Stopping)
         /\ \A r \in Request : WF_vars(Handle(r))

-----------------------------------------------------------------------------
(* Properties *)

\* No command reaches a shell unless Jev's answer to that request was a
\* probability in [Threshold, 1]: errors, exhausted retries and malformed answers
\* all fail closed (Validate, handleExecute).
OnlySafeRuns == \A r \in Request : pc[r] \in {"lock", "stream"} => r \in safe

\* Close is called once for each shell, whichever deletes and CloseAll race for it:
\* a second Close would wait for a process that was waited for.
ClosedOnce == \A s \in Request : bash[s] # "closed twice"

Unclosed == {s \in Request : bash[s] \in {"up", "exited"}}

\* When run returns nil every shell ever started has been closed: no create that
\* was under way slipped past CloseAll, and no delete was cut off.
CleanReturn == phase = "returned" /\ ~firstErr => Unclosed = {}

\* Whatever fails, CloseAll closes every shell that the map held: when run returns,
\* a shell that is not closed was put into the map afterwards or is in the hands of
\* a handler for which Shutdown did not wait.
NothingLeft ==
    phase = "returned" => \A s \in Unclosed :
        \/ s \in shells
        \/ \E r \in InFlight : shell[r] = s /\ pc[r] \in {"insert", "close"}

\* A signal is never lost, at whatever moment of the start or of the registration
\* it comes, though start's goroutine takes it out of the channel.
SignalHeeded == sig # "none" ~> phase \notin
    {"listen", "identify", "configure", "register", "serve"}

\* Every request is answered, unless the process ends first or a command runs for ever
\* in the very shell that the request uses: retries are bounded, also for a client
\* that has left, and nobody waits for mu but behind a command.
RequestsEnd ==
    \A r \in Request : r \in InFlight ~>
        r \notin InFlight \/ ~Alive \/ [](Locked(shell[r]))


=============================================================================
