------------------------------- MODULE Shell --------------------------------
(***************************************************************************)
(* bashShell: one bash process that runs the commands of several           *)
(* ExecuteStream calls, one at a time.  A call writes its command and a    *)
(* marker to bash's stdin, reads lines from bash's stdout until the marker *)
(* and waits until readStderr, a goroutine of its own, has met the marker  *)
(* on stderr.  Calls can be cancelled, bash can exit, a line can be too    *)
(* long for the scanner, and a command can change what its successors      *)
(* inherit: where stdout and stderr go, and what is left to read on stdin. *)
(***************************************************************************)
EXTENDS Naturals, Sequences, SequencesExt

CONSTANTS
    Call,        \* calls of ExecuteStream; one names its marker too
    NoCall,
    Closer,      \* the call of Close, and the "exit" it writes
    MaxLines,    \* bound on the stdout lines of all commands
    MaxTricks    \* bound on the tricks that all commands play on the script

ASSUME CallAssumption == NoCall \notin Call /\ Closer \notin Call \cup {NoCall}
ASSUME BoundAssumption == MaxLines \in Nat /\ MaxTricks \in Nat

VARIABLES
    call,      \* what each call of ExecuteStream is doing
    mu,        \* who holds the shell's mu
    broken,    \* the shell is given up
    buf,       \* stderrBuf
    marker,    \* stderrMarker: the call it belongs to, or NoCall
    found,     \* calls whose stderrDone is closed
    stdin, out, err,   \* the pipes of bash
    bash,      \* the bash process
    printed,   \* what the command of each call has written to bash's pipes
    closing    \* the call of Close: "no", "wait" or "done"

goVars == <<call, mu, broken, buf, marker, found, closing>>
bashVars == <<stdin, out, err, bash, printed>>
vars == <<goVars, bashVars>>

\* A line on a pipe: text, an empty line, or a call's marker, which carries an
\* exit code on stdout: that of the call "code", or the empty string.
Line == [of : Call, is : {"text", "blank", "marker"}, code : Call \cup {NoCall}]
TextOf(c, is) == [of |-> c, is |-> is, code |-> NoCall]
MarkerOf(c, code) == [of |-> c, is |-> "marker", code |-> code]

Pc == {"idle", "lock", "mark", "write", "scan", "await", "ended"}
Holding == {"mark", "write", "scan", "await"}
Result == {"none", "ok", "broken", "cancelled", "dropped", "parse", "write",
           "overlong", "eof"}

TypeOK ==
    /\ call \in [Call ->
          [pc : Pc, cancelled : BOOLEAN, pending : BOOLEAN, sendErr : BOOLEAN,
           lines : Seq(Line), code : Call \cup {NoCall}, stderr : Seq(Line),
           result : Result]]
    /\ mu \in Call \cup {NoCall, Closer}
    /\ \A c \in Call : mu = c <=> call[c].pc \in Holding
    /\ mu = Closer <=> closing = "wait"
    /\ broken \in BOOLEAN
    /\ buf \in Seq(Line)
    /\ marker \in Call \cup {NoCall}
    /\ found \subseteq Call
    /\ stdin \in Seq(Call \cup {Closer})
    /\ out \in Seq(Line) /\ err \in Seq(Line)
    /\ bash \in [up : BOOLEAN, at : Call \cup {NoCall}, ec : Call \cup {NoCall},
                 ate : BOOLEAN, stdout : {"pipe", "nowhere"},
                 stderr : {"pipe", "traced", "stdout", "nowhere"},
                 held : BOOLEAN, tricks : 0..MaxTricks]
    /\ printed \in [Call -> [out : Seq(Line), err : Seq(Line), over : BOOLEAN]]
    /\ closing \in {"no", "wait", "done"}

Init ==
    /\ call = [c \in Call |->
          [pc |-> "idle", cancelled |-> FALSE, pending |-> FALSE,
           sendErr |-> FALSE, lines |-> <<>>, code |-> NoCall, stderr |-> <<>>,
           result |-> "none"]]
    /\ mu = NoCall /\ broken = FALSE
    /\ buf = <<>> /\ marker = NoCall /\ found = {}
    /\ stdin = <<>> /\ out = <<>> /\ err = <<>>
    /\ bash = [up |-> TRUE, at |-> NoCall, ec |-> NoCall, ate |-> FALSE,
               stdout |-> "pipe", stderr |-> "pipe", held |-> FALSE,
               tricks |-> 0]
    /\ printed = [c \in Call |-> [out |-> <<>>, err |-> <<>>, over |-> FALSE]]
    /\ closing = "no"

-----------------------------------------------------------------------------
(* ExecuteStream: up to the write *)

\* handleExecute calls ExecuteStream.
Execute(c) ==
    /\ call[c].pc = "idle"
    /\ call' = [call EXCEPT ![c].pc = "lock"]
    /\ UNCHANGED <<mu, broken, buf, marker, found, closing, bashVars>>

\* The request's context is done: the client has gone.  Only the check before the
\* write and the sends of the scan look at it, so that it need not come earlier.
Cancel(c) ==
    /\ call[c].pc \in {"write", "scan"}
    /\ ~call[c].cancelled
    /\ call' = [call EXCEPT ![c].cancelled = TRUE]
    /\ UNCHANGED <<mu, broken, buf, marker, found, closing, bashVars>>

\* The call returns and mu is unlocked.
Return(c, result) ==
    /\ call' = [call EXCEPT ![c].pc = "ended", ![c].result = result]
    /\ mu' = NoCall

Refuse(c) ==
    /\ call[c].pc = "lock"
    /\ mu = NoCall
    /\ broken
    /\ Return(c, "broken")
    /\ UNCHANGED <<broken, buf, marker, found, closing, bashVars>>

\* resetStderr
Lock(c) ==
    /\ call[c].pc = "lock"
    /\ mu = NoCall
    /\ ~broken
    /\ mu' = c
    /\ buf' = <<>>
    /\ call' = [call EXCEPT ![c].pc = "mark"]
    /\ UNCHANGED <<broken, marker, found, closing, bashVars>>

Mark(c) ==
    /\ call[c].pc = "mark"
    /\ marker' = c
    /\ call' = [call EXCEPT ![c].pc = "write"]
    /\ UNCHANGED <<mu, broken, buf, found, closing, bashVars>>

\* Mutant of GiveUp: mu stays locked on the early return.
GiveUpLocked(c) ==
    /\ call[c].pc = "write"
    /\ call[c].cancelled
    /\ call' = [call EXCEPT ![c].pc = "ended", ![c].result = "cancelled"]
    /\ UNCHANGED <<mu, broken, buf, marker, found, closing, bashVars>>

\* Mutant of GiveUp: the context is looked at after the write.
GiveUpLate(c) ==
    /\ call[c].pc = "write"
    /\ call[c].cancelled
    /\ bash.up
    /\ stdin' = Append(stdin, c)
    /\ Return(c, "cancelled")
    /\ UNCHANGED <<broken, buf, marker, found, closing, out, err, bash, printed>>

\* ctx.Err() before anything is written.
GiveUp(c) ==
    /\ call[c].pc = "write"
    /\ call[c].cancelled
    /\ Return(c, "cancelled")
    /\ UNCHANGED <<broken, buf, marker, found, closing, bashVars>>

Write(c) ==
    /\ call[c].pc = "write"
    /\ ~call[c].cancelled
    /\ bash.up
    /\ stdin' = Append(stdin, c)
    /\ call' = [call EXCEPT ![c].pc = "scan"]
    /\ UNCHANGED <<mu, broken, buf, marker, found, closing, out, err, bash, printed>>

WriteFails(c) ==
    /\ call[c].pc = "write"
    /\ ~call[c].cancelled
    /\ ~bash.up
    /\ broken' = TRUE
    /\ Return(c, "write")
    /\ UNCHANGED <<buf, marker, found, closing, bashVars>>

-----------------------------------------------------------------------------
(* ExecuteStream: the scan of stdout *)

Scanned(c) == call[c].pc = "scan" /\ out # <<>> /\ out' = Tail(out)

IsMarker(line, c) == line.is = "marker" /\ line.of = c

EndMarker(c) ==
    /\ Scanned(c)
    /\ IsMarker(Head(out), c) /\ Head(out).code # NoCall
    /\ call' = [call EXCEPT ![c].pc = "await", ![c].code = Head(out).code]
    /\ UNCHANGED <<mu, broken, buf, marker, found, closing, stdin, err, bash, printed>>

\* strconv.Atoi refuses what follows the marker: the shell is not given up, and
\* what follows on the pipes is left there.
BadMarker(c) ==
    /\ Scanned(c)
    /\ IsMarker(Head(out), c) /\ Head(out).code = NoCall
    /\ Return(c, "parse")
    /\ UNCHANGED <<broken, buf, marker, found, closing, stdin, err, bash, printed>>

\* Mutant of ToSend: an empty line is sent as it comes.
ToSendAll(c) == <<Head(out)>>

\* An empty line is held back until the next line: the one before the marker is
\* the script's.  A marker of another call is a line like any other.
ToSend(c) ==
    (IF call[c].pending THEN <<TextOf(c, "blank")>> ELSE <<>>)
    \o (IF Head(out).is = "blank" THEN <<>> ELSE <<Head(out)>>)

SendLine(c) ==
    /\ Scanned(c)
    /\ ~IsMarker(Head(out), c)
    /\ ~call[c].sendErr
    /\ call' = [call EXCEPT ![c].lines = @ \o ToSend(c),
                            ![c].pending = Head(out).is = "blank"]
    /\ UNCHANGED <<mu, broken, buf, marker, found, closing, stdin, err, bash, printed>>

\* The select may prefer ctx.Done() to the channel, at each line it sends.
SendFails(c) ==
    /\ Scanned(c)
    /\ ~IsMarker(Head(out), c)
    /\ ~call[c].sendErr
    /\ call[c].cancelled
    /\ \E n \in 0..Len(ToSend(c)) - 1 :
          call' = [call EXCEPT ![c].lines = @ \o SubSeq(ToSend(c), 1, n),
                               ![c].sendErr = TRUE]
    /\ broken' = TRUE
    /\ UNCHANGED <<mu, buf, marker, found, closing, stdin, err, bash, printed>>

\* Mutant of Drain: the call returns once a line could not be sent, and the shell
\* passes for synchronized.
DrainNot(c) ==
    /\ call[c].pc = "scan" /\ call[c].sendErr
    /\ broken' = FALSE
    /\ Return(c, "dropped")
    /\ UNCHANGED <<buf, marker, found, closing, bashVars>>

Drain(c) ==
    /\ Scanned(c)
    /\ ~IsMarker(Head(out), c)
    /\ call[c].sendErr
    /\ UNCHANGED <<goVars, stdin, err, bash, printed>>

\* The scanner stops at a line of more than 1 MiB.
ScanFails(c) ==
    /\ call[c].pc = "scan"
    /\ out # <<>> /\ Head(out).is = "text"
    /\ broken' = TRUE
    /\ Return(c, "overlong")
    /\ UNCHANGED <<buf, marker, found, closing, bashVars>>

\* Nobody can write to the pipe of stdout any more: neither bash nor a process
\* or descriptor that a command has left behind.
Unheld ==
    /\ ~bash.held
    /\ bash.up => bash.stdout # "pipe" /\ bash.stderr # "stdout"

Eof(c) ==
    /\ call[c].pc = "scan"
    /\ out = <<>> /\ Unheld
    /\ broken' = TRUE
    /\ Return(c, "eof")
    /\ UNCHANGED <<buf, marker, found, closing, bashVars>>

\* Mutant of Await: a shell that was broken by a cancelled send stays broken.
AwaitKeeps(c) ==
    /\ call[c].pc = "await"
    /\ c \in found
    /\ call' = [call EXCEPT ![c].pc = "ended", ![c].stderr = buf,
                   ![c].result = IF call[c].sendErr THEN "dropped" ELSE "ok"]
    /\ mu' = NoCall
    /\ UNCHANGED <<broken, buf, marker, found, closing, bashVars>>

\* Mutant of Await: the answer does not wait for stderr.
AwaitNot(c) ==
    /\ call[c].pc = "await"
    /\ broken' = (broken /\ ~call[c].sendErr)
    /\ call' = [call EXCEPT ![c].pc = "ended", ![c].stderr = buf,
                   ![c].result = IF call[c].sendErr THEN "dropped" ELSE "ok"]
    /\ mu' = NoCall
    /\ UNCHANGED <<buf, marker, found, closing, bashVars>>

\* <-s.stderrDone
Await(c) ==
    /\ call[c].pc = "await"
    /\ c \in found
    /\ broken' = (broken /\ ~call[c].sendErr)
    /\ call' = [call EXCEPT ![c].pc = "ended", ![c].stderr = buf,
                   ![c].result = IF call[c].sendErr THEN "dropped" ELSE "ok"]
    /\ mu' = NoCall
    /\ UNCHANGED <<buf, marker, found, closing, bashVars>>

-----------------------------------------------------------------------------
(* readStderr and Close *)


\* A line arrives in stderrBuf; checkStderrMarker takes the marker out of it.
ReadStderr ==
    /\ err # <<>>
    /\ err' = Tail(err)
    /\ IF marker # NoCall /\ IsMarker(Head(err), marker)
         THEN /\ found' = found \cup {marker}
              /\ marker' = NoCall
              /\ buf' = buf
         ELSE /\ buf' = Append(buf, Head(err))
              /\ UNCHANGED <<found, marker>>
    /\ UNCHANGED <<call, mu, broken, closing, stdin, out, bash, printed>>

\* Close writes "exit", which fails when bash is gone, and waits for bash.
Close ==
    /\ closing = "no"
    /\ mu = NoCall
    /\ mu' = Closer
    /\ closing' = "wait"
    /\ stdin' = IF bash.up THEN Append(stdin, Closer) ELSE stdin
    /\ UNCHANGED <<call, broken, buf, marker, found, out, err, bash, printed>>

\* cmd.Wait closes the pipes once bash has exited.
Waited ==
    /\ closing = "wait"
    /\ ~bash.up
    /\ mu' = NoCall
    /\ closing' = "done"
    /\ out' = <<>> /\ err' = <<>>
    /\ UNCHANGED <<call, broken, buf, marker, found, stdin, bash, printed>>

-----------------------------------------------------------------------------
(* bash, as far as the script that ExecuteStream writes depends on it *)

\* bash reads the next command, or "exit".
Take ==
    /\ bash.up /\ bash.at = NoCall
    /\ stdin # <<>>
    /\ stdin' = Tail(stdin)
    /\ bash' = IF Head(stdin) = Closer THEN [bash EXCEPT !.up = FALSE]
                                       ELSE [bash EXCEPT !.at = Head(stdin)]
    /\ UNCHANGED <<goVars, out, err, printed>>

Running(c) == bash.up /\ bash.at = c

\* The lines that commands may still print under the bound.
Room == MaxLines - FoldFunction(LAMBDA p, n : Len(p.out) + n, 0, printed)

\* The command prints a line.
Emit(c) ==
    /\ Running(c)
    /\ bash.stdout = "pipe"
    /\ Room > 0
    /\ \E is \in {"text", "blank"} :
          /\ out' = Append(out, TextOf(c, is))
          /\ printed' = [printed EXCEPT ![c].out = Append(@, TextOf(c, is))]
    /\ UNCHANGED <<goVars, stdin, err, bash>>

\* The command prints a line on stderr, one at most.
EmitErr(c) ==
    /\ Running(c)
    /\ bash.stderr \in {"pipe", "traced"}
    /\ printed[c].err = <<>>
    /\ err' = Append(err, TextOf(c, "text"))
    /\ printed' = [printed EXCEPT ![c].err = Append(@, TextOf(c, "text"))]
    /\ UNCHANGED <<goVars, stdin, out, bash>>

\* A command may change what the rest of the script and all that follow it inherit.
Trick(c) == Running(c) /\ bash.tricks < MaxTricks

\* exec >/dev/null, or to anywhere else than its pipe, which may be kept open all
\* the same: exec 3>&1 >/dev/null.
RedirectOut(c) ==
    /\ Trick(c)
    /\ bash.stdout = "pipe"
    /\ \E held \in BOOLEAN :
          bash' = [bash EXCEPT !.stdout = "nowhere", !.held = held, !.tricks = @ + 1]
    /\ UNCHANGED <<goVars, stdin, out, err, printed>>

\* exec 2>&1, exec 2>/dev/null, or set -x, after which bash traces on stderr what
\* it runs.  "stdout" is the pipe of stdout.
RedirectErr(c) ==
    /\ Trick(c)
    /\ bash.stderr = "pipe"
    /\ \E to \in {"traced", "stdout", "nowhere"} :
          /\ to = "stdout" => bash.stdout = "pipe"
          /\ bash' = [bash EXCEPT !.stderr = to, !.tricks = @ + 1]
    /\ UNCHANGED <<goVars, stdin, out, err, printed>>

\* read: the command takes the script's next line, __ec=$?, as its input.
EatLine(c) ==
    /\ Trick(c)
    /\ ~bash.ate
    /\ bash' = [bash EXCEPT !.ate = TRUE, !.tricks = @ + 1]
    /\ UNCHANGED <<goVars, stdin, out, err, printed>>

\* The command makes bash exit, or bash is killed.  A process that the command
\* has left behind may hold the pipe of stdout open: sleep infinity & exit.
Quit(c) ==
    /\ Running(c)
    /\ \E held \in BOOLEAN :
          bash' = [bash EXCEPT !.up = FALSE, !.at = NoCall, !.held = held]
    /\ printed' = [printed EXCEPT ![c].over = TRUE]
    /\ UNCHANGED <<goVars, stdin, out, err>>

\* What was left behind ends.
LetGo ==
    /\ bash.held
    /\ bash' = [bash EXCEPT !.held = FALSE]
    /\ UNCHANGED <<goVars, stdin, out, err, printed>>

\* What the rest of the script prints on the pipe of stdout: an empty line, which
\* ends an unfinished last line of the command, and the marker.  On a stderr that
\* goes there, the other marker comes before them.
Script(c, ec, rest) ==
    CASE bash.stdout = "pipe" /\ bash.stderr = "stdout" ->
            (IF rest = <<>> THEN <<MarkerOf(c, NoCall)>> ELSE rest)
            \o <<TextOf(c, "blank"), MarkerOf(c, ec)>>
      [] bash.stdout = "pipe" /\ bash.stderr # "stdout" ->
            (IF rest = <<>> THEN <<TextOf(c, "blank")>> ELSE rest)
            \o <<MarkerOf(c, ec)>>
      [] bash.stdout # "pipe" /\ bash.stderr = "stdout" -> <<MarkerOf(c, NoCall)>>
      [] OTHER -> <<>>

\* What it prints on the pipe of stderr: the marker.  A trace of the line that
\* prints it has the marker in it too.
ErrScript(c) ==
    CASE bash.stderr = "pipe" -> <<MarkerOf(c, NoCall)>>
      [] bash.stderr = "traced" -> <<MarkerOf(c, NoCall), MarkerOf(c, NoCall)>>
      [] OTHER -> <<>>

\* The command ends, with a last line that may lack its newline, and the rest
\* of the script runs.
Finish(c) ==
    /\ Running(c)
    /\ LET ec == IF bash.ate THEN bash.ec ELSE c
       IN  \E rest \in {<<>>, <<TextOf(c, "text")>>} :
              /\ Len(rest) <= Room
              /\ rest # <<>> => bash.stdout = "pipe"
              /\ out' = out \o Script(c, ec, rest)
              /\ err' = err \o ErrScript(c)
              /\ bash' = [bash EXCEPT !.at = NoCall, !.ec = ec, !.ate = FALSE]
              /\ printed' = [printed EXCEPT ![c].out = @ \o rest, ![c].over = TRUE]
    /\ UNCHANGED <<goVars, stdin>>

-----------------------------------------------------------------------------
Stream(c) ==
    \/ Refuse(c) \/ Lock(c) \/ Mark(c) \/ GiveUp(c) \/ Write(c) \/ WriteFails(c)
    \/ EndMarker(c) \/ BadMarker(c) \/ SendLine(c) \/ SendFails(c) \/ Drain(c)
    \/ ScanFails(c) \/ Eof(c) \/ Await(c)

Command(c) ==
    \/ Emit(c) \/ EmitErr(c) \/ RedirectOut(c) \/ RedirectErr(c) \/ EatLine(c)
    \/ Quit(c) \/ Finish(c)

Next ==
    \/ \E c \in Call : Execute(c) \/ Cancel(c) \/ Stream(c) \/ Command(c)
    \/ ReadStderr \/ Close \/ Waited \/ Take \/ LetGo

Spec == Init /\ [][Next]_vars

\* The goroutines run.  bash may take for ever over a command.
Fairness == (\A c \in Call : WF_vars(Stream(c))) /\ WF_vars(ReadStderr)

FairSpec == Spec /\ Fairness

-----------------------------------------------------------------------------
(* Properties *)

Ended(c, results) == call[c].pc = "ended" /\ call[c].result \in results

\* A call that succeeds has streamed the lines of its own command, every one in
\* order and none besides, whatever cancelled calls came before it and whatever of
\* the commands below they ran; one that is cut short has streamed the first of them.
OwnLines ==
    \A c \in Call :
        /\ Ended(c, {"ok"}) => call[c].lines = printed[c].out
        /\ Ended(c, {"dropped"}) => IsPrefix(call[c].lines, printed[c].out)

\* It returns the stderr and the exit code of its own command too, as long as no
\* command has redirected the shell's output, had it traced or read a line of its
\* script.
OwnAnswer ==
    \A c \in Call : Ended(c, {"ok"}) /\ bash.tricks = 0 =>
        call[c].stderr = printed[c].err /\ call[c].code = c

\* A free shell that is not broken has nothing left on its pipes and in its
\* script: the next call reads from a clean start.
Clean == out = <<>> /\ err = <<>> /\ stdin = <<>> /\ bash.at = NoCall
InSyncUnlessTricked == mu = NoCall /\ ~broken /\ bash.tricks = 0 => Clean

\* A shell is given up for a reason that lasts: a cancelled call, whose marker is
\* read to the end, does not cost the client its shell.
BrokenForGood ==
    mu = NoCall /\ broken =>
        ~bash.up \/ bash.tricks # 0 \/ \E c \in Call : Ended(c, {"overlong"})

\* What a call was answered, as far as the answer promises something.
Answer(c) ==
    IF call[c].pc # "ended"
      THEN [result |-> "none", lines |-> <<>>, stderr |-> <<>>, code |-> NoCall]
      ELSE CASE call[c].result = "ok" ->
                    [result |-> "ok", lines |-> call[c].lines,
                     stderr |-> call[c].stderr, code |-> call[c].code]
             [] call[c].result = "dropped" ->
                    [result |-> "dropped", lines |-> call[c].lines,
                     stderr |-> <<>>, code |-> NoCall]
             [] OTHER ->
                    [result |-> "failed", lines |-> <<>>, stderr |-> <<>>,
                     code |-> NoCall]

Promise == INSTANCE ShellPromise WITH
    running <- bash.at,
    over <- {c \in Call : printed[c].over},
    wrote <- [c \in Call |-> [out |-> printed[c].out, err |-> printed[c].err]],
    spoiled <- bash.tricks # 0,
    answer <- [c \in Call |-> Answer(c)]

\* The shell keeps the promises of ShellPromise: in particular a command begins once
\* at most, never beside another, and never after its call was answered.
PromiseSpec == Promise!Spec


\* broken is set if the session is desynchronized.
InSync == mu = NoCall /\ ~broken => Clean

\* The call returns and closes its channel when the command completes: here, once
\* it has read the end of the command's output.
Ends == \A c \in Call : call[c].pc = "await" ~> call[c].pc = "ended"

=============================================================================
