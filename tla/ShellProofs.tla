----------------------------- MODULE ShellProofs ----------------------------
(***************************************************************************)
(* For any number of calls and lines: who is answered is answered with the *)
(* output of its own command, and the shell is clean or given up for a     *)
(* reason that lasts.  The invariant follows a script from the holder of   *)
(* mu through bash and says what the pipes hold on its way.                *)
(***************************************************************************)
EXTENDS Shell, SequenceTheorems, TLAPS

\* The script of a call is not written yet.
Unwritten(c) == call[c].pc \in {"idle", "lock", "mark", "write"}

\* A call's script lies in stdin or is what bash is at.
Pending(c) == bash.at = c \/ \E i \in DOMAIN stdin : stdin[i] = c

\* What a command has printed are lines of its own and no markers.
Printed ==
    \A c \in Call :
        /\ \A i \in DOMAIN printed[c].out : printed[c].out[i].is # "marker"
        /\ \A i \in DOMAIN printed[c].err : printed[c].err[i].is = "text"

\* Each script is written once, runs once, and is over before the call succeeds.
Scripts ==
    /\ \A c \in Call :
          /\ Unwritten(c) =>
                /\ printed[c] = [out |-> <<>>, err |-> <<>>, over |-> FALSE]
                /\ call[c].lines = <<>> /\ ~call[c].pending /\ ~call[c].sendErr
          /\ Pending(c) =>
                /\ ~printed[c].over
                /\ call[c].pc = "scan" \/ Ended(c, {"overlong", "eof"})
          /\ call[c].pc = "await" \/ Ended(c, {"ok", "dropped"}) => printed[c].over
    /\ \A i \in DOMAIN stdin : stdin[i] \in Call => i = 1 /\ bash.at = NoCall

\* bash has nothing to do.
Quiet == stdin = <<>> /\ bash.at = NoCall

\* Of the call that scans bash has the script still to read, runs it or is done
\* with it; for any other holder, and in a shell that can be taken, it is quiet.
Turn ==
    /\ mu \in Call =>
          IF call[mu].pc = "scan"
            THEN \/ stdin = <<mu>> /\ bash.at = NoCall /\ bash.up /\ ~printed[mu].over
                 \/ stdin = <<>> /\ bash.at = mu /\ ~printed[mu].over
                 \/ Quiet /\ printed[mu].over
            ELSE Quiet
    /\ mu = NoCall /\ ~broken => Quiet
    /\ mu = Closer /\ ~broken =>
          bash.at = NoCall /\ stdin = IF bash.up THEN <<Closer>> ELSE <<>>

\* A command that is run, or has changed what others inherit.
Tricks ==
    /\ bash.at # NoCall => bash.up
    /\ bash.ate \/ bash.stdout # "pipe" \/ bash.stderr # "pipe" => bash.tricks # 0

\* stdout is the shell's own: all of it goes to its pipe, and nothing else does.
Straight == bash.stdout = "pipe" /\ bash.stderr # "stdout"
USE DEF Straight

\* A call that cannot succeed any more: no marker with an exit code is on its way.
Lost(c) ==
    \/ call[c].pc = "ended"
    \/ /\ call[c].pc # "await"
       /\ \A i \in DOMAIN out : IsMarker(out[i], c) => out[i].code = NoCall

\* readStderr has met the marker of a call, or will.
Met(c) == c \in found \/ \E i \in DOMAIN err : IsMarker(err[i], c)

\* Markers are printed at the end of the command.  Once stderr goes to stdout no
\* marker arrives on stderr, and once stdout goes elsewhere none with an exit code
\* on stdout, so that no call under way can succeed.
Marks ==
    /\ \A i \in DOMAIN out : out[i].is = "marker" => printed[out[i].of].over
    /\ \A c \in Call : Met(c) =>
          printed[c].over /\ (bash.stderr = "stdout" => call[c].pc = "ended")
    /\ bash.stdout # "pipe" => \A c \in Call : Lost(c)

-----------------------------------------------------------------------------
\* The lines that were sent, and the empty one that is held back.
Heard(c) == call[c].lines \o IF call[c].pending THEN <<TextOf(c, "blank")>> ELSE <<>>

\* What the script prints after the command's own lines p.
Tailing(c, p, rest) ==
    \/ rest = <<>>
    \/ \E ec \in Call \cup {NoCall} :
          \/ rest = <<TextOf(c, "blank"), MarkerOf(c, ec)>>
          \/ p # <<>> /\ p[Len(p)].is = "text" /\ rest = <<MarkerOf(c, ec)>>

\* The pipe holds lines of the call alone, and its marker at the end.
OwnPipe(c) ==
    \A i \in DOMAIN out :
        /\ out[i].of = c
        /\ out[i].is = "blank" => out[i] = TextOf(c, "blank")
        /\ out[i].is = "marker" =>
              i = Len(out) /\ (bash.tricks = 0 => out[i].code = c)

\* What is read and what is left make up the lines printed and what follows them.
MakeUp(h, q, p, rest) == h \o q = p \o rest

\* What was heard and what is still to come is what the command has printed, and
\* the end of the script.
Hearing(c) ==
    \E rest \in Seq(Line) :
        /\ Tailing(c, printed[c].out, rest)
        /\ ~printed[c].over => rest = <<>>
        /\ MakeUp(Heard(c), out, printed[c].out, rest)

\* An empty line is held back until the next.
HeldBack(c) ==
    ~call[c].pending /\ call[c].lines # <<>> =>
        call[c].lines[Len(call[c].lines)].is # "blank"

\* stdout, as long as it is the shell's own.
Streamed ==
    Straight =>
        /\ mu \in Call =>
              /\ IsPrefix(call[mu].lines, printed[mu].out)
              /\ call[mu].pc = "scan" =>
                    /\ OwnPipe(mu)
                    /\ ~call[mu].sendErr => Hearing(mu) /\ HeldBack(mu)
              /\ call[mu].pc = "await" =>
                    /\ ~call[mu].sendErr => call[mu].lines = printed[mu].out
                    /\ bash.tricks = 0 => call[mu].code = mu
              /\ call[mu].pc # "scan" => out = <<>>
        /\ mu \notin Call /\ ~broken => out = <<>>

\* The collection of stderr: under way, or over.
Collecting(c) ==
    \/ /\ marker = c /\ c \notin found
       /\ \/ buf \o err = printed[c].err
          \/ printed[c].over /\ buf \o err = printed[c].err \o <<MarkerOf(c, NoCall)>>
    \/ /\ c \in found
       /\ printed[c].over
       /\ err = <<>> /\ buf = printed[c].err

\* stderr, as long as no command has changed what others inherit.
Collected ==
    bash.tricks = 0 =>
        /\ mu \in Call =>
              /\ call[mu].pc \in {"mark", "write"} => err = <<>> /\ buf = <<>>
              /\ call[mu].pc = "write" => marker = mu
              /\ call[mu].pc \in {"scan", "await"} => Collecting(mu)
        /\ mu \notin Call /\ ~broken => err = <<>>

\* A shell that is given up, for good or until the holder has drained stdout.
GivenUp ==
    broken =>
        \/ ~bash.up \/ bash.tricks # 0 \/ \E c \in Call : Ended(c, {"overlong"})
        \/ mu \in Call /\ call[mu].sendErr

IInv ==
    /\ TypeOK /\ Printed /\ Scripts /\ Turn /\ Tricks /\ Marks
    /\ Streamed /\ Collected /\ GivenUp /\ OwnLines /\ OwnAnswer

-----------------------------------------------------------------------------
(* Sequences *)

\* Prefixes, element by element.
LEMMA PrefixByElement ==
    ASSUME NEW S, NEW s \in Seq(S), NEW t \in Seq(S)
    PROVE  IsPrefix(s, t) <=> Len(s) <= Len(t) /\ \A i \in 1..Len(s) : s[i] = t[i]
<1>1. SubSeq(s, 1, Len(s)) = s
  BY SubSeqFull
<1>2. Len(s) \in Nat /\ Len(t) \in Nat
  BY LenProperties
<1>3. ASSUME Len(s) <= Len(t)
      PROVE  /\ SubSeq(t, 1, Len(s)) \in Seq(S)
             /\ Len(SubSeq(t, 1, Len(s))) = Len(s)
             /\ \A i \in 1..Len(s) : SubSeq(t, 1, Len(s))[i] = t[i]
  <2>1. \A i \in 1..Len(s) : t[i] \in S
    BY <1>2, <1>3, ElementOfSeq
  <2>2. /\ SubSeq(t, 1, Len(s)) \in Seq(S)
        /\ Len(SubSeq(t, 1, Len(s))) = IF 1 <= Len(s) THEN Len(s) - 1 + 1 ELSE 0
        /\ \A i \in 1..(Len(s) - 1 + 1) : SubSeq(t, 1, Len(s))[i] = t[1 + i - 1]
    BY <1>2, <2>1, SubSeqProperties
  <2> QED
    BY <1>2, <2>2
<1>4. ASSUME Len(s) <= Len(t), \A i \in 1..Len(s) : s[i] = t[i]
      PROVE  s = SubSeq(t, 1, Len(s))
  BY <1>3, <1>4, SeqEqual
<1> QED
  BY <1>1, <1>2, <1>3, <1>4 DEF IsPrefix

\* What grows at its end keeps its prefixes.
LEMMA PrefixOfLonger ==
    ASSUME NEW S, NEW s \in Seq(S), NEW t \in Seq(S), NEW u \in Seq(S), IsPrefix(s, t)
    PROVE  IsPrefix(s, t \o u)
<1>1. Len(s) <= Len(t) /\ \A i \in 1..Len(s) : s[i] = t[i]
  BY PrefixByElement
<1>2. /\ t \o u \in Seq(S)
      /\ Len(t \o u) = Len(t) + Len(u)
      /\ \A i \in 1..(Len(t) + Len(u)) :
            (t \o u)[i] = IF i <= Len(t) THEN t[i] ELSE u[i - Len(t)]
  BY ConcatProperties
<1>3. Len(s) \in Nat /\ Len(t) \in Nat /\ Len(u) \in Nat
  BY LenProperties
<1>4. Len(s) <= Len(t \o u) /\ \A i \in 1..Len(s) : s[i] = (t \o u)[i]
  BY <1>1, <1>2, <1>3
<1> QED
  BY <1>2, <1>4, PrefixByElement

\* The first element moves over.
LEMMA HeadMovesOver ==
    ASSUME NEW S, NEW s \in Seq(S), NEW t \in Seq(S), t # <<>>
    PROVE  (s \o <<Head(t)>>) \o Tail(t) = s \o t
<1>1. Head(t) \in S /\ Tail(t) \in Seq(S)
  BY HeadTailProperties
<1>2. <<Head(t)>> \in Seq(S)
  BY <1>1
<1>3. <<Head(t)>> \o Tail(t) = t
  <2>1. /\ Len(Tail(t)) = Len(t) - 1
        /\ \A i \in 1..Len(Tail(t)) : Tail(t)[i] = t[i + 1]
    BY HeadTailProperties
  <2>2. /\ <<Head(t)>> \o Tail(t) \in Seq(S)
        /\ Len(<<Head(t)>> \o Tail(t)) = 1 + Len(Tail(t))
        /\ \A i \in 1..(1 + Len(Tail(t))) :
              (<<Head(t)>> \o Tail(t))[i] =
                  IF i <= 1 THEN Head(t) ELSE Tail(t)[i - 1]
    BY <1>1, <1>2, ConcatProperties
  <2>3. Len(t) \in Nat \ {0} /\ Head(t) = t[1]
    BY EmptySeq
  <2>4. Len(<<Head(t)>> \o Tail(t)) = Len(t)
    BY <2>1, <2>2, <2>3
  <2>5. \A i \in 1..Len(t) : (<<Head(t)>> \o Tail(t))[i] = t[i]
    BY <2>1, <2>2, <2>3
  <2> QED
    BY <2>2, <2>4, <2>5, SeqEqual
<1> QED
  BY <1>1, <1>2, <1>3, ConcatAssociative

-----------------------------------------------------------------------------
(* Types *)

\* Lines are lines.
LEMMA LineTypes ==
    ASSUME NEW c \in Call
    PROVE  /\ \A is \in {"text", "blank"} : TextOf(c, is) \in Line
           /\ \A code \in Call \cup {NoCall} : MarkerOf(c, code) \in Line
  BY DEF TextOf, MarkerOf, Line

\* What a call would send is a sequence of at most two lines.
LEMMA ToSendType ==
    ASSUME TypeOK, NEW c \in Call, out # <<>>
    PROVE  /\ ToSend(c) \in Seq(Line)
           /\ Head(out) \in Line
<1>1. Head(out) \in Line
  BY HeadTailProperties DEF TypeOK
<1>2. <<TextOf(c, "blank")>> \in Seq(Line) /\ <<Head(out)>> \in Seq(Line)
  BY <1>1, LineTypes
<1>3. <<>> \in Seq(Line)
  OBVIOUS
<1>4. \A s, t \in Seq(Line) : s \o t \in Seq(Line)
  BY ConcatProperties
<1> QED
  BY <1>1, <1>2, <1>3, <1>4 DEF ToSend

\* The script prints lines.
LEMMA ScriptType ==
    ASSUME NEW c \in Call, NEW ec \in Call \cup {NoCall},
           NEW rest \in Seq(Line)
    PROVE  Script(c, ec, rest) \in Seq(Line)
<1>1. /\ <<MarkerOf(c, NoCall)>> \in Seq(Line)
      /\ <<TextOf(c, "blank")>> \in Seq(Line)
      /\ <<MarkerOf(c, ec)>> \in Seq(Line)
      /\ <<TextOf(c, "blank"), MarkerOf(c, ec)>> \in Seq(Line)
  BY LineTypes
<1>2. \A s, t \in Seq(Line) : s \o t \in Seq(Line)
  BY ConcatProperties
<1> QED
  BY <1>1, <1>2 DEF Script

\* On stderr it prints markers, and none where stderr goes to stdout.
LEMMA ErrScriptIs ==
    ASSUME NEW c \in Call
    PROVE  /\ ErrScript(c) \in Seq(Line)
           /\ \A i \in DOMAIN ErrScript(c) : ErrScript(c)[i] = MarkerOf(c, NoCall)
           /\ bash.stderr = "pipe" => ErrScript(c) = <<MarkerOf(c, NoCall)>>
           /\ bash.stderr = "stdout" => ErrScript(c) = <<>>
<1> DEFINE n == MarkerOf(c, NoCall)
           w == ErrScript(c)
<1>1. n \in Line
  BY LineTypes
<1>2. /\ w = <<n>> \/ w = <<n, n>> \/ w = <<>>
      /\ bash.stderr = "pipe" => w = <<n>>
      /\ bash.stderr = "stdout" => w = <<>>
  BY DEF ErrScript
<1> HIDE DEF n, w
<1>3. \A i \in DOMAIN w : w[i] = n
  <2>1. \A i \in DOMAIN <<n>> : <<n>>[i] = n
    OBVIOUS
  <2>2. \A i \in DOMAIN <<n, n>> : <<n, n>>[i] = n
    OBVIOUS
  <2>3. \A i \in DOMAIN <<>> : <<>>[i] = n
    OBVIOUS
  <2> QED
    BY <1>2, <2>1, <2>2, <2>3
<1>4. w \in Seq(Line)
  <2>1. <<n>> \in Seq(Line) /\ <<n, n>> \in Seq(Line) /\ <<>> \in Seq(Line)
    BY <1>1
  <2> QED
    BY <1>2, <2>1
<1> QED
  BY <1>2, <1>3, <1>4 DEF n, w

\* TypeOK, in parts.
CallRecord ==
    [pc : Pc, cancelled : BOOLEAN, pending : BOOLEAN, sendErr : BOOLEAN,
     lines : Seq(Line), code : Call \cup {NoCall}, stderr : Seq(Line),
     result : Result]
CallTypes == call \in [Call -> CallRecord]
MuTypes ==
    /\ mu \in Call \cup {NoCall, Closer}
    /\ \A c \in Call : mu = c <=> call[c].pc \in Holding
    /\ mu = Closer <=> closing = "wait"
    /\ closing \in {"no", "wait", "done"}
StateTypes ==
    /\ broken \in BOOLEAN
    /\ buf \in Seq(Line)
    /\ marker \in Call \cup {NoCall}
    /\ found \subseteq Call
PipeTypes ==
    /\ stdin \in Seq(Call \cup {Closer})
    /\ out \in Seq(Line) /\ err \in Seq(Line)
BashTypes ==
    /\ bash \in [up : BOOLEAN, at : Call \cup {NoCall}, ec : Call \cup {NoCall},
                 ate : BOOLEAN, stdout : {"pipe", "nowhere"},
                 stderr : {"pipe", "traced", "stdout", "nowhere"},
                 held : BOOLEAN, tricks : 0..MaxTricks]
    /\ printed \in [Call -> [out : Seq(Line), err : Seq(Line), over : BOOLEAN]]

LEMMA TypesInParts ==
    /\ TypeOK <=> CallTypes /\ MuTypes /\ StateTypes /\ PipeTypes /\ BashTypes
    /\ TypeOK' <=> CallTypes' /\ MuTypes' /\ StateTypes' /\ PipeTypes' /\ BashTypes'
  BY DEF TypeOK, CallTypes, CallRecord, MuTypes, StateTypes, PipeTypes, BashTypes

LEMMA InitTypes == Init => TypeOK
<1> SUFFICES ASSUME Init PROVE TypeOK
  OBVIOUS
<1>1. CallTypes
  BY DEF Init, CallTypes, CallRecord, Pc, Result
<1>2. MuTypes
  BY CallAssumption DEF Init, MuTypes, Holding
<1>3. StateTypes /\ PipeTypes
  <2>1. <<>> \in Seq(Line) /\ <<>> \in Seq(Call \cup {Closer})
    OBVIOUS
  <2> QED
    BY <2>1 DEF Init, StateTypes, PipeTypes
<1>4. BashTypes
  BY BoundAssumption DEF Init, BashTypes
<1> QED
  BY <1>1, <1>2, <1>3, <1>4, TypesInParts

\* A call that returns keeps all but where it is and its result.
LEMMA ReturnStep ==
    ASSUME CallTypes, NEW c \in Call, NEW result \in Result, Return(c, result)
    PROVE  /\ CallTypes'
           /\ \A d \in Call \ {c} : call'[d] = call[d]
           /\ call'[c].pc = "ended" /\ call'[c].result = result
           /\ call'[c].lines = call[c].lines /\ call'[c].pending = call[c].pending
           /\ call'[c].sendErr = call[c].sendErr /\ call'[c].code = call[c].code
           /\ call'[c].stderr = call[c].stderr
           /\ mu' = NoCall
<1>1. call'[c] = [call[c] EXCEPT !.pc = "ended", !.result = result]
  BY DEF Return, CallTypes
<1>2. call' = [call EXCEPT ![c] = call'[c]]
  BY <1>1 DEF Return, CallTypes
<1>3. call'[c] \in CallRecord
  BY <1>1 DEF CallTypes, CallRecord, Pc
<1>4. CallTypes'
  BY <1>2, <1>3 DEF CallTypes
<1>5. \A d \in Call \ {c} : call'[d] = call[d]
  BY <1>2 DEF CallTypes
<1>6. /\ call'[c].pc = "ended" /\ call'[c].result = result
      /\ call'[c].lines = call[c].lines /\ call'[c].pending = call[c].pending
      /\ call'[c].sendErr = call[c].sendErr /\ call'[c].code = call[c].code
      /\ call'[c].stderr = call[c].stderr
  BY <1>1 DEF CallTypes, CallRecord
<1>7. mu' = NoCall
  BY DEF Return
<1> QED
  BY <1>4, <1>5, <1>6, <1>7

\* Who returns has held mu, or has only waited for it.
LEMMA ReturnMu ==
    ASSUME CallTypes, MuTypes, NEW c \in Call, NEW result \in Result,
           Return(c, result), mu = c \/ mu = NoCall, closing' = closing
    PROVE  MuTypes'
<1>1. \A d \in Call : call'[d].pc = IF d = c THEN "ended" ELSE call[d].pc
  BY ReturnStep
<1>2. mu' = NoCall
  BY DEF Return
<1> QED
  BY <1>1, <1>2, CallAssumption DEF MuTypes, Holding

LEMMA StreamTypes ==
    ASSUME TypeOK, NEW c \in Call, Execute(c) \/ Cancel(c) \/ Stream(c)
    PROVE  TypeOK'
<1> USE CallAssumption
<1> CallTypes /\ MuTypes /\ StateTypes /\ PipeTypes /\ BashTypes
  BY TypesInParts
<1>1. ASSUME Scanned(c)
      PROVE  Tail(out) \in Seq(Line) /\ Head(out) \in Line
  BY <1>1, HeadTailProperties DEF Scanned, PipeTypes
<1>2. CASE Execute(c)
  <2>1. call'[c] = [call[c] EXCEPT !.pc = "lock"]
    BY <1>2 DEF Execute, CallTypes
  <2>2. call'[c] \in CallRecord
    BY <2>1 DEF CallTypes, CallRecord, Pc
  <2>3. CallTypes'
    BY <1>2, <2>2 DEF Execute, CallTypes
  <2>4. MuTypes'
    BY <1>2 DEF Execute, CallTypes, CallRecord, MuTypes, Holding
  <2>5. StateTypes' /\ PipeTypes' /\ BashTypes'
    BY <1>2, <1>1 DEF Execute, StateTypes, PipeTypes, BashTypes, bashVars
  <2> QED
    BY <2>3, <2>4, <2>5, TypesInParts
<1>3. CASE Cancel(c)
  <2>1. call'[c] = [call[c] EXCEPT !.cancelled = TRUE]
    BY <1>3 DEF Cancel, CallTypes
  <2>2. call'[c] \in CallRecord
    BY <2>1 DEF CallTypes, CallRecord
  <2>3. CallTypes'
    BY <1>3, <2>2 DEF Cancel, CallTypes
  <2>4. MuTypes'
    BY <1>3 DEF Cancel, CallTypes, CallRecord, MuTypes, Holding
  <2>5. StateTypes' /\ PipeTypes' /\ BashTypes'
    BY <1>3, <1>1 DEF Cancel, StateTypes, PipeTypes, BashTypes, bashVars
  <2> QED
    BY <2>3, <2>4, <2>5, TypesInParts
<1>4. CASE Refuse(c)
  <2>1. CallTypes'
    BY <1>4, ReturnStep DEF Refuse, Result
  <2>2. MuTypes'
    BY <1>4, ReturnMu DEF Refuse, Result, MuTypes, Holding
  <2>3. StateTypes' /\ PipeTypes' /\ BashTypes'
    BY <1>4, <1>1 DEF Refuse, Return, StateTypes, PipeTypes, BashTypes, bashVars
  <2> QED
    BY <2>1, <2>2, <2>3, TypesInParts
<1>5. CASE Lock(c)
  <2>1. call'[c] = [call[c] EXCEPT !.pc = "mark"]
    BY <1>5 DEF Lock, CallTypes
  <2>2. call'[c] \in CallRecord
    BY <2>1 DEF CallTypes, CallRecord, Pc
  <2>3. CallTypes'
    BY <1>5, <2>2 DEF Lock, CallTypes
  <2>4. MuTypes'
    BY <1>5 DEF Lock, CallTypes, CallRecord, MuTypes, Holding
  <2>5. StateTypes' /\ PipeTypes' /\ BashTypes'
    BY <1>5, <1>1 DEF Lock, StateTypes, PipeTypes, BashTypes, bashVars
  <2> QED
    BY <2>3, <2>4, <2>5, TypesInParts
<1>6. CASE Mark(c)
  <2>1. call'[c] = [call[c] EXCEPT !.pc = "write"]
    BY <1>6 DEF Mark, CallTypes
  <2>2. call'[c] \in CallRecord
    BY <2>1 DEF CallTypes, CallRecord, Pc
  <2>3. CallTypes'
    BY <1>6, <2>2 DEF Mark, CallTypes
  <2>4. MuTypes'
    BY <1>6 DEF Mark, CallTypes, CallRecord, MuTypes, Holding
  <2>5. StateTypes' /\ PipeTypes' /\ BashTypes'
    BY <1>6, <1>1 DEF Mark, StateTypes, PipeTypes, BashTypes, bashVars
  <2> QED
    BY <2>3, <2>4, <2>5, TypesInParts
<1>7. CASE GiveUp(c)
  <2>1. CallTypes'
    BY <1>7, ReturnStep DEF GiveUp, Result
  <2>2. MuTypes'
    BY <1>7, ReturnMu DEF GiveUp, Result, MuTypes, Holding
  <2>3. StateTypes' /\ PipeTypes' /\ BashTypes'
    BY <1>7, <1>1 DEF GiveUp, Return, StateTypes, PipeTypes, BashTypes, bashVars
  <2> QED
    BY <2>1, <2>2, <2>3, TypesInParts
<1>8. CASE Write(c)
  <2>1. call'[c] = [call[c] EXCEPT !.pc = "scan"]
    BY <1>8 DEF Write, CallTypes
  <2>2. call'[c] \in CallRecord
    BY <2>1 DEF CallTypes, CallRecord, Pc
  <2>3. CallTypes'
    BY <1>8, <2>2 DEF Write, CallTypes
  <2>4. MuTypes'
    BY <1>8 DEF Write, CallTypes, CallRecord, MuTypes, Holding
  <2>5. StateTypes' /\ PipeTypes' /\ BashTypes'
    BY <1>8, <1>1 DEF Write, StateTypes, PipeTypes, BashTypes, bashVars
  <2> QED
    BY <2>3, <2>4, <2>5, TypesInParts
<1>9. CASE WriteFails(c)
  <2>1. CallTypes'
    BY <1>9, ReturnStep DEF WriteFails, Result
  <2>2. MuTypes'
    BY <1>9, ReturnMu DEF WriteFails, Result, MuTypes, Holding
  <2>3. StateTypes' /\ PipeTypes' /\ BashTypes'
    BY <1>9, <1>1 DEF WriteFails, Return, StateTypes, PipeTypes, BashTypes, bashVars
  <2> QED
    BY <2>1, <2>2, <2>3, TypesInParts
<1>10. CASE EndMarker(c)
  <2>1. Head(out).code \in Call \cup {NoCall}
    BY <1>1, <1>10 DEF EndMarker, Line
  <2>2. call'[c] = [call[c] EXCEPT !.pc = "await", !.code = Head(out).code]
    BY <1>10 DEF EndMarker, CallTypes
  <2>3. "await" \in Pc
    BY DEF Pc
  <2>4. call'[c] \in CallRecord
    BY <2>1, <2>2, <2>3 DEF CallTypes, CallRecord
  <2>5. CallTypes'
    BY <1>10, <2>4 DEF EndMarker, CallTypes
  <2>6. MuTypes'
    BY <1>10 DEF EndMarker, Scanned, CallTypes, CallRecord, MuTypes, Holding
  <2>7. StateTypes' /\ PipeTypes' /\ BashTypes'
    BY <1>10, <1>1 DEF EndMarker, Scanned, StateTypes, PipeTypes, BashTypes, bashVars
  <2> QED
    BY <2>5, <2>6, <2>7, TypesInParts
<1>11. CASE BadMarker(c)
  <2>1. CallTypes'
    BY <1>11, ReturnStep DEF BadMarker, Result
  <2>2. MuTypes'
    BY <1>11, ReturnMu DEF BadMarker, Result, MuTypes, Holding, Scanned
  <2>3. StateTypes' /\ PipeTypes' /\ BashTypes'
    BY <1>11, <1>1 DEF BadMarker, Return, Scanned, StateTypes, PipeTypes, BashTypes, bashVars
  <2> QED
    BY <2>1, <2>2, <2>3, TypesInParts
<1>12. CASE SendLine(c)
  <2>1. call[c].lines \o ToSend(c) \in Seq(Line)
    BY <1>12, ToSendType, ConcatProperties DEF SendLine, Scanned, CallTypes, CallRecord
  <2>2. call'[c] = [call[c] EXCEPT !.lines = @ \o ToSend(c),
                                   !.pending = Head(out).is = "blank"]
    BY <1>12 DEF SendLine, CallTypes
  <2>3. call'[c] \in CallRecord
    <3> DEFINE ls == call[c].lines \o ToSend(c)
               p == Head(out).is = "blank"
    <3>1. ls \in Seq(Line) /\ p \in BOOLEAN /\ call[c] \in CallRecord
      BY <2>1 DEF CallTypes
    <3>2. call'[c] = [call[c] EXCEPT !.lines = ls, !.pending = p]
      BY <2>2
    <3> HIDE DEF ls, p
    <3> QED
      BY <3>1, <3>2 DEF CallRecord
  <2>4. CallTypes'
    BY <1>12, <2>3 DEF SendLine, CallTypes
  <2>5. MuTypes'
    BY <1>12 DEF SendLine, Scanned, CallTypes, CallRecord, MuTypes, Holding
  <2>6. StateTypes' /\ PipeTypes' /\ BashTypes'
    BY <1>12, <1>1 DEF SendLine, Scanned, StateTypes, PipeTypes, BashTypes, bashVars
  <2> QED
    BY <2>4, <2>5, <2>6, TypesInParts
<1>13. CASE SendFails(c)
  <2>1. PICK n \in 0..Len(ToSend(c)) - 1 :
            call' = [call EXCEPT ![c].lines = @ \o SubSeq(ToSend(c), 1, n),
                                 ![c].sendErr = TRUE]
    BY <1>13 DEF SendFails
  <2>2. ToSend(c) \in Seq(Line)
    BY <1>13, ToSendType DEF SendFails, Scanned
  <2>3. \A i \in 1..n : ToSend(c)[i] \in Line
    BY <2>2, LenProperties, ElementOfSeq
  <2>4. SubSeq(ToSend(c), 1, n) \in Seq(Line)
    BY <2>2, <2>3, LenProperties, SubSeqProperties
  <2>5. call[c].lines \o SubSeq(ToSend(c), 1, n) \in Seq(Line)
    BY <2>4, ConcatProperties DEF CallTypes, CallRecord
  <2>6. call'[c] = [call[c] EXCEPT !.lines = @ \o SubSeq(ToSend(c), 1, n),
                                   !.sendErr = TRUE]
    BY <2>1 DEF CallTypes
  <2>7. call'[c] \in CallRecord
    BY <2>5, <2>6 DEF CallTypes, CallRecord
  <2>8. CallTypes'
    BY <2>1, <2>7 DEF CallTypes
  <2>9. \A d \in Call : call'[d].pc = call[d].pc
    BY <2>1, <2>6 DEF CallTypes, CallRecord
  <2>10. MuTypes'
    BY <1>13, <2>9 DEF SendFails, MuTypes
  <2>11. StateTypes' /\ PipeTypes' /\ BashTypes'
    BY <1>13, <1>1 DEF SendFails, Scanned, StateTypes, PipeTypes, BashTypes, bashVars
  <2> QED
    BY <2>8, <2>10, <2>11, TypesInParts
<1>14. CASE Drain(c)
  <2>1. CallTypes'
    BY <1>14 DEF Drain, Scanned, goVars, CallTypes, CallRecord, Pc, Result
  <2>2. MuTypes'
    BY <1>14 DEF Drain, Scanned, goVars, CallTypes, CallRecord, MuTypes, Holding
  <2>3. StateTypes' /\ PipeTypes' /\ BashTypes'
    BY <1>14, <1>1 DEF Drain, Scanned, goVars, StateTypes, PipeTypes, BashTypes, bashVars
  <2> QED
    BY <2>1, <2>2, <2>3, TypesInParts
<1>15. CASE ScanFails(c)
  <2>1. CallTypes'
    BY <1>15, ReturnStep DEF ScanFails, Result
  <2>2. MuTypes'
    BY <1>15, ReturnMu DEF ScanFails, Result, MuTypes, Holding
  <2>3. StateTypes' /\ PipeTypes' /\ BashTypes'
    BY <1>15, <1>1 DEF ScanFails, Return, StateTypes, PipeTypes, BashTypes, bashVars
  <2> QED
    BY <2>1, <2>2, <2>3, TypesInParts
<1>16. CASE Eof(c)
  <2>1. CallTypes'
    BY <1>16, ReturnStep DEF Eof, Result
  <2>2. MuTypes'
    BY <1>16, ReturnMu DEF Eof, Result, MuTypes, Holding
  <2>3. StateTypes' /\ PipeTypes' /\ BashTypes'
    BY <1>16, <1>1 DEF Eof, Return, StateTypes, PipeTypes, BashTypes, bashVars
  <2> QED
    BY <2>1, <2>2, <2>3, TypesInParts
<1>17. CASE Await(c)
  <2>1. call'[c] = [call[c] EXCEPT !.pc = "ended", !.stderr = buf,
                       !.result = IF call[c].sendErr THEN "dropped" ELSE "ok"]
    BY <1>17 DEF Await, CallTypes
  <2>2. /\ "ended" \in Pc /\ buf \in Seq(Line)
        /\ (IF call[c].sendErr THEN "dropped" ELSE "ok") \in Result
    BY DEF Pc, Result, StateTypes
  <2>3. call'[c] \in CallRecord
    <3> DEFINE r == IF call[c].sendErr THEN "dropped" ELSE "ok"
    <3>1. call'[c] = [call[c] EXCEPT !.pc = "ended", !.stderr = buf, !.result = r]
      BY <2>1
    <3>2. r \in Result /\ call[c] \in CallRecord
      BY <2>2 DEF CallTypes
    <3> HIDE DEF r
    <3> QED
      BY <2>2, <3>1, <3>2 DEF CallRecord
  <2>4. CallTypes'
    BY <1>17, <2>3 DEF Await, CallTypes
  <2>5. MuTypes'
    BY <1>17 DEF Await, CallTypes, CallRecord, MuTypes, Holding
  <2>6. StateTypes' /\ PipeTypes' /\ BashTypes'
    BY <1>17, <1>1 DEF Await, StateTypes, PipeTypes, BashTypes, bashVars
  <2> QED
    BY <2>4, <2>5, <2>6, TypesInParts
<1> QED
  BY <1>2, <1>3, <1>4, <1>5, <1>6, <1>7, <1>8, <1>9, <1>10, <1>11, <1>12, <1>13,
     <1>14, <1>15, <1>16, <1>17 DEF Stream

LEMMA CommandTypes ==
    ASSUME TypeOK, NEW c \in Call, Command(c)
    PROVE  TypeOK'
<1> CallTypes /\ MuTypes /\ StateTypes /\ PipeTypes /\ BashTypes
  BY TypesInParts
<1>1. CallTypes' /\ MuTypes' /\ StateTypes'
  BY DEF Command, Emit, EmitErr, RedirectOut, RedirectErr, EatLine, Quit, Finish, goVars, CallTypes,
         MuTypes, StateTypes
<1>2. SUFFICES PipeTypes' /\ BashTypes'
  BY <1>1, TypesInParts
<1> USE DEF PipeTypes, BashTypes
<1>3. CASE Emit(c)
  <2>1. PICK is \in {"text", "blank"} :
            /\ out' = Append(out, TextOf(c, is))
            /\ printed' = [printed EXCEPT ![c].out = Append(@, TextOf(c, is))]
    BY <1>3 DEF Emit
  <2>2. TextOf(c, is) \in Line
    BY LineTypes
  <2>3. Append(printed[c].out, TextOf(c, is)) \in Seq(Line)
    BY <2>2, AppendProperties
  <2>4. printed' \in [Call -> [out : Seq(Line), err : Seq(Line), over : BOOLEAN]]
    BY <2>1, <2>3
  <2> QED
    BY <1>3, <2>1, <2>2, <2>4 DEF Emit
<1>4. CASE EmitErr(c)
  <2>1. TextOf(c, "text") \in Line
    BY LineTypes
  <2>2. Append(printed[c].err, TextOf(c, "text")) \in Seq(Line)
    BY <2>1, AppendProperties
  <2>3. printed' \in [Call -> [out : Seq(Line), err : Seq(Line), over : BOOLEAN]]
    BY <1>4, <2>2 DEF EmitErr
  <2> QED
    BY <1>4, <2>1, <2>3 DEF EmitErr
<1>5. CASE RedirectOut(c) \/ RedirectErr(c) \/ EatLine(c)
  <2> DEFINE n == bash.tricks + 1
  <2>1. n \in 0..MaxTricks
    <3>1. bash.tricks \in 0..MaxTricks /\ bash.tricks < MaxTricks /\ MaxTricks \in Nat
      BY <1>5, BoundAssumption DEF RedirectOut, RedirectErr, EatLine, Trick
    <3> QED
      BY <3>1
  <2>2. \/ \E held \in BOOLEAN :
              bash' = [bash EXCEPT !.stdout = "nowhere", !.held = held, !.tricks = n]
        \/ \E to \in {"traced", "stdout", "nowhere"} :
              bash' = [bash EXCEPT !.stderr = to, !.tricks = n]
        \/ bash' = [bash EXCEPT !.ate = TRUE, !.tricks = n]
    BY <1>5 DEF RedirectOut, RedirectErr, EatLine
  <2>3. UNCHANGED <<stdin, out, err, printed>>
    BY <1>5 DEF RedirectOut, RedirectErr, EatLine
  <2> HIDE DEF n
  <2> QED
    BY <2>1, <2>2, <2>3
<1>7. CASE Quit(c)
  BY <1>7 DEF Quit
<1>8. CASE Finish(c)
  <2> DEFINE ec == IF bash.ate THEN bash.ec ELSE c
  <2>1. PICK rest \in {<<>>, <<TextOf(c, "text")>>} :
            /\ out' = out \o Script(c, ec, rest)
            /\ printed' = [printed EXCEPT ![c].out = @ \o rest, ![c].over = TRUE]
    BY <1>8 DEF Finish
  <2>2. rest \in Seq(Line) /\ MarkerOf(c, NoCall) \in Line
    <3>1. TextOf(c, "text") \in Line /\ MarkerOf(c, NoCall) \in Line
      BY LineTypes
    <3>2. <<TextOf(c, "text")>> \in Seq(Line) /\ <<>> \in Seq(Line)
      BY <3>1
    <3> QED
      BY <3>1, <3>2
  <2>3. Script(c, ec, rest) \in Seq(Line)
    BY <2>2, ScriptType
  <2>4. out' \in Seq(Line) /\ printed[c].out \o rest \in Seq(Line)
    BY <2>1, <2>2, <2>3, ConcatProperties
  <2>5. err' \in Seq(Line)
    <3>1. ErrScript(c) \in Seq(Line)
      BY ErrScriptIs
    <3> QED
      BY <1>8, <3>1, ConcatProperties DEF Finish
  <2>6. printed' \in [Call -> [out : Seq(Line), err : Seq(Line), over : BOOLEAN]]
    <3> DEFINE p == printed[c].out \o rest
    <3>1. printed' = [printed EXCEPT ![c] = [printed[c] EXCEPT !.out = p, !.over = TRUE]]
      BY <2>1
    <3>2. p \in Seq(Line)
      BY <2>4
    <3> HIDE DEF p
    <3>3. [printed[c] EXCEPT !.out = p, !.over = TRUE] \in
              [out : Seq(Line), err : Seq(Line), over : BOOLEAN]
      BY <3>2
    <3> QED
      BY <3>1, <3>3
  <2>7. bash' = [bash EXCEPT !.at = NoCall, !.ec = ec, !.ate = FALSE] /\ stdin' = stdin
    BY <1>8 DEF Finish
  <2> QED
    BY <2>4, <2>5, <2>6, <2>7
<1> QED
  BY <1>3, <1>4, <1>5, <1>7, <1>8 DEF Command

LEMMA OtherTypes ==
    ASSUME TypeOK, ReadStderr \/ Close \/ Waited \/ Take \/ LetGo \/ UNCHANGED vars
    PROVE  TypeOK'
<1> CallTypes /\ MuTypes /\ StateTypes /\ PipeTypes /\ BashTypes
  BY TypesInParts
<1> SUFFICES CallTypes' /\ MuTypes' /\ StateTypes' /\ PipeTypes' /\ BashTypes'
  BY TypesInParts
<1> USE CallAssumption DEF CallTypes, MuTypes, StateTypes, PipeTypes, BashTypes
<1>1. CASE ReadStderr
  <2>1. Tail(err) \in Seq(Line) /\ Head(err) \in Line
    BY <1>1, HeadTailProperties DEF ReadStderr
  <2>2. Append(buf, Head(err)) \in Seq(Line)
    BY <2>1, AppendProperties
  <2>3. buf' \in Seq(Line)
    BY <1>1, <2>2 DEF ReadStderr
  <2>4. marker' \in Call \cup {NoCall} /\ found' \subseteq Call
    BY <1>1 DEF ReadStderr
  <2> QED
    BY <1>1, <2>1, <2>3, <2>4 DEF ReadStderr
<1>2. CASE Close
  BY <1>2 DEF Close, Holding
<1>3. CASE Waited
  BY <1>3 DEF Waited, Holding
<1>4. CASE Take
  <2>1. Tail(stdin) \in Seq(Call \cup {Closer}) /\ Head(stdin) \in Call \cup {Closer}
    BY <1>4, HeadTailProperties DEF Take
  <2>2. CASE Head(stdin) = Closer
    <3>1. bash' = [bash EXCEPT !.up = FALSE]
      BY <1>4, <2>2 DEF Take
    <3> QED
      BY <1>4, <2>1, <3>1 DEF Take, goVars
  <2>3. CASE Head(stdin) # Closer
    <3>1. bash' = [bash EXCEPT !.at = Head(stdin)]
      BY <1>4, <2>3 DEF Take
    <3> QED
      BY <1>4, <2>1, <2>3, <3>1 DEF Take, goVars
  <2> QED
    BY <2>2, <2>3
<1>5. CASE LetGo
  BY <1>5 DEF LetGo, goVars
<1>6. CASE UNCHANGED vars
  BY <1>6 DEF vars, goVars, bashVars
<1> QED
  BY <1>1, <1>2, <1>3, <1>4, <1>5, <1>6

LEMMA TypeHolds == TypeOK /\ [Next]_vars => TypeOK'
  BY StreamTypes, CommandTypes, OtherTypes DEF Next

-----------------------------------------------------------------------------
(* What steps leave alone *)

\* A call goes on and keeps all that it has heard and answered.
Moves(c, pc) ==
    /\ \A d \in Call \ {c} : call'[d] = call[d]
    /\ call'[c].pc = pc
    /\ call'[c].lines = call[c].lines /\ call'[c].pending = call[c].pending
    /\ call'[c].sendErr = call[c].sendErr /\ call'[c].code = call[c].code

LEMMA CallMoves ==
    ASSUME TypeOK, NEW c \in Call
    PROVE  /\ Execute(c) => Moves(c, "lock")
           /\ Cancel(c) => Moves(c, call[c].pc)
           /\ Lock(c) => Moves(c, "mark")
           /\ Mark(c) => Moves(c, "write")
           /\ Write(c) => Moves(c, "scan")
<1>1. call \in [Call -> CallRecord]
  BY TypesInParts DEF CallTypes
<1>2. ASSUME NEW pc, call' = [call EXCEPT ![c].pc = pc]
      PROVE  Moves(c, pc)
  BY <1>1, <1>2 DEF CallRecord, Moves
<1>3. ASSUME call' = [call EXCEPT ![c].cancelled = TRUE]
      PROVE  Moves(c, call[c].pc)
  BY <1>1, <1>3 DEF CallRecord, Moves
<1> QED
  BY <1>2, <1>3 DEF Execute, Cancel, Lock, Mark, Write

\* A call that returns without success.
LEMMA ReturnMoves ==
    ASSUME TypeOK, NEW c \in Call, NEW result \in Result, Return(c, result)
    PROVE  Moves(c, "ended") /\ call'[c].result = result /\ mu' = NoCall
  BY ReturnStep, TypesInParts DEF Moves

\* Answers that were given do not change while no call succeeds.
LEMMA AnswersStay ==
    ASSUME TypeOK, Printed, Tricks, OwnLines, OwnAnswer, NEW c \in Call,
           \A d \in Call \ {c} : call'[d] = call[d],
           call'[c].pc # "ended" \/ call'[c].result \notin {"ok", "dropped"},
           bash' = bash, printed' = printed
    PROVE  Printed' /\ Tricks' /\ OwnLines' /\ OwnAnswer'
<1>1. Printed' /\ Tricks'
  BY DEF Printed, Tricks
<1>2. OwnLines'
  BY DEF OwnLines, Ended
<1>3. OwnAnswer'
  BY DEF OwnAnswer, Ended
<1> QED
  BY <1>1, <1>2, <1>3

\* Nor when bash works on commands that are not over.
LEMMA AnswersOutlast ==
    ASSUME TypeOK, Scripts, OwnLines, OwnAnswer, call' = call,
           bash.tricks # 0 => bash'.tricks # 0,
           \A d \in Call : printed[d].over =>
              printed'[d].out = printed[d].out /\ printed'[d].err = printed[d].err
    PROVE  OwnLines' /\ OwnAnswer'
<1>1. \A d \in Call : Ended(d, {"ok", "dropped"}) => printed[d].over
  BY DEF Scripts
<1>2. OwnLines'
  BY <1>1 DEF OwnLines, Ended
<1>3. OwnAnswer'
  BY <1>1 DEF OwnAnswer, Ended
<1> QED
  BY <1>2, <1>3

\* What a call has heard, while stdout is left alone.
LEMMA StillHearing ==
    ASSUME NEW m \in Call, out' = out, printed'[m] = printed[m],
           call'[m].lines = call[m].lines, call'[m].pending = call[m].pending
    PROVE  /\ Hearing(m)' <=> Hearing(m)
           /\ HeldBack(m)' <=> HeldBack(m)
           /\ (bash.tricks # 0 => bash'.tricks # 0) /\ OwnPipe(m) => OwnPipe(m)'
<1>1. Heard(m)' = Heard(m)
  BY DEF Heard
<1>2. Hearing(m)' <=> Hearing(m)
  BY <1>1 DEF Hearing
<1>3. HeldBack(m)' <=> HeldBack(m)
  BY DEF HeldBack
<1>4. (bash.tricks # 0 => bash'.tricks # 0) /\ OwnPipe(m) => OwnPipe(m)'
  BY DEF OwnPipe
<1> QED
  BY <1>2, <1>3, <1>4

-----------------------------------------------------------------------------
(* ExecuteStream, up to the write *)

LEMMA InitHolds == Init => IInv
<1> SUFFICES ASSUME Init PROVE IInv
  OBVIOUS
<1>1. TypeOK
  BY InitTypes
<1>2. \A c \in Call :
          /\ call[c].pc = "idle" /\ call[c].lines = <<>> /\ ~call[c].pending
          /\ ~call[c].sendErr
          /\ printed[c] = [out |-> <<>>, err |-> <<>>, over |-> FALSE]
  BY DEF Init
<1>3. mu = NoCall /\ ~broken /\ out = <<>> /\ err = <<>> /\ stdin = <<>> /\ found = {}
  BY DEF Init
<1>4. bash.at = NoCall /\ ~bash.ate /\ bash.stdout = "pipe" /\ bash.stderr = "pipe"
  BY DEF Init
<1>5. mu \notin Call /\ mu # Closer
  BY <1>3, CallAssumption
<1>6. Printed
  BY <1>2 DEF Printed
<1>7. Scripts
  BY <1>2, <1>3, <1>4, CallAssumption DEF Scripts, Pending, Unwritten, Ended
<1>8. Turn /\ Tricks
  BY <1>3, <1>4, <1>5 DEF Turn, Tricks, Quiet
<1>9. Marks
  BY <1>3, <1>4 DEF Marks, Met
<1>10. Streamed /\ Collected /\ GivenUp
  BY <1>3, <1>5 DEF Streamed, Collected, GivenUp
<1>11. OwnLines /\ OwnAnswer
  BY <1>2 DEF OwnLines, OwnAnswer, Ended
<1> QED
  BY <1>1, <1>6, <1>7, <1>8, <1>9, <1>10, <1>11 DEF IInv

\* A call that is not yet the shell's, or a client that leaves.
LEMMA ArriveHolds ==
    ASSUME IInv, TypeOK', NEW c \in Call, Execute(c) \/ Cancel(c)
    PROVE  IInv'
<1> USE DEF IInv
<1>1. PICK pc : /\ Moves(c, pc)
                /\ pc = call[c].pc \/ (call[c].pc = "idle" /\ pc = "lock")
                /\ pc # "ended"
  <2>1. CASE Execute(c)
    BY <2>1, CallMoves DEF Execute
  <2>2. CASE Cancel(c)
    BY <2>2, CallMoves DEF Cancel
  <2> QED
    BY <2>1, <2>2
<1>2. UNCHANGED <<mu, broken, buf, marker, found, closing, stdin, out, err, bash, printed>>
  BY DEF Execute, Cancel, bashVars
<1>3. ASSUME NEW d \in Call
      PROVE
          /\ \/ call'[d].pc = call[d].pc
             \/ d = c /\ call[d].pc = "idle" /\ call'[d].pc = "lock"
          /\ call'[d].lines = call[d].lines /\ call'[d].pending = call[d].pending
          /\ call'[d].sendErr = call[d].sendErr /\ call'[d].code = call[d].code
          /\ call'[d].pc = "ended" => call'[d] = call[d]
  <2>1. CASE d = c
    BY <1>1, <2>1 DEF Moves
  <2>2. CASE d # c
    BY <1>1, <2>2 DEF Moves
  <2> QED
    BY <2>1, <2>2
<1>4. mu \in Call => call[mu].pc \in Holding /\ call'[mu].pc = call[mu].pc
  BY <1>3 DEF TypeOK, Holding
<1>5. Printed' /\ Tricks' /\ OwnLines' /\ OwnAnswer'
  BY <1>1, <1>2, AnswersStay DEF Moves
<1>6. Scripts'
  BY <1>2, <1>3 DEF Scripts, Pending, Unwritten, Ended
<1>7. Turn'
  BY <1>2, <1>4 DEF Turn, Quiet
<1>8. Marks'
  BY <1>2, <1>3 DEF Marks, Met, IsMarker, Lost
<1>9. Streamed'
  <2>1. mu \in Call => /\ Hearing(mu)' <=> Hearing(mu)
                       /\ HeldBack(mu)' <=> HeldBack(mu)
                       /\ OwnPipe(mu) => OwnPipe(mu)'
    BY <1>2, <1>3, StillHearing
  <2> QED
    BY <1>2, <1>3, <1>4, <2>1 DEF Streamed
<1>10. Collected'
  BY <1>2, <1>4 DEF Collected, Collecting
<1>11. GivenUp'
  <2>1. \A d \in Call : Ended(d, {"overlong"}) => Ended(d, {"overlong"})'
    BY <1>1 DEF Ended, Moves
  <2> QED
    BY <1>2, <1>3, <2>1 DEF GivenUp
<1> QED
  BY <1>5, <1>6, <1>7, <1>8, <1>9, <1>10, <1>11

\* A call that returns without success: it leaves no script behind unless a line
\* was too long, and a shell that is clean or given up for a reason.
LEMMA ReturnHolds ==
    ASSUME IInv, TypeOK', NEW c \in Call, NEW result \in Result \ {"ok", "dropped"},
           Return(c, result), mu \in {c, NoCall},
           UNCHANGED <<buf, marker, found, stdin, err, bash, printed>>,
           \A i \in DOMAIN out' : \E j \in DOMAIN out : out'[i] = out[j],
           result \in {"overlong", "eof"} \/ ~Pending(c),
           broken' \/ (/\ Quiet
                       /\ Straight => out' = <<>>
                       /\ bash.tricks = 0 => err = <<>>),
           broken' => \/ ~bash.up \/ bash.tricks # 0 \/ result = "overlong"
                      \/ \E d \in Call : Ended(d, {"overlong"}) /\ d # c
    PROVE  IInv'
<1> USE DEF IInv
<1>1. Moves(c, "ended") /\ call'[c].result = result /\ mu' = NoCall
  BY ReturnMoves
<1>2. mu' \notin Call /\ mu' # Closer
  BY <1>1, CallAssumption
<1>3. Printed' /\ Tricks' /\ OwnLines' /\ OwnAnswer'
  BY <1>1, AnswersStay DEF Moves
<1>4. \A d \in Call : d # c => call'[d] = call[d]
  BY <1>1 DEF Moves
<1>5. Scripts'
  <2>1. ASSUME NEW d \in Call
        PROVE  /\ Unwritten(d)' => Unwritten(d) /\ call'[d] = call[d]
               /\ Pending(d)' => Pending(d)
               /\ Pending(d) => call'[d].pc = "scan" \/ Ended(d, {"overlong", "eof"})'
               /\ call'[d].pc = "await" \/ Ended(d, {"ok", "dropped"})' =>
                     call[d].pc = "await" \/ Ended(d, {"ok", "dropped"})
    <3>1. CASE d = c
      BY <1>1, <3>1 DEF Moves, Unwritten, Ended, Pending
    <3>2. CASE d # c
      BY <1>4, <3>2 DEF Unwritten, Ended, Pending, Scripts
    <3> QED
      BY <3>1, <3>2
  <2> QED
    BY <2>1 DEF Scripts
<1>6. Turn'
  BY <1>1, <1>2 DEF Turn, Quiet
<1>7. Marks'
  <2>1. \A d \in Call : Met(d)' => Met(d)
    BY DEF Met, IsMarker
  <2>2. \A d \in Call : call[d].pc = "ended" => call'[d].pc = "ended"
    BY <1>1, <1>4 DEF Moves
  <2>3. \A d \in Call : Lost(d) => Lost(d)'
    BY <1>1, <1>4 DEF Lost, Moves, IsMarker
  <2> QED
    BY <2>1, <2>2, <2>3 DEF Marks
<1>8. Streamed' /\ Collected'
  BY <1>1, <1>2 DEF Streamed, Collected
<1>9. GivenUp'
  <2>1. \A d \in Call : Ended(d, {"overlong"}) /\ d # c => Ended(d, {"overlong"})'
    BY <1>4 DEF Ended
  <2>2. result = "overlong" => Ended(c, {"overlong"})'
    BY <1>1 DEF Moves, Ended
  <2> QED
    BY <2>1, <2>2 DEF GivenUp
<1> QED
  BY <1>3, <1>5, <1>6, <1>7, <1>8, <1>9

\* Who holds mu, by where it is.
LEMMA HolderIs ==
    ASSUME TypeOK, NEW c \in Call
    PROVE  /\ call[c].pc \in Holding => mu = c
           /\ mu = c => call[c].pc \in Holding
           /\ mu = NoCall => mu \notin Call /\ mu # Closer
  BY CallAssumption DEF TypeOK

\* A call whose script is not written has none pending.
LEMMA NotPending ==
    ASSUME TypeOK, Scripts, NEW c \in Call, Unwritten(c)
    PROVE  ~Pending(c)
  BY DEF Scripts, Unwritten, Ended

LEMMA RefuseHolds ==
    ASSUME IInv, TypeOK', NEW c \in Call, Refuse(c)
    PROVE  IInv'
<1>1. UNCHANGED <<broken, buf, marker, found, stdin, out, err, bash, printed>>
  BY DEF Refuse, bashVars
<1>2. ~Pending(c)
  BY NotPending DEF IInv, Refuse, Unwritten
<1>3. \/ ~bash.up \/ bash.tricks # 0
      \/ \E d \in Call : Ended(d, {"overlong"}) /\ d # c
  BY HolderIs DEF IInv, Refuse, GivenUp, Ended
<1> QED
  BY <1>1, <1>2, <1>3, ReturnHolds DEF Refuse, Result

LEMMA GiveUpHolds ==
    ASSUME IInv, TypeOK', NEW c \in Call, GiveUp(c)
    PROVE  IInv'
<1>1. UNCHANGED <<broken, buf, marker, found, stdin, out, err, bash, printed>>
  BY DEF GiveUp, bashVars
<1>2. ~Pending(c) /\ ~call[c].sendErr
  BY NotPending DEF IInv, GiveUp, Unwritten, Scripts
<1>3. mu = c
  BY HolderIs DEF IInv, GiveUp, Holding
<1>4. broken => \/ ~bash.up \/ bash.tricks # 0
                \/ \E d \in Call : Ended(d, {"overlong"}) /\ d # c
  BY <1>2, <1>3 DEF IInv, GiveUp, GivenUp, Ended
<1>5. Quiet
  BY <1>3 DEF IInv, Turn, GiveUp
<1>6. /\ Straight => out = <<>>
      /\ bash.tricks = 0 => err = <<>>
  BY <1>3 DEF IInv, Streamed, Collected, GiveUp
<1> QED
  BY <1>1, <1>2, <1>3, <1>4, <1>5, <1>6, ReturnHolds DEF GiveUp, Result

LEMMA WriteFailsHolds ==
    ASSUME IInv, TypeOK', NEW c \in Call, WriteFails(c)
    PROVE  IInv'
<1>1. UNCHANGED <<buf, marker, found, stdin, out, err, bash, printed>> /\ broken'
  BY DEF WriteFails, bashVars
<1>2. ~Pending(c)
  BY NotPending DEF IInv, WriteFails, Unwritten
<1>3. mu = c
  BY HolderIs DEF IInv, WriteFails, Holding
<1> QED
  BY <1>1, <1>2, <1>3, ReturnHolds DEF WriteFails, Result

LEMMA ScanFailsHolds ==
    ASSUME IInv, TypeOK', NEW c \in Call, ScanFails(c)
    PROVE  IInv'
<1>1. UNCHANGED <<buf, marker, found, stdin, out, err, bash, printed>> /\ broken'
  BY DEF ScanFails, bashVars
<1>2. mu = c
  BY HolderIs DEF IInv, ScanFails, Holding
<1> QED
  BY <1>1, <1>2, ReturnHolds DEF ScanFails, Result

\* At the end of stdout bash is down, and has nothing of the script left, or stdout
\* goes elsewhere.
LEMMA EofHolds ==
    ASSUME IInv, TypeOK', NEW c \in Call, Eof(c)
    PROVE  IInv'
<1>1. UNCHANGED <<buf, marker, found, stdin, out, err, bash, printed>> /\ broken'
  BY DEF Eof, bashVars
<1>2. mu = c
  BY HolderIs DEF IInv, Eof, Holding
<1>3. ~bash.up \/ bash.tricks # 0
  BY DEF IInv, Tricks, Eof, Unheld
<1> QED
  BY <1>1, <1>2, <1>3, ReturnHolds DEF Eof, Result

\* The empty sequence is a prefix of itself.
LEMMA NothingHeard == IsPrefix(<<>>, <<>>) /\ <<>> \o <<>> = <<>>
<1>1. <<>> \in Seq(Line)
  OBVIOUS
<1>2. <<>> \o <<>> = <<>>
  BY <1>1, ConcatEmptySeq
<1>3. ASSUME NEW s \in Seq(Line), s = <<>>
      PROVE  IsPrefix(s, s)
  <2>1. Len(s) \in Nat
    BY LenProperties
  <2>2. Len(s) <= Len(s) /\ \A i \in 1..Len(s) : s[i] = s[i]
    BY <2>1
  <2> QED
    BY <2>2, PrefixByElement
<1> QED
  BY <1>1, <1>2, <1>3

\* A step of the holder, or of the call that takes the shell, which is not in the
\* answers and leaves stdin and bash as they are.
LEMMA HolderSteps ==
    ASSUME IInv, TypeOK', NEW c \in Call, NEW pc \in Holding,
           \A d \in Call \ {c} : call'[d] = call[d],
           call'[c].pc = pc, call[c].pc \in {"lock", "mark", "write", "scan"},
           UNCHANGED <<found, stdin, err, bash, printed>>,
           \A i \in DOMAIN out' : \E j \in DOMAIN out : out'[i] = out[j],
           pc = "mark" \/ pc = "write" =>
              /\ Unwritten(c)
              /\ call'[c].lines = call[c].lines /\ call'[c].pending = call[c].pending
              /\ call'[c].sendErr = call[c].sendErr,
           pc = "scan" => call[c].pc = "scan",
           pc = "await" => printed[c].over /\ Quiet /\ bash.stdout = "pipe"
    PROVE  Printed' /\ Scripts' /\ Tricks' /\ Marks' /\ OwnLines' /\ OwnAnswer'
<1> USE DEF IInv
<1>1. Printed' /\ Tricks' /\ OwnLines' /\ OwnAnswer'
  <2>1. pc # "ended"
    BY DEF Holding
  <2> QED
    BY <2>1, AnswersStay
<1>2. Scripts'
  <2>1. ASSUME NEW d \in Call
        PROVE  /\ Unwritten(d)' => Unwritten(d)
               /\ Unwritten(d)' =>
                     /\ call'[d].lines = call[d].lines
                     /\ call'[d].pending = call[d].pending
                     /\ call'[d].sendErr = call[d].sendErr
               /\ Pending(d)' => Pending(d)
               /\ Pending(d) => call'[d].pc = "scan" \/ Ended(d, {"overlong", "eof"})'
               /\ call'[d].pc = "await" \/ Ended(d, {"ok", "dropped"})' =>
                     printed[d].over
    <3>1. CASE d = c
      <4>1. Pending(d) => call[c].pc = "scan"
        BY <3>1 DEF Scripts, Ended
      <4>2. Quiet => ~Pending(c)
        BY CallAssumption DEF Quiet, Pending
      <4> QED
        BY <3>1, <4>1, <4>2 DEF Holding, Unwritten, Ended, Pending
    <3>2. CASE d # c
      BY <3>2 DEF Unwritten, Ended, Pending, Scripts
    <3> QED
      BY <3>1, <3>2
  <2> QED
    BY <2>1 DEF Scripts
<1>3. Marks'
  <2>1. \A d \in Call : Met(d)' => Met(d)
    BY DEF Met, IsMarker
  <2>2. \A d \in Call : call[d].pc = "ended" => call'[d].pc = "ended"
    OBVIOUS
  <2>3. bash.stdout # "pipe" => \A d \in Call : Lost(d) => Lost(d)'
    BY DEF Lost, IsMarker
  <2> QED
    BY <2>1, <2>2, <2>3 DEF Marks
<1> QED
  BY <1>1, <1>2, <1>3

\* The shell is taken when it is clean.
LEMMA LockHolds ==
    ASSUME IInv, TypeOK', NEW c \in Call, Lock(c)
    PROVE  IInv'
<1> USE DEF IInv
<1>1. Moves(c, "mark")
  BY CallMoves
<1>2. /\ UNCHANGED <<broken, marker, found, stdin, out, err, bash, printed>>
      /\ mu' = c /\ mu = NoCall /\ ~broken /\ buf' = <<>> /\ Unwritten(c)
      /\ call[c].pc = "lock"
  BY DEF Lock, bashVars, Unwritten
<1>3. Printed' /\ Scripts' /\ Tricks' /\ Marks' /\ OwnLines' /\ OwnAnswer'
  BY <1>1, <1>2, HolderSteps DEF Moves, Holding
<1>4. mu \notin Call /\ mu # Closer /\ c # NoCall /\ c # Closer
  BY <1>2, CallAssumption
<1>5. Turn'
  BY <1>1, <1>2, <1>4 DEF Turn, Quiet, Moves
<1>6. Streamed'
  <2>1. call'[c].lines = <<>> /\ printed'[c].out = <<>>
    BY <1>1, <1>2 DEF Moves, Scripts
  <2> QED
    BY <1>1, <1>2, <1>4, <2>1, NothingHeard DEF Streamed, Moves
<1>7. Collected' /\ GivenUp'
  BY <1>1, <1>2, <1>4 DEF Collected, GivenUp, Moves
<1> QED
  BY <1>3, <1>5, <1>6, <1>7

LEMMA MarkHolds ==
    ASSUME IInv, TypeOK', NEW c \in Call, Mark(c)
    PROVE  IInv'
<1> USE DEF IInv
<1>1. Moves(c, "write")
  BY CallMoves
<1>2. /\ UNCHANGED <<mu, broken, buf, found, stdin, out, err, bash, printed>>
      /\ marker' = c /\ mu = c /\ Unwritten(c) /\ call[c].pc = "mark"
  BY HolderIs DEF Mark, bashVars, Unwritten, Holding
<1>3. Printed' /\ Scripts' /\ Tricks' /\ Marks' /\ OwnLines' /\ OwnAnswer'
  BY <1>1, <1>2, HolderSteps DEF Moves, Holding
<1>4. c # NoCall /\ c # Closer
  BY CallAssumption
<1>5. Turn'
  BY <1>1, <1>2, <1>4 DEF Turn, Quiet, Moves
<1>6. Streamed'
  BY <1>1, <1>2 DEF Streamed, Moves
<1>7. Collected'
  BY <1>1, <1>2, <1>4 DEF Collected, Moves
<1>8. GivenUp'
  <2>1. \A d \in Call : Ended(d, {"overlong"}) => Ended(d, {"overlong"})'
    BY <1>1, <1>2 DEF Ended, Moves
  <2> QED
    BY <1>1, <1>2, <2>1 DEF GivenUp, Moves
<1> QED
  BY <1>3, <1>5, <1>6, <1>7, <1>8

\* The script is written to a bash that has nothing else to do.
LEMMA WriteHolds ==
    ASSUME IInv, TypeOK', NEW c \in Call, Write(c)
    PROVE  IInv'
<1> USE DEF IInv
<1>1. Moves(c, "scan")
  BY CallMoves
<1>2. /\ UNCHANGED <<mu, broken, buf, marker, found, out, err, bash, printed>>
      /\ mu = c /\ Unwritten(c) /\ call[c].pc = "write" /\ bash.up
      /\ stdin' = Append(stdin, c)
  BY HolderIs DEF Write, Unwritten, Holding
<1>3. Quiet
  BY <1>2 DEF Turn
<1>4. c # NoCall /\ c # Closer
  BY CallAssumption
<1>5. stdin' = <<c>>
  BY <1>2, <1>3 DEF Quiet
<1>6. /\ call'[c].lines = <<>> /\ ~call'[c].pending /\ ~call'[c].sendErr
      /\ printed[c].out = <<>> /\ printed[c].err = <<>> /\ ~printed[c].over
  BY <1>1, <1>2 DEF Moves, Scripts
<1>7. Printed' /\ Tricks' /\ OwnLines' /\ OwnAnswer'
  BY <1>1, <1>2, AnswersStay DEF Moves
<1>8. Scripts'
  <2>1. \A d \in Call : Pending(d)' => d = c
    BY <1>2, <1>3, <1>5, CallAssumption DEF Pending, Quiet
  <2>2. \A i \in DOMAIN stdin' : i = 1
    BY <1>5
  <2>3. bash'.at = NoCall
    BY <1>2, <1>3 DEF Quiet
  <2>4. ASSUME NEW d \in Call
        PROVE  /\ Unwritten(d)' => Unwritten(d) /\ call'[d] = call[d]
               /\ call'[d].pc = "await" \/ Ended(d, {"ok", "dropped"})' =>
                     printed[d].over
    <3>1. CASE d = c
      BY <1>1, <3>1 DEF Unwritten, Ended, Moves
    <3>2. CASE d # c
      BY <1>1, <3>2 DEF Unwritten, Ended, Moves, Scripts
    <3> QED
      BY <3>1, <3>2
  <2>5. Pending(c)' => ~printed[c].over /\ call'[c].pc = "scan"
    BY <1>1, <1>6 DEF Moves
  <2> QED
    BY <1>2, <2>1, <2>2, <2>3, <2>4, <2>5 DEF Scripts
<1>9. Turn'
  BY <1>1, <1>2, <1>3, <1>4, <1>5, <1>6 DEF Turn, Quiet, Moves
<1>10. Marks'
  <2>1. \A d \in Call : Met(d)' => Met(d)
    BY <1>2 DEF Met, IsMarker
  <2>2. \A d \in Call : call[d].pc = "ended" => call'[d].pc = "ended"
    BY <1>1, <1>2 DEF Moves
  <2>3. \A d \in Call : Lost(d) => Lost(d)'
    BY <1>1, <1>2 DEF Lost, Moves, IsMarker
  <2> QED
    BY <1>2, <2>1, <2>2, <2>3 DEF Marks
<1>11. Streamed'
  <2> SUFFICES ASSUME Straight
               PROVE  Streamed'
    BY <1>2 DEF Streamed
  <2>1. out = <<>>
    BY <1>2 DEF Streamed
  <2>2. Heard(c)' = <<>>
    BY <1>6, NothingHeard DEF Heard
  <2>3. Tailing(c, <<>>, <<>>) /\ <<>> \in Seq(Line)
    BY DEF Tailing
  <2>4. Hearing(c)'
    BY <1>2, <1>6, <2>1, <2>2, <2>3, NothingHeard DEF Hearing, MakeUp
  <2>5. HeldBack(c)' /\ OwnPipe(c)'
    BY <1>2, <1>6, <2>1 DEF HeldBack, OwnPipe
  <2> QED
    BY <1>1, <1>2, <1>6, <2>1, <2>4, <2>5, NothingHeard DEF Streamed, Moves
<1>12. Collected'
  <2> SUFFICES ASSUME bash.tricks = 0
               PROVE  Collected'
    BY <1>2 DEF Collected
  <2>1. err = <<>> /\ buf = <<>> /\ marker = c
    BY <1>2 DEF Collected
  <2>2. c \notin found
    BY <1>6 DEF Marks, Met
  <2>3. Collecting(c)'
    BY <1>2, <1>6, <2>1, <2>2, NothingHeard DEF Collecting
  <2> QED
    BY <1>1, <1>2, <2>3 DEF Collected, Moves
<1>13. GivenUp'
  <2>1. \A d \in Call : Ended(d, {"overlong"}) => Ended(d, {"overlong"})'
    BY <1>1, <1>2 DEF Ended, Moves
  <2> QED
    BY <1>1, <1>2, <2>1 DEF GivenUp, Moves
<1> QED
  BY <1>7, <1>8, <1>9, <1>10, <1>11, <1>12, <1>13

-----------------------------------------------------------------------------
(* ExecuteStream, the scan *)

\* What was heard when the marker arrives: the command's lines, and the script's
\* empty one where the last of them was complete.
LEMMA HeardAtTheEnd ==
    ASSUME NEW c \in Call, NEW h \in Seq(Line), NEW q \in Seq(Line),
           NEW p \in Seq(Line), NEW rest \in Seq(Line),
           \A i \in DOMAIN p : p[i] # q[1],
           Tailing(c, p, rest), MakeUp(h, q, p, rest), Len(q) = 1
    PROVE  \/ h = p /\ p # <<>> /\ p[Len(p)] # TextOf(c, "blank")
           \/ h = p \o <<TextOf(c, "blank")>>
<1> DEFINE b == TextOf(c, "blank")
<1>1. /\ Len(h) \in Nat /\ Len(p) \in Nat
      /\ DOMAIN p = 1..Len(p)
  BY LenProperties
<1>2. /\ Len(h \o q) = Len(h) + 1
      /\ \A i \in 1..Len(h) : (h \o q)[i] = h[i]
      /\ (h \o q)[Len(h) + 1] = q[1]
      /\ h \o q = p \o rest
  <2>1. /\ Len(h \o q) = Len(h) + Len(q)
        /\ \A i \in 1..(Len(h) + Len(q)) :
              (h \o q)[i] = IF i <= Len(h) THEN h[i] ELSE q[i - Len(h)]
    BY ConcatProperties
  <2>2. /\ Len(h) + 1 \in 1..(Len(h) + Len(q)) /\ ~(Len(h) + 1 <= Len(h))
        /\ Len(h) + 1 - Len(h) = 1
    BY <1>1
  <2>3. \A i \in 1..Len(h) : i \in 1..(Len(h) + Len(q)) /\ i <= Len(h)
    BY <1>1
  <2> QED
    BY <2>1, <2>2, <2>3 DEF MakeUp
<1>3. /\ Len(p \o rest) = Len(p) + Len(rest)
      /\ \A i \in 1..(Len(p) + Len(rest)) :
            (p \o rest)[i] = IF i <= Len(p) THEN p[i] ELSE rest[i - Len(p)]
  BY ConcatProperties
<1>4. CASE rest = <<>>
  <2>1. p \o rest = p
    BY <1>4, ConcatEmptySeq
  <2>2. Len(p) = Len(h) + 1
    BY <1>2, <2>1
  <2>3. p[Len(p)] = q[1]
    BY <1>2, <2>2, <2>1
  <2> QED
    BY <1>1, <2>2, <2>3
<1>5. ASSUME NEW ec \in Call \cup {NoCall}, rest = <<b, MarkerOf(c, ec)>>
      PROVE  h = p \o <<b>>
  <2>1. b \in Line
    BY LineTypes
  <2>2. <<b>> \in Seq(Line)
    BY <2>1
  <2>3. /\ p \o <<b>> \in Seq(Line) /\ Len(p \o <<b>>) = Len(p) + 1
        /\ \A i \in 1..(Len(p) + 1) :
              (p \o <<b>>)[i] = IF i <= Len(p) THEN p[i] ELSE <<b>>[i - Len(p)]
    BY <2>2, ConcatProperties
  <2>4. Len(rest) = 2 /\ rest[1] = b
    BY <1>5
  <2>5. Len(h) = Len(p) + 1
    BY <1>1, <1>2, <1>3, <2>4
  <2>6. ASSUME NEW i \in 1..Len(h)
        PROVE  h[i] = (p \o <<b>>)[i]
    <3>1. h[i] = (p \o rest)[i]
      BY <1>2
    <3>2. CASE i <= Len(p)
      BY <1>1, <1>3, <2>3, <2>4, <2>5, <3>1, <3>2
    <3>3. CASE i = Len(p) + 1
      BY <1>1, <1>3, <2>3, <2>4, <2>5, <3>1, <3>3
    <3> QED
      BY <1>1, <2>5, <3>2, <3>3
  <2> QED
    BY <2>3, <2>5, <2>6, SeqEqual
<1>6. ASSUME NEW ec \in Call \cup {NoCall}, rest = <<MarkerOf(c, ec)>>
      PROVE  h = p
  <2>1. Len(rest) = 1
    BY <1>6
  <2>2. Len(h) = Len(p)
    BY <1>1, <1>2, <1>3, <2>1
  <2>3. \A i \in 1..Len(h) : h[i] = p[i]
    BY <1>1, <1>2, <1>3, <2>1, <2>2
  <2> QED
    BY <2>2, <2>3, SeqEqual
<1>7. b.is # "text"
  BY DEF TextOf
<1>8. p # <<>> /\ p[Len(p)].is = "text" => p[Len(p)] # b
  BY <1>7
<1>9. rest = <<>> \/ h = p \o <<b>> \/ (h = p /\ p # <<>> /\ p[Len(p)].is = "text")
  <2> HIDE DEF b
  <2> QED
    BY <1>5, <1>6 DEF Tailing, b
<1> QED
  BY <1>4, <1>8, <1>9

\* What was heard before a line that is no marker is the command's own, and so is
\* a line of text.
LEMMA HeardIsOwn ==
    ASSUME NEW c \in Call, NEW h \in Seq(Line), NEW q \in Seq(Line),
           NEW p \in Seq(Line), NEW rest \in Seq(Line),
           Tailing(c, p, rest), MakeUp(h, q, p, rest),
           q # <<>>, Head(q).is # "marker"
    PROVE  /\ IsPrefix(h, p)
           /\ Head(q).is # "blank" => IsPrefix(h \o <<Head(q)>>, p)
<1>1. /\ Len(h) \in Nat /\ Len(p) \in Nat /\ Len(rest) \in Nat
      /\ Len(q) \in Nat \ {0} /\ Head(q) = q[1]
  BY LenProperties, EmptySeq
<1>2. /\ Len(h \o q) = Len(h) + Len(q)
      /\ \A i \in 1..Len(h) : (h \o q)[i] = h[i]
      /\ (h \o q)[Len(h) + 1] = q[1]
      /\ h \o q = p \o rest
  BY <1>1, ConcatProperties DEF MakeUp
<1>3. /\ Len(p \o rest) = Len(p) + Len(rest)
      /\ \A i \in 1..(Len(p) + Len(rest)) :
            (p \o rest)[i] = IF i <= Len(p) THEN p[i] ELSE rest[i - Len(p)]
  BY ConcatProperties
<1>4. \A i \in 1..Len(rest) :
          rest[i].is = "marker" \/ (i = 1 /\ rest[i].is = "blank")
  BY DEF Tailing, TextOf, MarkerOf
<1>5. /\ Len(h) <= Len(p)
      /\ Head(q).is # "blank" => Len(h) + 1 <= Len(p)
  <2> DEFINE k == Len(h) + 1
  <2>1. k \in 1..(Len(p) + Len(rest)) /\ (p \o rest)[k] = q[1]
    BY <1>1, <1>2, <1>3
  <2>2. CASE k <= Len(p)
    BY <1>1, <2>2
  <2>3. CASE ~(k <= Len(p))
    <3>1. k - Len(p) \in 1..Len(rest) /\ rest[k - Len(p)] = q[1]
      BY <1>1, <1>3, <2>1, <2>3
    <3>2. k - Len(p) = 1 /\ q[1].is = "blank"
      BY <1>1, <1>4, <3>1
    <3> QED
      BY <1>1, <3>2
  <2> QED
    BY <2>2, <2>3
<1>6. \A i \in 1..Len(h) : h[i] = p[i]
  BY <1>1, <1>2, <1>3, <1>5
<1>7. IsPrefix(h, p)
  BY <1>5, <1>6, PrefixByElement
<1>8. ASSUME Head(q).is # "blank"
      PROVE  IsPrefix(h \o <<Head(q)>>, p)
  <2>1. <<Head(q)>> \in Seq(Line)
    BY HeadTailProperties
  <2>2. /\ h \o <<Head(q)>> \in Seq(Line)
        /\ Len(h \o <<Head(q)>>) = Len(h) + 1
        /\ \A i \in 1..(Len(h) + 1) :
              (h \o <<Head(q)>>)[i] = IF i <= Len(h) THEN h[i] ELSE <<Head(q)>>[i - Len(h)]
    BY <2>1, ConcatProperties
  <2>3. p[Len(h) + 1] = Head(q)
    BY <1>1, <1>2, <1>3, <1>5, <1>8
  <2>4. \A i \in 1..(Len(h) + 1) : (h \o <<Head(q)>>)[i] = p[i]
    <3>1. ASSUME NEW i \in 1..Len(h)
          PROVE  (h \o <<Head(q)>>)[i] = p[i]
      <4>1. i \in 1..(Len(h) + 1) /\ i <= Len(h)
        BY <1>1
      <4> QED
        BY <1>6, <2>2, <4>1
    <3>2. (h \o <<Head(q)>>)[Len(h) + 1] = p[Len(h) + 1]
      <4>1. /\ Len(h) + 1 \in 1..(Len(h) + 1) /\ ~(Len(h) + 1 <= Len(h))
            /\ Len(h) + 1 - Len(h) = 1
        BY <1>1
      <4> QED
        BY <2>2, <2>3, <4>1
    <3> QED
      BY <1>1, <3>1, <3>2
  <2> QED
    BY <1>5, <1>8, <2>2, <2>4, PrefixByElement
<1> QED
  BY <1>7, <1>8

LEMMA LinesTypes ==
    ASSUME TypeOK, NEW c \in Call
    PROVE  /\ call[c].lines \in Seq(Line) /\ Heard(c) \in Seq(Line)
           /\ printed[c].out \in Seq(Line) /\ printed[c].err \in Seq(Line)
           /\ out \in Seq(Line) /\ err \in Seq(Line) /\ buf \in Seq(Line)
           /\ TextOf(c, "blank") \in Line
           /\ <<TextOf(c, "blank")>> \in Seq(Line)
           /\ <<>> \in Seq(Line)
<1>1. call[c] \in CallRecord
  BY TypesInParts DEF CallTypes
<1>2. call[c].lines \in Seq(Line)
  BY <1>1 DEF CallRecord
<1>3. printed[c].out \in Seq(Line) /\ printed[c].err \in Seq(Line)
  BY TypesInParts DEF BashTypes
<1>4. out \in Seq(Line) /\ err \in Seq(Line) /\ buf \in Seq(Line)
  BY TypesInParts DEF PipeTypes, StateTypes
<1>5. TextOf(c, "blank") \in Line
  BY LineTypes
<1>6. <<TextOf(c, "blank")>> \in Seq(Line) /\ <<>> \in Seq(Line)
  BY <1>5
<1>7. Heard(c) \in Seq(Line)
  BY <1>2, <1>6, ConcatProperties DEF Heard
<1> QED
  BY <1>2, <1>3, <1>4, <1>5, <1>6, <1>7

\* What reading a line leaves on the pipe.
LEMMA ScannedLeaves ==
    ASSUME TypeOK, NEW c \in Call, Scanned(c)
    PROVE  /\ Len(out) \in Nat \ {0} /\ Head(out) = out[1] /\ 1 \in DOMAIN out
           /\ out' \in Seq(Line) /\ Len(out') = Len(out) - 1
           /\ \A i \in DOMAIN out' : i + 1 \in DOMAIN out /\ out'[i] = out[i + 1]
           /\ Len(out) = 1 => out' = <<>>
<1>1. out \in Seq(Line) /\ out # <<>> /\ out' = Tail(out)
  BY TypesInParts DEF Scanned, PipeTypes
<1>2. Len(out) \in Nat \ {0} /\ Head(out) = out[1] /\ DOMAIN out = 1..Len(out)
  BY <1>1, EmptySeq, LenProperties
<1>3. /\ out' \in Seq(Line) /\ Len(out') = Len(out) - 1
      /\ \A i \in 1..Len(out') : out'[i] = out[i + 1]
  BY <1>1, HeadTailProperties
<1>4. DOMAIN out' = 1..Len(out')
  BY <1>3, LenProperties
<1>5. \A i \in 1..Len(out') : i + 1 \in 1..Len(out)
  BY <1>2, <1>3
<1>6. Len(out) = 1 => out' = <<>>
  BY <1>3, EmptySeq
<1> QED
  BY <1>2, <1>3, <1>4, <1>5, <1>6

\* A marker that is read is the call's own, the last on the pipe, and its script is
\* done.
LEMMA MarkerEnds ==
    ASSUME IInv, NEW c \in Call, Scanned(c), IsMarker(Head(out), c)
    PROVE  /\ mu = c /\ printed[c].over /\ Quiet
           /\ Straight =>
                 out' = <<>> /\ (bash.tricks = 0 => Head(out).code = c)
<1> USE DEF IInv
<1>1. mu = c
  BY HolderIs DEF Scanned, Holding
<1>2. Head(out) = out[1] /\ 1 \in DOMAIN out
  BY ScannedLeaves
<1>3. printed[c].over
  BY <1>2 DEF Marks, IsMarker
<1>4. Quiet
  BY <1>1, <1>3 DEF Turn, Scanned
<1>5. ASSUME Straight
      PROVE  out' = <<>> /\ (bash.tricks = 0 => Head(out).code = c)
  <2>1. OwnPipe(c)
    BY <1>1, <1>5 DEF Streamed, Scanned
  <2>2. Len(out) = 1 /\ (bash.tricks = 0 => Head(out).code = c)
    BY <1>2, <2>1 DEF OwnPipe, IsMarker
  <2> QED
    BY <2>2, ScannedLeaves
<1> QED
  BY <1>1, <1>3, <1>4, <1>5

LEMMA EndMarkerHolds ==
    ASSUME IInv, TypeOK', NEW c \in Call, EndMarker(c)
    PROVE  IInv'
<1> USE DEF IInv
<1>1. /\ UNCHANGED <<mu, broken, buf, marker, found, stdin, err, bash, printed>>
      /\ Scanned(c) /\ IsMarker(Head(out), c)
  BY DEF EndMarker
<1>2. /\ mu = c /\ printed[c].over /\ Quiet
      /\ Straight => out' = <<>> /\ (bash.tricks = 0 => Head(out).code = c)
  BY <1>1, MarkerEnds
<1>3. /\ \A d \in Call \ {c} : call'[d] = call[d]
      /\ call'[c].pc = "await" /\ call'[c].code = Head(out).code
      /\ call'[c].lines = call[c].lines /\ call'[c].sendErr = call[c].sendErr
      /\ call[c].pc = "scan"
  <2>1. call \in [Call -> CallRecord]
    BY TypesInParts DEF CallTypes
  <2>2. call'[c] = [call[c] EXCEPT !.pc = "await", !.code = Head(out).code]
    BY <2>1 DEF EndMarker
  <2> QED
    BY <2>1, <2>2, <1>1 DEF EndMarker, CallRecord, Scanned
<1>4. \A i \in DOMAIN out' : \E j \in DOMAIN out : out'[i] = out[j]
  BY <1>1, ScannedLeaves
<1>5. Printed' /\ Scripts' /\ Tricks' /\ Marks' /\ OwnLines' /\ OwnAnswer'
  <2>1. bash.stdout = "pipe"
    <3>1. Head(out) = out[1] /\ 1 \in DOMAIN out /\ Head(out).code # NoCall
      BY <1>1, ScannedLeaves DEF EndMarker
    <3>2. bash.stdout # "pipe" => Lost(c)
      BY DEF Marks
    <3> QED
      BY <1>1, <1>3, <3>1, <3>2 DEF Lost
  <2> QED
    BY <1>1, <1>2, <1>3, <1>4, <2>1, HolderSteps DEF Holding
<1>6. c # NoCall /\ c # Closer
  BY CallAssumption
<1>7. Turn'
  BY <1>1, <1>2, <1>3, <1>6 DEF Turn, Quiet
<1>8. Streamed'
  <2> SUFFICES ASSUME Straight
               PROVE  Streamed'
    BY <1>1 DEF Streamed
  <2>1. IsPrefix(call[c].lines, printed[c].out) /\ OwnPipe(c)
    BY <1>1, <1>2 DEF Streamed, Scanned
  <2>2. ASSUME ~call[c].sendErr
        PROVE  call[c].lines = printed[c].out
    <3> DEFINE b == TextOf(c, "blank")
    <3>1. Hearing(c) /\ HeldBack(c)
      BY <1>1, <1>2, <2>2 DEF Streamed, Scanned
    <3>2. PICK rest \in Seq(Line) :
              Tailing(c, printed[c].out, rest) /\ MakeUp(Heard(c), out, printed[c].out, rest)
      BY <3>1 DEF Hearing
    <3>3. Len(out) = 1 /\ out[1].is = "marker"
      BY <1>1, <2>1, ScannedLeaves DEF OwnPipe, IsMarker
    <3>4. \A i \in DOMAIN printed[c].out : printed[c].out[i].is # "marker"
      BY DEF Printed
    <3>5. \/ /\ Heard(c) = printed[c].out
             /\ printed[c].out # <<>> /\ printed[c].out[Len(printed[c].out)] # b
          \/ Heard(c) = printed[c].out \o <<b>>
      <4> DEFINE h == Heard(c)
                 p == printed[c].out
      <4>1. h \in Seq(Line) /\ out \in Seq(Line) /\ p \in Seq(Line)
        BY LinesTypes
      <4>2. Tailing(c, p, rest) /\ MakeUp(h, out, p, rest)
        BY <3>2
      <4>3. \A i \in DOMAIN p : p[i] # out[1]
        BY <3>3, <3>4
      <4> HIDE DEF h, p
      <4>4. \/ h = p /\ p # <<>> /\ p[Len(p)] # b
            \/ h = p \o <<b>>
        BY <3>3, <4>1, <4>2, <4>3, HeardAtTheEnd
      <4> QED
        BY <4>4 DEF h, p
    <3>6. b.is = "blank"
      BY DEF TextOf
    <3>7. \A s \in Seq(Line) :
              /\ Len(s \o <<b>>) = Len(s) + 1
              /\ (s \o <<b>>)[Len(s) + 1] = b
      <4>1. TAKE s \in Seq(Line)
      <4>2. <<b>> \in Seq(Line) /\ Len(<<b>>) = 1 /\ <<b>>[1] = b
        BY LinesTypes
      <4>3. Len(s) \in Nat
        BY LenProperties
      <4>4. Append(s, b) = s \o <<b>>
        BY LinesTypes, AppendIsConcat
      <4> QED
        BY <4>4, LinesTypes, AppendProperties
    <3>8. CASE call[c].pending
      <4>1. Heard(c) = call[c].lines \o <<b>>
        BY <3>8 DEF Heard
      <4>2. Heard(c)[Len(Heard(c))] = b
        BY <3>7, <4>1, LinesTypes
      <4>3. Heard(c) = printed[c].out \o <<b>>
        BY <3>5, <3>6, <4>2
      <4> QED
        <5>1. /\ call[c].lines \in Seq(Line) /\ printed[c].out \in Seq(Line)
              /\ <<b>> \in Seq(Line)
          BY LinesTypes
        <5>2. \A s, t, v \in Seq(Line) : s \o v = t \o v => s = t
          BY ConcatSimplifications
        <5> QED
          BY <4>1, <4>3, <5>1, <5>2
    <3>9. CASE ~call[c].pending
      <4>1. Heard(c) = call[c].lines
        BY <3>9, LinesTypes, ConcatEmptySeq DEF Heard
      <4>2. CASE Heard(c) = printed[c].out \o <<b>>
        <5>1. Heard(c) # <<>> /\ Heard(c)[Len(Heard(c))] = b
          BY <3>7, <4>2, LinesTypes, EmptySeq, LenProperties
        <5> QED
          BY <3>1, <3>6, <3>9, <4>1, <5>1 DEF HeldBack
      <4> QED
        BY <3>5, <4>1, <4>2
    <3> QED
      BY <3>8, <3>9
  <2> QED
    BY <1>1, <1>2, <1>3, <2>1, <2>2 DEF Streamed
<1>9. Collected'
  BY <1>1, <1>2, <1>3, <1>6 DEF Collected, Collecting
<1>10. GivenUp'
  <2>1. \A d \in Call : Ended(d, {"overlong"}) => Ended(d, {"overlong"})'
    BY <1>3 DEF Ended
  <2> QED
    BY <1>1, <1>2, <1>3, <2>1 DEF GivenUp
<1> QED
  BY <1>5, <1>7, <1>8, <1>9, <1>10

LEMMA BadMarkerHolds ==
    ASSUME IInv, TypeOK', NEW c \in Call, BadMarker(c)
    PROVE  IInv'
<1> USE DEF IInv
<1>1. /\ UNCHANGED <<broken, buf, marker, found, stdin, err, bash, printed>>
      /\ Scanned(c) /\ IsMarker(Head(out), c) /\ Head(out).code = NoCall
      /\ Return(c, "parse")
  BY DEF BadMarker
<1>2. /\ mu = c /\ printed[c].over /\ Quiet
      /\ Straight => out' = <<>> /\ (bash.tricks = 0 => Head(out).code = c)
  BY <1>1, MarkerEnds
<1>3. \A i \in DOMAIN out' : \E j \in DOMAIN out : out'[i] = out[j]
  BY <1>1, ScannedLeaves
<1>4. bash.tricks # 0
  <2>1. ~Straight => bash.tricks # 0
    BY DEF Tricks
  <2> QED
    BY <1>1, <1>2, <2>1, CallAssumption
<1>5. ~Pending(c)
  BY <1>2 DEF Scripts
<1> QED
  BY <1>1, <1>2, <1>3, <1>4, <1>5, ReturnHolds DEF Result

\* What is left on the pipe is still the call's own.
LEMMA OwnPipeShrinks ==
    ASSUME TypeOK, NEW c \in Call, Scanned(c), OwnPipe(c), bash' = bash
    PROVE  OwnPipe(c)'
<1>1. /\ Len(out') = Len(out) - 1 /\ Len(out) \in Nat
      /\ \A i \in DOMAIN out' : i + 1 \in DOMAIN out /\ out'[i] = out[i + 1]
  BY ScannedLeaves
<1>2. DOMAIN out' = 1..Len(out')
  BY ScannedLeaves, LenProperties
<1> SUFFICES ASSUME NEW i \in DOMAIN out'
             PROVE  /\ out'[i].of = c
                    /\ out'[i].is = "blank" => out'[i] = TextOf(c, "blank")
                    /\ out'[i].is = "marker" =>
                          i = Len(out') /\ (bash'.tricks = 0 => out'[i].code = c)
  BY DEF OwnPipe
<1>3. i + 1 \in DOMAIN out /\ out'[i] = out[i + 1] /\ i \in Int
  BY <1>1, <1>2
<1>4. /\ out[i + 1].of = c
      /\ out[i + 1].is = "blank" => out[i + 1] = TextOf(c, "blank")
      /\ out[i + 1].is = "marker" =>
            i + 1 = Len(out) /\ (bash.tricks = 0 => out[i + 1].code = c)
  BY <1>3 DEF OwnPipe
<1>5. i + 1 = Len(out) => i = Len(out')
  BY <1>1, <1>3
<1> QED
  BY <1>3, <1>4, <1>5

\* A line that the holder reads and that is not its marker, whatever it does with
\* it: what remains to be said is what it has heard then.
LEMMA LineHolds ==
    ASSUME IInv, TypeOK', NEW c \in Call, Scanned(c), ~IsMarker(Head(out), c),
           \A d \in Call \ {c} : call'[d] = call[d],
           call'[c].pc = "scan", call'[c].code = call[c].code,
           UNCHANGED <<mu, buf, marker, found, stdin, err, bash, printed>>,
           call'[c].sendErr \/ (broken' = broken /\ ~call[c].sendErr),
           call[c].sendErr => broken' = broken /\ call'[c].sendErr,
           broken => broken',
           Straight /\ OwnPipe(c) =>
              /\ IsPrefix(call'[c].lines, printed[c].out)
              /\ ~call'[c].sendErr => Hearing(c)' /\ HeldBack(c)'
    PROVE  IInv'
<1> USE DEF IInv
<1>1. mu = c /\ call[c].pc = "scan"
  BY HolderIs DEF Scanned, Holding
<1>2. c # NoCall /\ c # Closer
  BY CallAssumption
<1>3. \A i \in DOMAIN out' : \E j \in DOMAIN out : out'[i] = out[j]
  BY ScannedLeaves
<1>4. Printed' /\ Scripts' /\ Tricks' /\ Marks' /\ OwnLines' /\ OwnAnswer'
  BY <1>1, <1>3, HolderSteps DEF Holding
<1>5. Turn'
  BY <1>1, <1>2 DEF Turn, Quiet
<1>6. Streamed'
  <2> SUFFICES ASSUME Straight
               PROVE  Streamed'
    BY DEF Streamed
  <2>1. OwnPipe(c)
    BY <1>1 DEF Streamed
  <2>2. OwnPipe(c)'
    BY <2>1, OwnPipeShrinks
  <2> QED
    BY <1>1, <2>1, <2>2 DEF Streamed
<1>7. Collected'
  BY <1>1, <1>2 DEF Collected, Collecting
<1>8. GivenUp'
  <2>1. \A d \in Call : Ended(d, {"overlong"}) => Ended(d, {"overlong"})'
    BY <1>1 DEF Ended
  <2> QED
    BY <1>1, <2>1 DEF GivenUp
<1> QED
  BY <1>4, <1>5, <1>6, <1>7, <1>8

\* Lines that the call has not to do with any more are read all the same.
LEMMA DrainHolds ==
    ASSUME IInv, TypeOK', NEW c \in Call, Drain(c)
    PROVE  IInv'
<1>1. /\ UNCHANGED <<call, mu, broken, buf, marker, found, stdin, err, bash, printed>>
      /\ Scanned(c) /\ ~IsMarker(Head(out), c) /\ call[c].sendErr
  BY DEF Drain, goVars
<1>2. mu = c /\ call[c].pc = "scan"
  BY <1>1, HolderIs DEF IInv, Scanned, Holding
<1>3. Straight => IsPrefix(call[c].lines, printed[c].out)
  BY <1>2 DEF IInv, Streamed
<1> QED
  BY <1>1, <1>2, <1>3, LineHolds

LEMMA TwoLines ==
    ASSUME NEW x \in Line, NEW y \in Line
    PROVE  <<x>> \o <<y>> = <<x, y>>
<1>1. <<x>> \in Seq(Line) /\ <<y>> \in Seq(Line) /\ <<x, y>> \in Seq(Line)
  OBVIOUS
<1>2. /\ <<x>> \o <<y>> \in Seq(Line)
      /\ Len(<<x>> \o <<y>>) = Len(<<x>>) + Len(<<y>>)
      /\ \A i \in 1..(Len(<<x>>) + Len(<<y>>)) :
            (<<x>> \o <<y>>)[i] = IF i <= Len(<<x>>) THEN <<x>>[i] ELSE <<y>>[i - Len(<<x>>)]
  BY <1>1, ConcatProperties
<1>3. Len(<<x>>) = 1 /\ Len(<<y>>) = 1 /\ Len(<<x, y>>) = 2
  OBVIOUS
<1>4. (<<x>> \o <<y>>)[1] = x /\ (<<x>> \o <<y>>)[2] = y
  BY <1>2, <1>3
<1>5. <<x, y>>[1] = x /\ <<x, y>>[2] = y
  OBVIOUS
<1> DEFINE s == <<x>> \o <<y>>
           t == <<x, y>>
<1>6. s \in Seq(Line) /\ t \in Seq(Line) /\ Len(s) = 2 /\ Len(t) = 2
  BY <1>1, <1>2, <1>3
<1>7. s[1] = t[1] /\ s[2] = t[2]
  BY <1>4, <1>5
<1> HIDE DEF s, t
<1>8. \A i \in 1..Len(s) : s[i] = t[i]
  BY <1>6, <1>7
<1>9. s = t
  BY <1>6, <1>8, SeqEqual
<1> QED
  BY <1>9 DEF s, t

LEMMA HeadOfTwo ==
    ASSUME NEW x, NEW y
    PROVE  SubSeq(<<x, y>>, 1, 1) = <<x>>
<1>1. <<x, y>> \in Seq({x, y}) /\ <<x>> \in Seq({x, y}) /\ <<x, y>>[1] = x
  OBVIOUS
<1>2. \A i \in 1..1 : <<x, y>>[i] \in {x, y}
  BY <1>1
<1> DEFINE s == SubSeq(<<x, y>>, 1, 1)
           t == <<x>>
<1>3. s \in Seq({x, y}) /\ Len(s) = 1 /\ s[1] = x
  <2>1. /\ s \in Seq({x, y})
        /\ Len(s) = IF 1 <= 1 THEN 1 - 1 + 1 ELSE 0
        /\ \A i \in 1..(1 - 1 + 1) : s[i] = <<x, y>>[1 + i - 1]
    BY <1>2, SubSeqProperties
  <2> HIDE DEF s
  <2> QED
    BY <1>1, <2>1
<1>4. t \in Seq({x, y}) /\ Len(t) = 1 /\ t[1] = x
  BY <1>1
<1> HIDE DEF s, t
<1>5. \A i \in 1..Len(s) : s[i] = t[i]
  BY <1>3, <1>4
<1>6. s = t
  BY <1>3, <1>4, <1>5, SeqEqual
<1> QED
  BY <1>6 DEF s, t

\* On the call's own pipe, what it sends for a line and holds back afterwards adds
\* the line to what it has heard; what it sends of it is its own.
LEMMA SendsWhatItHears ==
    ASSUME IInv, NEW c \in Call, Scanned(c), ~IsMarker(Head(out), c),
           Straight, ~call[c].sendErr
    PROVE  /\ OwnPipe(c) /\ Hearing(c) /\ HeldBack(c)
           /\ Head(out).is # "marker"
           /\ Head(out).is = "blank" =>
                 /\ Head(out) = TextOf(c, "blank")
                 /\ ToSend(c) = IF call[c].pending THEN <<TextOf(c, "blank")>> ELSE <<>>
                 /\ call[c].lines \o ToSend(c) = Heard(c)
                 /\ IsPrefix(Heard(c), printed[c].out)
           /\ Head(out).is # "blank" =>
                 /\ ToSend(c) = IF call[c].pending THEN <<TextOf(c, "blank"), Head(out)>>
                                                   ELSE <<Head(out)>>
                 /\ call[c].lines \o ToSend(c) = Heard(c) \o <<Head(out)>>
                 /\ IsPrefix(Heard(c), printed[c].out)
                 /\ IsPrefix(Heard(c) \o <<Head(out)>>, printed[c].out)
<1> USE DEF IInv
<1> DEFINE b == TextOf(c, "blank")
           held == IF call[c].pending THEN <<b>> ELSE <<>>
           l == Head(out)
<1>1. mu = c
  BY HolderIs DEF Scanned, Holding
<1>2. OwnPipe(c) /\ Hearing(c) /\ HeldBack(c)
  BY <1>1 DEF Streamed, Scanned
<1>3. l = out[1] /\ 1 \in DOMAIN out /\ l \in Line
  BY ScannedLeaves, ToSendType DEF Scanned
<1>4. l.is # "marker" /\ (l.is = "blank" => l = b)
  BY <1>2, <1>3 DEF OwnPipe, IsMarker
<1>5. /\ call[c].lines \in Seq(Line) /\ Heard(c) \in Seq(Line)
      /\ printed[c].out \in Seq(Line) /\ out \in Seq(Line)
      /\ b \in Line /\ <<b>> \in Seq(Line) /\ <<>> \in Seq(Line)
  BY LinesTypes
<1>6. held \in Seq(Line) /\ <<l>> \in Seq(Line)
  BY <1>3, <1>5
<1>7. /\ IsPrefix(Heard(c), printed[c].out)
      /\ l.is # "blank" => IsPrefix(Heard(c) \o <<l>>, printed[c].out)
  <2>1. PICK rest \in Seq(Line) :
            Tailing(c, printed[c].out, rest) /\ MakeUp(Heard(c), out, printed[c].out, rest)
    BY <1>2 DEF Hearing
  <2> DEFINE h == Heard(c)
             p == printed[c].out
  <2>2. h \in Seq(Line) /\ p \in Seq(Line)
    BY <1>5
  <2>3. Tailing(c, p, rest) /\ MakeUp(h, out, p, rest)
    BY <2>1
  <2>4. out # <<>>
    BY DEF Scanned
  <2> HIDE DEF h, p
  <2>5. /\ IsPrefix(h, p)
        /\ Head(out).is # "blank" => IsPrefix(h \o <<Head(out)>>, p)
    BY <1>4, <1>5, <2>2, <2>3, <2>4, HeardIsOwn
  <2> QED
    BY <2>5 DEF h, p
<1>8. CASE l.is = "blank"
  <2>1. ToSend(c) = held \o <<>>
    BY <1>8 DEF ToSend
  <2>2. ToSend(c) = held
    BY <1>6, <2>1, ConcatEmptySeq
  <2>3. call[c].lines \o ToSend(c) = Heard(c)
    BY <2>2 DEF Heard
  <2> QED
    BY <1>2, <1>4, <1>7, <1>8, <2>2, <2>3
<1>9. CASE l.is # "blank"
  <2>1. ToSend(c) = held \o <<l>>
    BY <1>9 DEF ToSend
  <2>2. call[c].lines \o ToSend(c) = Heard(c) \o <<l>>
    <3>1. (call[c].lines \o held) \o <<l>> = call[c].lines \o (held \o <<l>>)
      <4> DEFINE ls == call[c].lines
                 ll == <<l>>
      <4>1. ls \in Seq(Line) /\ held \in Seq(Line) /\ ll \in Seq(Line)
        BY <1>5, <1>6
      <4> HIDE DEF held, ls, ll
      <4>2. (ls \o held) \o ll = ls \o (held \o ll)
        BY <4>1, ConcatAssociative
      <4> QED
        BY <4>2 DEF ls, ll
    <3>2. Heard(c) = call[c].lines \o held
      BY DEF Heard
    <3> QED
      BY <2>1, <3>1, <3>2
  <2>3. ToSend(c) = IF call[c].pending THEN <<b, l>> ELSE <<l>>
    <3>1. CASE call[c].pending
      <4>1. ToSend(c) = <<b>> \o <<l>>
        BY <2>1, <3>1
      <4>2. <<b>> \o <<l>> = <<b, l>>
        BY <1>3, <1>5, TwoLines
      <4> QED
        BY <3>1, <4>1, <4>2
    <3>2. CASE ~call[c].pending
      BY <1>6, <2>1, <3>2, ConcatEmptySeq
    <3> QED
      BY <3>1, <3>2
  <2> QED
    BY <1>2, <1>4, <1>7, <1>9, <2>2, <2>3
<1> QED
  BY <1>8, <1>9

LEMMA SendLineHolds ==
    ASSUME IInv, TypeOK', NEW c \in Call, SendLine(c)
    PROVE  IInv'
<1> DEFINE b == TextOf(c, "blank")
           l == Head(out)
<1>1. /\ UNCHANGED <<mu, broken, buf, marker, found, stdin, err, bash, printed>>
      /\ Scanned(c) /\ ~IsMarker(l, c) /\ ~call[c].sendErr
  BY DEF SendLine
<1>2. /\ \A d \in Call \ {c} : call'[d] = call[d]
      /\ call'[c].pc = "scan" /\ call'[c].code = call[c].code
      /\ call'[c].sendErr = call[c].sendErr
      /\ call'[c].lines = call[c].lines \o ToSend(c)
      /\ call'[c].pending <=> l.is = "blank"
  <2>1. call \in [Call -> CallRecord]
    BY TypesInParts DEF IInv, CallTypes
  <2>2. call'[c] = [call[c] EXCEPT !.lines = @ \o ToSend(c),
                                   !.pending = Head(out).is = "blank"]
    BY <2>1 DEF SendLine
  <2>3. call[c].pc = "scan"
    BY <1>1 DEF Scanned
  <2>4. /\ call'[c].pc = "scan" /\ call'[c].code = call[c].code
        /\ call'[c].sendErr = call[c].sendErr
        /\ call'[c].lines = call[c].lines \o ToSend(c)
    BY <2>1, <2>2, <2>3 DEF CallRecord
  <2>5. call'[c].pending = (Head(out).is = "blank")
    BY <2>1, <2>2, Zenon DEF CallRecord
  <2>6. \A d \in Call \ {c} : call'[d] = call[d]
    BY <2>1 DEF SendLine
  <2> QED
    BY <2>4, <2>6, <2>5
<1>3. ASSUME Straight
      PROVE  /\ IsPrefix(call'[c].lines, printed[c].out)
             /\ Hearing(c)' /\ HeldBack(c)'
  <2>1. /\ OwnPipe(c) /\ Hearing(c) /\ HeldBack(c)
        /\ l.is = "blank" =>
              /\ l = b
              /\ ToSend(c) = IF call[c].pending THEN <<b>> ELSE <<>>
              /\ call[c].lines \o ToSend(c) = Heard(c)
              /\ IsPrefix(Heard(c), printed[c].out)
        /\ l.is # "blank" =>
              /\ ToSend(c) = IF call[c].pending THEN <<b, l>> ELSE <<l>>
              /\ call[c].lines \o ToSend(c) = Heard(c) \o <<l>>
              /\ IsPrefix(Heard(c) \o <<l>>, printed[c].out)
    BY <1>1, <1>3, SendsWhatItHears
  <2>2. /\ call[c].lines \in Seq(Line) /\ Heard(c) \in Seq(Line)
        /\ out \in Seq(Line) /\ l \in Line /\ <<l>> \in Seq(Line)
    <3>1. l \in Line
      BY <1>1, ToSendType DEF IInv, Scanned
    <3> QED
      BY <3>1, LinesTypes DEF IInv
  <2>3. IsPrefix(call'[c].lines, printed[c].out)
    BY <1>2, <2>1
  <2>4. Heard(c)' = Heard(c) \o <<l>>
    <3>1. CASE l.is = "blank"
      BY <1>2, <2>1, <3>1 DEF Heard
    <3>2. CASE l.is # "blank"
      <4>1. Heard(c) \o <<l>> \in Seq(Line)
        BY <2>2, ConcatProperties
      <4>2. (Heard(c) \o <<l>>) \o <<>> = Heard(c) \o <<l>>
        BY <4>1, ConcatEmptySeq
      <4> QED
        BY <1>2, <2>1, <3>2, <4>2 DEF Heard
    <3> QED
      BY <3>1, <3>2
  <2>5. Heard(c)' \o out' = Heard(c) \o out
    BY <1>1, <2>2, <2>4, HeadMovesOver DEF Scanned
  <2>6. Hearing(c)'
    BY <1>1, <2>1, <2>5 DEF Hearing, MakeUp
  <2>7. HeldBack(c)'
    <3> SUFFICES ASSUME l.is # "blank"
                 PROVE  call'[c].lines[Len(call'[c].lines)].is # "blank"
      BY <1>2 DEF HeldBack
    <3>1. call'[c].lines = Heard(c) \o <<l>>
      BY <1>2, <2>1
    <3>2. call'[c].lines = Append(Heard(c), l)
      BY <2>2, <3>1, AppendIsConcat
    <3>3. call'[c].lines[Len(call'[c].lines)] = l
      BY <2>2, <3>2, AppendProperties
    <3> QED
      BY <3>3
  <2> QED
    BY <2>3, <2>6, <2>7
<1> QED
  BY <1>1, <1>2, <1>3, LineHolds

\* A line that cannot be sent may leave an empty line before it sent.
LEMMA SendFailsHolds ==
    ASSUME IInv, TypeOK', NEW c \in Call, SendFails(c)
    PROVE  IInv'
<1> DEFINE b == TextOf(c, "blank")
           l == Head(out)
<1>1. /\ UNCHANGED <<mu, buf, marker, found, stdin, err, bash, printed>> /\ broken'
      /\ Scanned(c) /\ ~IsMarker(l, c) /\ ~call[c].sendErr
  BY DEF SendFails
<1>2. PICK n \in 0..Len(ToSend(c)) - 1 :
          call' = [call EXCEPT ![c].lines = @ \o SubSeq(ToSend(c), 1, n),
                               ![c].sendErr = TRUE]
  BY DEF SendFails
<1>3. /\ \A d \in Call \ {c} : call'[d] = call[d]
      /\ call'[c].pc = "scan" /\ call'[c].code = call[c].code /\ call'[c].sendErr
      /\ call'[c].lines = call[c].lines \o SubSeq(ToSend(c), 1, n)
  <2>1. call \in [Call -> CallRecord]
    BY TypesInParts DEF IInv, CallTypes
  <2>2. call'[c] = [call[c] EXCEPT !.lines = @ \o SubSeq(ToSend(c), 1, n),
                                   !.sendErr = TRUE]
    BY <1>2, <2>1
  <2>3. call[c].pc = "scan"
    BY <1>1 DEF Scanned
  <2>4. /\ call'[c].pc = "scan" /\ call'[c].code = call[c].code /\ call'[c].sendErr
        /\ call'[c].lines = call[c].lines \o SubSeq(ToSend(c), 1, n)
    BY <2>1, <2>2, <2>3 DEF CallRecord
  <2>5. \A d \in Call \ {c} : call'[d] = call[d]
    BY <1>2, <2>1
  <2> QED
    BY <2>4, <2>5
<1>4. ASSUME Straight
      PROVE  IsPrefix(call'[c].lines, printed[c].out)
  <2>1. /\ l.is = "blank" =>
              /\ ToSend(c) = IF call[c].pending THEN <<b>> ELSE <<>>
        /\ l.is # "blank" =>
              /\ ToSend(c) = IF call[c].pending THEN <<b, l>> ELSE <<l>>
        /\ IsPrefix(Heard(c), printed[c].out)
    BY <1>1, <1>4, SendsWhatItHears
  <2>2. IsPrefix(call[c].lines, printed[c].out)
    <3>1. mu = c /\ call[c].pc = "scan"
      BY <1>1, HolderIs DEF IInv, Scanned, Holding
    <3> QED
      BY <1>4, <3>1 DEF IInv, Streamed
  <2>3. CASE n = 0
    <3>1. SubSeq(ToSend(c), 1, n) = <<>>
      BY <2>3, SubSeqEmpty
    <3>2. call'[c].lines = call[c].lines
      BY <1>3, <3>1, LinesTypes, ConcatEmptySeq DEF IInv
    <3> QED
      BY <2>2, <3>2
  <2>4. CASE n # 0
    <3>1. Len(<<b>>) = 1 /\ Len(<<l>>) = 1 /\ Len(<<>>) = 0 /\ Len(<<b, l>>) = 2
      OBVIOUS
    <3>2. ToSend(c) \in {<<>>, <<b>>, <<l>>} \/ (call[c].pending /\ ToSend(c) = <<b, l>>)
      <4> HIDE DEF b, l
      <4>1. CASE l.is = "blank"
        BY <2>1, <4>1
      <4>2. CASE l.is # "blank"
        BY <2>1, <4>2
      <4> QED
        BY <4>1, <4>2
    <3>3. Len(ToSend(c)) # 0 /\ Len(ToSend(c)) # 1
      <4>1. ToSend(c) \in Seq(Line)
        BY <1>1, ToSendType DEF IInv, Scanned
      <4>2. Len(ToSend(c)) \in Nat
        BY <4>1, LenProperties
      <4> DEFINE k == Len(ToSend(c))
      <4>3. k \in Nat /\ n \in 0..k - 1
        BY <4>2
      <4> HIDE DEF k
      <4>4. k # 0 /\ k # 1
        BY <2>4, <4>3
      <4> QED
        BY <4>4 DEF k
    <3>4. call[c].pending /\ ToSend(c) = <<b, l>>
      <4> HIDE DEF b, l
      <4> QED
        BY <3>1, <3>2, <3>3
    <3>5. n = 1
      BY <2>4, <3>1, <3>4
    <3>6. SubSeq(ToSend(c), 1, n) = <<b>>
      BY <3>5, <3>4, HeadOfTwo
    <3>7. call'[c].lines = Heard(c)
      BY <1>3, <3>4, <3>6 DEF Heard
    <3> QED
      BY <2>1, <3>7
  <2> QED
    BY <2>3, <2>4
<1> QED
  BY <1>1, <1>3, <1>4, LineHolds

\* A call is answered once readStderr has met its marker, which it prints only on a
\* stderr of its own.
LEMMA AwaitHolds ==
    ASSUME IInv, TypeOK', NEW c \in Call, Await(c)
    PROVE  IInv'
<1> USE DEF IInv
<1>1. /\ UNCHANGED <<buf, marker, found, stdin, out, err, bash, printed>>
      /\ broken' = (broken /\ ~call[c].sendErr) /\ mu' = NoCall
      /\ call[c].pc = "await" /\ c \in found
  BY DEF Await, bashVars
<1>2. mu = c
  BY <1>1, HolderIs DEF Holding
<1>3. /\ \A d \in Call \ {c} : call'[d] = call[d]
      /\ call'[c].pc = "ended" /\ call'[c].stderr = buf
      /\ call'[c].result = IF call[c].sendErr THEN "dropped" ELSE "ok"
      /\ call'[c].lines = call[c].lines /\ call'[c].code = call[c].code
  <2>1. call \in [Call -> CallRecord]
    BY TypesInParts DEF CallTypes
  <2>2. call'[c] = [call[c] EXCEPT !.pc = "ended", !.stderr = buf,
                       !.result = IF call[c].sendErr THEN "dropped" ELSE "ok"]
    BY <2>1 DEF Await
  <2>3. /\ call'[c].pc = "ended" /\ call'[c].stderr = buf
        /\ call'[c].result = IF call[c].sendErr THEN "dropped" ELSE "ok"
        /\ call'[c].lines = call[c].lines /\ call'[c].code = call[c].code
    BY <2>1, <2>2 DEF CallRecord
  <2>4. \A d \in Call \ {c} : call'[d] = call[d]
    BY <2>1 DEF Await
  <2> QED
    BY <2>3, <2>4
<1>4. Quiet /\ printed[c].over /\ Straight
  BY <1>1, <1>2 DEF Turn, Scripts, Marks, Met, Lost
<1>5. /\ out = <<>> /\ IsPrefix(call[c].lines, printed[c].out)
      /\ ~call[c].sendErr => call[c].lines = printed[c].out
      /\ bash.tricks = 0 => call[c].code = c
  BY <1>1, <1>2, <1>4 DEF Streamed
<1>6. bash.tricks = 0 => err = <<>> /\ buf = printed[c].err
  BY <1>1, <1>2 DEF Collected, Collecting
<1>7. mu' \notin Call /\ mu' # Closer
  BY <1>1, CallAssumption
<1>8. Printed' /\ Tricks'
  BY <1>1 DEF Printed, Tricks
<1>9. Scripts'
  <2>1. ASSUME NEW d \in Call
        PROVE  /\ Unwritten(d)' => Unwritten(d) /\ call'[d] = call[d]
               /\ Pending(d)' => Pending(d) /\ call'[d] = call[d]
               /\ call'[d].pc = "await" \/ Ended(d, {"ok", "dropped"})' =>
                     printed[d].over
    <3>1. CASE d = c
      <4>1. ~Pending(c)
        BY <1>4 DEF Scripts
      <4> QED
        BY <1>1, <1>3, <1>4, <3>1, <4>1 DEF Unwritten, Pending
    <3>2. CASE d # c
      BY <1>1, <1>3, <3>2 DEF Unwritten, Ended, Pending, Scripts
    <3> QED
      BY <3>1, <3>2
  <2>2. \A d \in Call : Ended(d, {"overlong", "eof"}) => Ended(d, {"overlong", "eof"})'
    BY <1>1, <1>3 DEF Ended
  <2> QED
    BY <1>1, <2>1, <2>2 DEF Scripts
<1>10. Turn'
  BY <1>1, <1>4, <1>7 DEF Turn, Quiet
<1>11. Marks'
  <2>1. \A d \in Call : Met(d)' => Met(d)
    BY <1>1 DEF Met, IsMarker
  <2>2. \A d \in Call : call[d].pc = "ended" => call'[d].pc = "ended"
    BY <1>1, <1>3
  <2>3. \A d \in Call : Lost(d) => Lost(d)'
    BY <1>1, <1>3 DEF Lost, IsMarker
  <2> QED
    BY <1>1, <2>1, <2>2, <2>3 DEF Marks
<1>12. Streamed' /\ Collected'
  BY <1>1, <1>5, <1>6, <1>7 DEF Streamed, Collected
<1>13. GivenUp'
  <2>1. \A d \in Call : Ended(d, {"overlong"}) => Ended(d, {"overlong"})'
    BY <1>1, <1>3 DEF Ended
  <2> QED
    BY <1>1, <1>2, <2>1 DEF GivenUp
<1>14. OwnLines'
  <2>1. ASSUME NEW d \in Call
        PROVE  /\ Ended(d, {"ok"})' => call'[d].lines = printed[d].out
               /\ Ended(d, {"dropped"})' => IsPrefix(call'[d].lines, printed[d].out)
    <3>1. CASE d = c
      BY <1>3, <1>5, <3>1 DEF Ended
    <3>2. CASE d # c
      BY <1>3, <3>2 DEF OwnLines, Ended
    <3> QED
      BY <3>1, <3>2
  <2> QED
    BY <1>1, <2>1 DEF OwnLines
<1>15. OwnAnswer'
  <2>1. ASSUME NEW d \in Call, bash.tricks = 0, Ended(d, {"ok"})'
        PROVE  call'[d].stderr = printed[d].err /\ call'[d].code = d
    <3>1. CASE d = c
      BY <1>3, <1>5, <1>6, <2>1, <3>1 DEF Ended
    <3>2. CASE d # c
      BY <1>3, <2>1, <3>2 DEF OwnAnswer, Ended
    <3> QED
      BY <3>1, <3>2
  <2> QED
    BY <1>1, <2>1 DEF OwnAnswer
<1> QED
  BY <1>8, <1>9, <1>10, <1>11, <1>12, <1>13, <1>14, <1>15

-----------------------------------------------------------------------------
(* readStderr and Close *)

\* What is on stderr before a marker that arrives, and what it leaves.
LEMMA ErrLeaves ==
    ASSUME TypeOK, err # <<>>
    PROVE  /\ Len(err) \in Nat \ {0} /\ Head(err) = err[1] /\ 1 \in DOMAIN err
           /\ Head(err) \in Line /\ Tail(err) \in Seq(Line)
           /\ Len(Tail(err)) = Len(err) - 1
           /\ \A i \in DOMAIN Tail(err) :
                 i + 1 \in DOMAIN err /\ Tail(err)[i] = err[i + 1]
           /\ Append(buf, Head(err)) \o Tail(err) = buf \o err
<1>1. err \in Seq(Line) /\ buf \in Seq(Line)
  BY TypesInParts DEF PipeTypes, StateTypes
<1>2. Len(err) \in Nat \ {0} /\ Head(err) = err[1] /\ DOMAIN err = 1..Len(err)
  BY <1>1, EmptySeq, LenProperties
<1>3. /\ Head(err) \in Line /\ Tail(err) \in Seq(Line)
      /\ Len(Tail(err)) = Len(err) - 1
      /\ \A i \in 1..Len(Tail(err)) : Tail(err)[i] = err[i + 1]
  BY <1>1, HeadTailProperties
<1>4. DOMAIN Tail(err) = 1..Len(Tail(err))
  BY <1>3, LenProperties
<1>5. \A i \in 1..Len(Tail(err)) : i + 1 \in 1..Len(err)
  BY <1>2, <1>3
<1>6. Append(buf, Head(err)) = buf \o <<Head(err)>>
  BY <1>1, <1>3, AppendIsConcat
<1>7. (buf \o <<Head(err)>>) \o Tail(err) = buf \o err
  BY <1>1, HeadMovesOver
<1>8. \A i \in DOMAIN Tail(err) : i + 1 \in DOMAIN err /\ Tail(err)[i] = err[i + 1]
  BY <1>2, <1>3, <1>4, <1>5
<1>9. 1 \in DOMAIN err
  BY <1>2
<1>10. Append(buf, Head(err)) \o Tail(err) = buf \o err
  BY <1>6, <1>7
<1> QED
  BY <1>2, <1>3, <1>8, <1>9, <1>10

\* The marker comes after the lines of the command, and nothing after it.
LEMMA MarkerIsLast ==
    ASSUME NEW s \in Seq(Line), NEW t \in Seq(Line),
           NEW p \in Seq(Line), NEW rest \in Seq(Line), Len(rest) <= 1,
           MakeUp(s, t, p, rest), Len(t) # 0,
           \A i \in DOMAIN p : p[i] # t[1]
    PROVE  s = p /\ Len(t) = 1
<1>1. /\ Len(s) \in Nat /\ Len(p) \in Nat /\ Len(t) \in Nat \ {0}
      /\ DOMAIN p = 1..Len(p)
  BY LenProperties
<1>2. Len(rest) \in {0, 1}
  <2> DEFINE k == Len(rest)
  <2>1. k \in Nat /\ k <= 1
    BY LenProperties
  <2> HIDE DEF k
  <2>2. k \in {0, 1}
    BY <2>1
  <2> QED
    BY <2>2 DEF k
<1>3. /\ Len(s \o t) = Len(s) + Len(t)
      /\ \A i \in 1..(Len(s) + Len(t)) :
            (s \o t)[i] = IF i <= Len(s) THEN s[i] ELSE t[i - Len(s)]
  BY ConcatProperties
<1>4. /\ Len(p \o rest) = Len(p) + Len(rest)
      /\ \A i \in 1..(Len(p) + Len(rest)) :
            (p \o rest)[i] = IF i <= Len(p) THEN p[i] ELSE rest[i - Len(p)]
  BY <1>2, ConcatProperties
<1>5. s \o t = p \o rest
  BY DEF MakeUp
<1>6. Len(s) + Len(t) = Len(p) + Len(rest)
  BY <1>3, <1>4, <1>5
<1>7. (p \o rest)[Len(s) + 1] = t[1]
  <2>1. /\ Len(s) + 1 \in 1..(Len(s) + Len(t)) /\ ~(Len(s) + 1 <= Len(s))
        /\ Len(s) + 1 - Len(s) = 1
    BY <1>1
  <2> QED
    BY <1>3, <1>5, <2>1
<1>8. ~(Len(s) + 1 <= Len(p))
  <2> SUFFICES ASSUME Len(s) + 1 <= Len(p)
               PROVE  FALSE
    OBVIOUS
  <2>1. Len(s) + 1 \in 1..Len(p) /\ Len(s) + 1 \in 1..(Len(p) + Len(rest))
    BY <1>1, <1>2
  <2>2. p[Len(s) + 1] = t[1]
    BY <1>4, <1>7, <2>1
  <2> QED
    BY <1>1, <2>1, <2>2
<1>9. Len(s) = Len(p) /\ Len(t) = 1
  BY <1>1, <1>2, <1>6, <1>8
<1>10. \A i \in 1..Len(s) : s[i] = p[i]
  <2> TAKE i \in 1..Len(s)
  <2>1. i \in 1..(Len(s) + Len(t)) /\ i <= Len(s)
    BY <1>1
  <2>2. i \in 1..(Len(p) + Len(rest)) /\ i <= Len(p)
    BY <1>1, <1>2, <1>9
  <2>3. (s \o t)[i] = s[i] /\ (p \o rest)[i] = p[i]
    BY <1>3, <1>4, <2>1, <2>2
  <2> QED
    BY <1>5, <2>3
<1>11. s = p
  BY <1>9, <1>10, SeqEqual
<1> QED
  BY <1>9, <1>11

LEMMA ReadStderrHolds ==
    ASSUME IInv, TypeOK', ReadStderr
    PROVE  IInv'
<1> USE DEF IInv
<1>1. /\ UNCHANGED <<call, mu, broken, closing, stdin, out, bash, printed>>
      /\ err # <<>> /\ err' = Tail(err)
  BY DEF ReadStderr
<1>2. /\ Len(err) \in Nat \ {0} /\ Head(err) = err[1] /\ 1 \in DOMAIN err
      /\ Head(err) \in Line
      /\ Len(err') = Len(err) - 1
      /\ \A i \in DOMAIN err' : i + 1 \in DOMAIN err /\ err'[i] = err[i + 1]
      /\ Append(buf, Head(err)) \o err' = buf \o err
  BY <1>1, ErrLeaves
<1>3. \/ /\ marker # NoCall /\ IsMarker(Head(err), marker)
         /\ found' = found \cup {marker} /\ marker' = NoCall /\ buf' = buf
      \/ /\ ~(marker # NoCall /\ IsMarker(Head(err), marker))
         /\ buf' = Append(buf, Head(err)) /\ found' = found /\ marker' = marker
  BY DEF ReadStderr
<1>4. \A d \in Call : Met(d)' => Met(d)
  <2> SUFFICES ASSUME NEW d \in Call, Met(d)'
               PROVE  Met(d)
    OBVIOUS
  <2>1. ASSUME NEW i \in DOMAIN err', IsMarker(err'[i], d)
        PROVE  Met(d)
    BY <1>2, <2>1 DEF Met
  <2>2. CASE d \in found
    BY <2>2 DEF Met
  <2>3. CASE d \notin found /\ d \in found'
    <3>1. IsMarker(err[1], d)
      BY <1>2, <1>3, <2>3
    <3> QED
      BY <1>2, <3>1 DEF Met
  <2>4. d \in found' \/ \E i \in DOMAIN err' : IsMarker(err'[i], d)
    BY DEF Met, IsMarker
  <2> QED
    BY <2>1, <2>2, <2>3, <2>4
<1>5. Printed' /\ Tricks' /\ OwnLines' /\ OwnAnswer'
  BY <1>1 DEF Printed, Tricks, OwnLines, OwnAnswer, Ended
<1>6. Scripts'
  BY <1>1 DEF Scripts, Pending, Unwritten, Ended
<1>7. Turn' /\ GivenUp'
  BY <1>1 DEF Turn, Quiet, GivenUp, Ended
<1>8. Marks'
  BY <1>1, <1>4 DEF Marks, Lost, IsMarker
<1>9. Streamed'
  <2>1. mu \in Call => /\ Hearing(mu)' <=> Hearing(mu)
                       /\ HeldBack(mu)' <=> HeldBack(mu)
                       /\ OwnPipe(mu) => OwnPipe(mu)'
    BY <1>1, StillHearing
  <2> QED
    BY <1>1, <2>1 DEF Streamed
<1>10. Collected'
  <2> SUFFICES ASSUME bash.tricks = 0, mu \in Call, call[mu].pc \in {"scan", "await"}
               PROVE  Collecting(mu)'
    BY <1>1 DEF Collected
  <2> DEFINE m == MarkerOf(mu, NoCall)
             p == printed[mu].err
  <2>1. Collecting(mu)
    BY DEF Collected
  <2>2. /\ marker = mu /\ mu \notin found
        /\ buf \o err = p \/ (printed[mu].over /\ buf \o err = p \o <<m>>)
    BY <1>1, <2>1 DEF Collecting
  <2>3. CASE marker # NoCall /\ IsMarker(Head(err), marker)
    <3>1. buf \in Seq(Line) /\ err \in Seq(Line) /\ p \in Seq(Line)
      BY LinesTypes
    <3>2. p \o <<>> = p
      BY <3>1, ConcatEmptySeq
    <3>3. \E rest \in Seq(Line) : Len(rest) <= 1 /\ MakeUp(buf, err, p, rest)
      <4>1. CASE buf \o err = p
        <5>1. <<>> \in Seq(Line) /\ Len(<<>>) <= 1 /\ MakeUp(buf, err, p, <<>>)
          BY <3>2, <4>1 DEF MakeUp
        <5> QED
          BY <5>1
      <4>2. CASE buf \o err = p \o <<m>>
        <5>1. m \in Line
          BY LineTypes
        <5>2. <<m>> \in Seq(Line) /\ Len(<<m>>) <= 1 /\ MakeUp(buf, err, p, <<m>>)
          BY <4>2, <5>1 DEF MakeUp
        <5> QED
          BY <5>2
      <4> QED
        BY <2>2, <4>1, <4>2
    <3>4. \A i \in DOMAIN p : p[i] # err[1]
      BY <1>2, <2>3 DEF Printed, IsMarker
    <3>5. buf = p /\ Len(err) = 1
      <4>1. Len(err) # 0
        BY <1>2
      <4> HIDE DEF p
      <4> QED
        BY <3>1, <3>3, <3>4, <4>1, MarkerIsLast
    <3>6. err' = <<>>
      <4>1. err' \in Seq(Line) /\ Len(err') = 0
        BY <1>2, <3>5 DEF TypeOK
      <4> QED
        BY <4>1, EmptySeq
    <3>7. printed[mu].over
      BY <1>2, <2>2, <2>3 DEF Marks, Met
    <3> QED
      BY <1>1, <1>3, <2>2, <2>3, <3>5, <3>6, <3>7 DEF Collecting
  <2>4. CASE ~(marker # NoCall /\ IsMarker(Head(err), marker))
    <3>1. buf' \o err' = buf \o err
      BY <1>2, <1>3, <2>4
    <3>2. found' = found /\ marker' = marker
      BY <1>3, <2>4
    <3> QED
      BY <1>1, <2>2, <3>1, <3>2 DEF Collecting
  <2> QED
    BY <2>3, <2>4
<1> QED
  BY <1>5, <1>6, <1>7, <1>8, <1>9, <1>10

\* Close writes "exit" to a shell that nobody uses.
LEMMA CloseHolds ==
    ASSUME IInv, TypeOK', Close
    PROVE  IInv'
<1> USE DEF IInv
<1>1. /\ UNCHANGED <<call, broken, buf, marker, found, out, err, bash, printed>>
      /\ mu = NoCall /\ mu' = Closer
      /\ stdin' = IF bash.up THEN Append(stdin, Closer) ELSE stdin
  BY DEF Close
<1>2. mu \notin Call /\ mu' \notin Call /\ mu' # NoCall /\ Closer \notin Call
  BY <1>1, CallAssumption
<1>3. ASSUME NEW i \in DOMAIN stdin', stdin'[i] \in Call
      PROVE  i \in DOMAIN stdin /\ stdin'[i] = stdin[i]
  <2>1. stdin \in Seq(Call \cup {Closer})
    BY TypesInParts DEF PipeTypes
  <2>2. CASE bash.up
    <3>1. /\ stdin' \in Seq(Call \cup {Closer})
          /\ Len(stdin') = Len(stdin) + 1
          /\ \A j \in 1..Len(stdin) : stdin'[j] = stdin[j]
          /\ stdin'[Len(stdin) + 1] = Closer
      BY <1>1, <2>1, <2>2, AppendProperties
    <3>2. DOMAIN stdin = 1..Len(stdin) /\ DOMAIN stdin' = 1..Len(stdin')
          /\ Len(stdin) \in Nat
      BY <2>1, <3>1, LenProperties
    <3>3. i # Len(stdin) + 1
      BY <1>2, <1>3, <3>1
    <3> QED
      BY <3>1, <3>2, <3>3
  <2>3. CASE ~bash.up
    BY <1>1, <2>3
  <2> QED
    BY <2>2, <2>3
<1>4. Printed' /\ Tricks' /\ OwnLines' /\ OwnAnswer'
  BY <1>1 DEF Printed, Tricks, OwnLines, OwnAnswer, Ended
<1>5. Scripts'
  <2>1. \A d \in Call : Pending(d)' => Pending(d)
    BY <1>1, <1>3 DEF Pending
  <2>2. \A d \in Call : (Unwritten(d)' <=> Unwritten(d))
    BY <1>1 DEF Unwritten
  <2> QED
    BY <1>1, <1>3, <2>1, <2>2 DEF Scripts, Ended
<1>6. Turn'
  <2> SUFFICES ASSUME ~broken
               PROVE  bash.at = NoCall /\ stdin' = IF bash.up THEN <<Closer>> ELSE <<>>
    BY <1>1, <1>2 DEF Turn
  <2>1. stdin = <<>> /\ bash.at = NoCall
    BY <1>1 DEF Turn, Quiet
  <2> QED
    BY <1>1, <2>1
<1>7. Marks'
  BY <1>1 DEF Marks, Met, IsMarker, Lost
<1>8. Streamed' /\ Collected' /\ GivenUp'
  BY <1>1, <1>2 DEF Streamed, Collected, GivenUp, Ended
<1> QED
  BY <1>4, <1>5, <1>6, <1>7, <1>8

\* The pipes are closed with bash.
LEMMA WaitedHolds ==
    ASSUME IInv, TypeOK', Waited
    PROVE  IInv'
<1> USE DEF IInv
<1>1. /\ UNCHANGED <<call, broken, buf, marker, found, stdin, bash, printed>>
      /\ mu = Closer /\ mu' = NoCall /\ ~bash.up
      /\ out' = <<>> /\ err' = <<>>
  BY DEF Waited, TypeOK
<1>2. mu \notin Call /\ mu' \notin Call /\ mu' # Closer
  BY <1>1, CallAssumption
<1>3. Printed' /\ Tricks' /\ OwnLines' /\ OwnAnswer'
  BY <1>1 DEF Printed, Tricks, OwnLines, OwnAnswer, Ended
<1>4. Scripts'
  BY <1>1 DEF Scripts, Pending, Unwritten, Ended
<1>5. Turn'
  BY <1>1, <1>2 DEF Turn, Quiet
<1>6. Marks'
  <2>1. \A d \in Call : Met(d)' => Met(d)
    BY <1>1 DEF Met
  <2>2. \A d \in Call : Lost(d) => Lost(d)'
    BY <1>1 DEF Lost
  <2> QED
    BY <1>1, <2>1, <2>2 DEF Marks
<1>7. Streamed' /\ Collected' /\ GivenUp'
  BY <1>1, <1>2 DEF Streamed, Collected, GivenUp, Ended
<1> QED
  BY <1>3, <1>4, <1>5, <1>6, <1>7

-----------------------------------------------------------------------------
(* bash *)

\* Of a script there is no second one, and no other.
LEMMA OneScript ==
    ASSUME IInv, NEW c \in Call, Pending(c)
    PROVE  /\ ~printed[c].over
           /\ call[c].pc = "scan" \/ Ended(c, {"overlong", "eof"})
           /\ mu \in Call => mu = c /\ call[c].pc = "scan"
           /\ mu = NoCall \/ mu = Closer => broken
<1> USE DEF IInv
<1>1. ~printed[c].over /\ (call[c].pc = "scan" \/ Ended(c, {"overlong", "eof"}))
  BY DEF Scripts
<1>2. ~Quiet
  BY CallAssumption DEF Quiet, Pending
<1>3. ASSUME mu \in Call
      PROVE  mu = c /\ call[c].pc = "scan"
  <2>1. call[mu].pc = "scan"
    BY <1>2, <1>3 DEF Turn
  <2>2. \/ stdin = <<mu>> /\ bash.at = NoCall
        \/ stdin = <<>> /\ bash.at = mu
    BY <1>2, <1>3, <2>1 DEF Turn
  <2>3. mu = c
    BY <2>2, CallAssumption DEF Pending
  <2> QED
    BY <2>1, <2>3
<1>4. ASSUME mu = NoCall \/ mu = Closer, ~broken
      PROVE  FALSE
  <2>1. mu = Closer
    BY <1>2, <1>4 DEF Turn
  <2>2. bash.at = NoCall /\ (stdin = <<Closer>> \/ stdin = <<>>)
    BY <1>4, <2>1 DEF Turn
  <2> QED
    BY <2>2, CallAssumption DEF Pending
<1> QED
  BY <1>1, <1>3, <1>4

\* bash takes the next script; with "exit" it goes.
LEMMA TakeHolds ==
    ASSUME IInv, TypeOK', Take
    PROVE  IInv'
<1> USE DEF IInv
<1>1. /\ UNCHANGED <<call, mu, broken, buf, marker, found, out, err, printed>>
      /\ bash.up /\ bash.at = NoCall /\ stdin # <<>> /\ stdin' = Tail(stdin)
  BY DEF Take, goVars
<1>2. /\ Len(stdin) \in Nat \ {0} /\ Head(stdin) = stdin[1] /\ DOMAIN stdin = 1..Len(stdin)
      /\ stdin[1] \in Call \cup {Closer}
      /\ Len(stdin') = Len(stdin) - 1 /\ DOMAIN stdin' = 1..Len(stdin')
      /\ \A i \in 1..Len(stdin') : stdin'[i] = stdin[i + 1]
  <2>1. stdin \in Seq(Call \cup {Closer}) /\ stdin' \in Seq(Call \cup {Closer})
    BY TypesInParts DEF PipeTypes
  <2>2. Len(stdin) \in Nat \ {0} /\ Head(stdin) = stdin[1] /\ DOMAIN stdin = 1..Len(stdin)
    BY <1>1, <2>1, EmptySeq, LenProperties
  <2>3. /\ Head(stdin) \in Call \cup {Closer} /\ Len(stdin') = Len(stdin) - 1
        /\ \A i \in 1..Len(stdin') : stdin'[i] = stdin[i + 1]
    BY <1>1, <2>1, HeadTailProperties
  <2>4. DOMAIN stdin' = 1..Len(stdin')
    BY <2>1, LenProperties
  <2> QED
    BY <2>2, <2>3, <2>4
<1>3. \A i \in DOMAIN stdin' : stdin'[i] \notin Call
  <2> SUFFICES ASSUME NEW i \in DOMAIN stdin', stdin'[i] \in Call
               PROVE  FALSE
    OBVIOUS
  <2>1. i \in 1..Len(stdin') /\ i + 1 \in 1..Len(stdin) /\ stdin[i + 1] \in Call /\ i + 1 # 1
    BY <1>2
  <2> QED
    BY <1>2, <2>1 DEF Scripts
<1>4. /\ bash' \in [up : BOOLEAN, at : Call \cup {NoCall}, ec : Call \cup {NoCall},
                   ate : BOOLEAN, stdout : {"pipe", "nowhere"},
                   stderr : {"pipe", "traced", "stdout", "nowhere"},
                   held : BOOLEAN, tricks : 0..MaxTricks]
      /\ bash'.ec = bash.ec /\ bash'.ate = bash.ate /\ bash'.stderr = bash.stderr
      /\ bash'.stdout = bash.stdout
      /\ bash'.tricks = bash.tricks
      /\ IF Head(stdin) = Closer THEN ~bash'.up /\ bash'.at = NoCall
                                 ELSE bash'.up /\ bash'.at = Head(stdin)
  <2>1. bash \in [up : BOOLEAN, at : Call \cup {NoCall}, ec : Call \cup {NoCall},
                 ate : BOOLEAN, stdout : {"pipe", "nowhere"},
                 stderr : {"pipe", "traced", "stdout", "nowhere"},
                 held : BOOLEAN, tricks : 0..MaxTricks]
    BY TypesInParts DEF BashTypes
  <2>2. CASE Head(stdin) = Closer
    <3>1. bash' = [bash EXCEPT !.up = FALSE]
      BY <2>2 DEF Take
    <3> QED
      BY <1>1, <2>1, <2>2, <3>1
  <2>3. CASE Head(stdin) # Closer
    <3>1. bash' = [bash EXCEPT !.at = Head(stdin)] /\ Head(stdin) \in Call
      BY <1>2, <2>3 DEF Take
    <3> QED
      BY <1>1, <2>1, <2>3, <3>1
  <2> QED
    BY <2>2, <2>3
<1>5. \A d \in Call : Pending(d)' => Pending(d)
  <2> SUFFICES ASSUME NEW d \in Call, Pending(d)'
               PROVE  Pending(d)
    OBVIOUS
  <2>1. bash'.at = d
    BY <1>3 DEF Pending
  <2>2. d = Head(stdin)
    BY <1>4, <2>1, CallAssumption
  <2> QED
    BY <1>2, <2>2 DEF Pending
<1>6. Printed' /\ Tricks' /\ OwnLines' /\ OwnAnswer'
  <2>1. Tricks'
    BY <1>4 DEF Tricks
  <2> QED
    BY <1>1, <1>4, <2>1 DEF Printed, OwnLines, OwnAnswer, Ended
<1>7. Scripts'
  <2>1. \A d \in Call : (Unwritten(d)' <=> Unwritten(d))
    BY <1>1 DEF Unwritten
  <2> QED
    BY <1>1, <1>3, <1>5, <2>1 DEF Scripts, Ended
<1>8. Turn'
  <2>1. ~Quiet
    BY <1>1 DEF Quiet
  <2>2. CASE mu \in Call
    <3>1. call[mu].pc = "scan" /\ stdin = <<mu>> /\ ~printed[mu].over
      BY <1>1, <2>1, <2>2, CallAssumption DEF Turn
    <3>2. stdin' = <<>> /\ Head(stdin) = mu
      BY <1>1, <3>1
    <3>3. mu # Closer /\ mu # NoCall
      BY <2>2, CallAssumption
    <3>4. bash'.at = mu
      BY <1>4, <3>2, <3>3
    <3> QED
      BY <1>1, <3>1, <3>2, <3>3, <3>4 DEF Turn
  <2>3. CASE mu = Closer /\ ~broken
    <3>1. stdin = <<Closer>>
      BY <1>1, <2>3 DEF Turn
    <3>2. stdin' = <<>> /\ Head(stdin) = Closer
      BY <1>1, <3>1
    <3>3. mu \notin Call /\ mu # NoCall
      BY <2>3, CallAssumption
    <3> QED
      BY <1>1, <1>4, <2>3, <3>2, <3>3 DEF Turn
  <2>4. CASE mu \notin Call /\ broken
    BY <1>1, <2>4 DEF Turn
  <2>5. mu = NoCall => broken
    BY <2>1 DEF Turn
  <2>6. mu \in Call \/ mu = NoCall \/ mu = Closer
    BY TypesInParts DEF MuTypes
  <2> QED
    BY <2>2, <2>3, <2>4, <2>5, <2>6, CallAssumption
<1>9. Marks'
  <2>1. \A d \in Call : Met(d)' => Met(d)
    BY <1>1 DEF Met, IsMarker
  <2>2. \A d \in Call : Lost(d) => Lost(d)'
    BY <1>1 DEF Lost, IsMarker
  <2> QED
    BY <1>1, <1>4, <2>1, <2>2 DEF Marks
<1>10. Streamed'
  <2>1. mu \in Call => /\ Hearing(mu)' <=> Hearing(mu)
                       /\ HeldBack(mu)' <=> HeldBack(mu)
                       /\ OwnPipe(mu) => OwnPipe(mu)'
    BY <1>1, <1>4, StillHearing
  <2> QED
    BY <1>1, <1>4, <2>1 DEF Streamed
<1>11. Collected'
  BY <1>1, <1>4 DEF Collected, Collecting
<1>12. GivenUp'
  BY <1>1, <1>4 DEF GivenUp, Ended
<1> QED
  BY <1>6, <1>7, <1>8, <1>9, <1>10, <1>11, <1>12

\* While a command runs: whoever holds mu is the call that scans for it.
LEMMA RunningIs ==
    ASSUME IInv, NEW c \in Call, Running(c)
    PROVE  /\ bash.up /\ bash.at = c /\ c # NoCall /\ c # Closer
           /\ ~printed[c].over
           /\ call[c].pc = "scan" \/ Ended(c, {"overlong", "eof"})
           /\ mu \in Call => mu = c /\ call[c].pc = "scan" /\ stdin = <<>>
           /\ mu \notin Call => broken
           /\ \A i \in DOMAIN stdin : stdin[i] \notin Call
           /\ \A d \in Call \ {c} : printed[d].over => call[d].pc = "ended"
<1>1. bash.up /\ bash.at = c /\ c # NoCall /\ c # Closer
  BY CallAssumption DEF Running
<1>2. Pending(c)
  BY <1>1 DEF Pending
<1>3. /\ ~printed[c].over
      /\ call[c].pc = "scan" \/ Ended(c, {"overlong", "eof"})
      /\ mu \in Call => mu = c /\ call[c].pc = "scan"
      /\ mu = NoCall \/ mu = Closer => broken
  BY <1>2, OneScript
<1>4. mu \in Call \cup {NoCall, Closer}
  BY DEF IInv, TypeOK
<1>5. mu \in Call => stdin = <<>>
  BY <1>1, <1>3 DEF IInv, Turn, Quiet
<1>6. \A i \in DOMAIN stdin : stdin[i] \notin Call
  BY <1>1 DEF IInv, Scripts
<1>7. ASSUME NEW d \in Call \ {c}, printed[d].over
      PROVE  call[d].pc = "ended"
  <2>1. ~Unwritten(d)
    BY <1>7 DEF IInv, Scripts
  <2>2. call[d].pc \notin Holding
    BY <1>3, HolderIs DEF IInv
  <2>3. call[d].pc \in Pc
    BY DEF IInv, TypeOK
  <2> QED
    BY <2>1, <2>2, <2>3 DEF Unwritten, Holding, Pc
<1> QED
  BY <1>1, <1>3, <1>4, <1>5, <1>6, <1>7

\* A step of the command, as far as all but the pipes go.
LEMMA CommandHolds ==
    ASSUME IInv, TypeOK', NEW c \in Call, Running(c),
           UNCHANGED <<call, mu, broken, marker, found, stdin>>,
           \A d \in Call \ {c} : printed'[d] = printed[d],
           Printed', Tricks',
           bash.tricks # 0 => bash'.tricks # 0,
           \/ bash'.at = c /\ ~printed'[c].over
           \/ bash'.at = NoCall /\ printed'[c].over,
           \A i \in DOMAIN out' : out'[i].is = "marker" =>
              \/ \E j \in DOMAIN out : out'[i] = out[j]
              \/ /\ out'[i].of = c /\ printed'[c].over
                 /\ bash'.stdout # "pipe" => out'[i].code = NoCall,
           \A d \in Call : Met(d)' =>
              Met(d) \/ (d = c /\ printed'[c].over /\ bash'.stderr # "stdout"),
           Straight' /\ mu = c =>
              /\ IsPrefix(call'[c].lines, printed'[c].out)
              /\ OwnPipe(c)'
              /\ ~call[c].sendErr => Hearing(c)' /\ HeldBack(c)',
           bash'.tricks = 0 /\ mu = c => Collecting(c)'
    PROVE  IInv'
<1> USE DEF IInv
<1>1. /\ bash.up /\ bash.at = c /\ c # NoCall /\ c # Closer
      /\ ~printed[c].over
      /\ call[c].pc = "scan" \/ Ended(c, {"overlong", "eof"})
      /\ mu \in Call => mu = c /\ call[c].pc = "scan" /\ stdin = <<>>
      /\ mu \notin Call => broken
      /\ \A i \in DOMAIN stdin : stdin[i] \notin Call
      /\ \A d \in Call \ {c} : printed[d].over => call[d].pc = "ended"
  BY RunningIs
<1>2. OwnLines' /\ OwnAnswer'
  <2>1. \A d \in Call : printed[d].over =>
            printed'[d].out = printed[d].out /\ printed'[d].err = printed[d].err
    BY <1>1
  <2> QED
    BY <2>1, AnswersOutlast
<1>3. Scripts'
  <2>1. ASSUME NEW d \in Call
        PROVE  /\ Unwritten(d)' => Unwritten(d) /\ d # c
               /\ Pending(d)' => d = c /\ ~printed'[c].over
               /\ call[d].pc = "await" \/ Ended(d, {"ok", "dropped"}) => d # c
    <3>1. Unwritten(d)' => Unwritten(d)
      BY DEF Unwritten
    <3>2. ~Unwritten(c) /\ call[c].pc # "await" /\ ~Ended(c, {"ok", "dropped"})
      BY <1>1 DEF Unwritten, Ended
    <3>3. Pending(d)' => bash'.at = d
      BY <1>1 DEF Pending
    <3>4. Pending(d)' => d = c /\ ~printed'[c].over
      BY <3>3, CallAssumption
    <3> QED
      BY <3>1, <3>2, <3>4
  <2>2. Ended(c, {"overlong", "eof"})' <=> Ended(c, {"overlong", "eof"})
    BY DEF Ended
  <2>3. \A d \in Call : Ended(d, {"ok", "dropped"})' <=> Ended(d, {"ok", "dropped"})
    BY DEF Ended
  <2> QED
    BY <1>1, <2>1, <2>2, <2>3 DEF Scripts
<1>4. Turn'
  <2>1. CASE mu \in Call
    <3>1. \/ stdin' = <<>> /\ bash'.at = mu /\ ~printed'[mu].over
          \/ Quiet' /\ printed'[mu].over
      BY <1>1, <2>1 DEF Quiet
    <3> QED
      BY <1>1, <2>1, <3>1, CallAssumption DEF Turn
  <2>2. CASE mu \notin Call
    BY <1>1, <2>2 DEF Turn
  <2> QED
    BY <2>1, <2>2
<1>5. Marks'
  <2>1. \A i \in DOMAIN out' : out'[i].is = "marker" => printed'[out'[i].of].over
    <3> SUFFICES ASSUME NEW i \in DOMAIN out', out'[i].is = "marker"
                 PROVE  printed'[out'[i].of].over
      OBVIOUS
    <3>1. CASE out'[i].of = c /\ printed'[c].over
      BY <3>1
    <3>2. ASSUME NEW j \in DOMAIN out, out'[i] = out[j]
          PROVE  printed'[out'[i].of].over
      <4>1. printed[out[j].of].over
        BY <3>2 DEF Marks
      <4>2. out[j] \in Line
        <5>1. out \in Seq(Line)
          BY DEF TypeOK
        <5> QED
          BY <5>1, LenProperties, ElementOfSeq
      <4>3. out[j].of \in Call
        BY <4>2 DEF Line
      <4> QED
        BY <1>1, <3>2, <4>1, <4>3
    <3> QED
      BY <3>1, <3>2
  <2>2. ASSUME NEW d \in Call, Met(d)'
        PROVE  printed'[d].over /\ (bash'.stderr = "stdout" => call'[d].pc = "ended")
    <3>1. CASE d = c /\ printed'[c].over /\ bash'.stderr # "stdout"
      BY <3>1
    <3>2. CASE Met(d)
      <4>1. printed[d].over
        BY <3>2 DEF Marks
      <4>2. d # c
        BY <1>1, <4>1
      <4> QED
        BY <1>1, <4>1, <4>2
    <3> QED
      BY <2>2, <3>1, <3>2
  <2>3. ASSUME bash'.stdout # "pipe", NEW d \in Call
        PROVE  Lost(d)'
    <3>1. CASE printed[d].over
      <4>1. d # c
        BY <1>1, <3>1
      <4> QED
        BY <1>1, <3>1, <4>1 DEF Lost
    <3>2. CASE ~printed[d].over
      <4>1. call[d].pc # "await"
        BY <3>2 DEF Scripts
      <4>2. ASSUME NEW i \in DOMAIN out', out'[i].is = "marker", out'[i].of = d
            PROVE  out'[i].code = NoCall
        <5>1. ~\E j \in DOMAIN out : out'[i] = out[j]
          BY <3>2, <4>2 DEF Marks
        <5> QED
          BY <2>3, <4>2, <5>1
      <4> QED
        BY <4>1, <4>2 DEF Lost, IsMarker
    <3> QED
      BY <3>1, <3>2
  <2> QED
    BY <2>1, <2>2, <2>3 DEF Marks
<1>6. Streamed'
  <2> SUFFICES ASSUME Straight'
               PROVE  Streamed'
    BY DEF Streamed
  <2> QED
    BY <1>1 DEF Streamed
<1>7. Collected'
  BY <1>1 DEF Collected
<1>8. GivenUp'
  BY <1>1 DEF GivenUp, Ended
<1> QED
  BY <1>2, <1>3, <1>4, <1>5, <1>6, <1>7, <1>8

\* Lines can be joined in either order.
Associate(s, t, r) == (s \o t) \o r = s \o (t \o r)

LEMMA LinesAssociate ==
    ASSUME NEW s \in Seq(Line), NEW t \in Seq(Line), NEW r \in Seq(Line)
    PROVE  Associate(s, t, r)
  BY ConcatAssociative DEF Associate

\* t is s and u after it.
Joined(t, s, u) == t = s \o u

\* What is printed joins what was printed before.
LEMMA MakesUpMore ==
    ASSUME NEW h \in Seq(Line), NEW q \in Seq(Line), NEW p \in Seq(Line),
           NEW u \in Seq(Line), NEW v \in Seq(Line), NEW w \in Seq(Line),
           NEW r, NEW t,
           Joined(p, h, q), Joined(w, u, v), Joined(r, q, w), Joined(t, p, u)
    PROVE  MakeUp(h, r, t, v)
<1>1. Associate(h, q, w) /\ Associate(p, u, v)
  BY LinesAssociate
<1> QED
  BY <1>1, Zenon DEF Associate, Joined, MakeUp

\* A command prints the lines u, and the script v after them: in all w.
Prints(c, u, v, w) ==
    /\ w = u \o v
    /\ out' = out \o w
    /\ printed'[c].out = printed[c].out \o u

\* What a command prints on a stdout of its own joins what it has printed before.
LEMMA PrintsOwn ==
    ASSUME IInv, NEW c \in Call, Running(c), Straight, mu = c,
           NEW u \in Seq(Line), NEW v \in Seq(Line), NEW w \in Seq(Line),
           Prints(c, u, v, w), call' = call, bash.tricks # 0 => bash'.tricks # 0,
           Tailing(c, printed'[c].out, v), ~printed'[c].over => Len(v) = 0,
           \A i \in DOMAIN w :
              /\ w[i].of = c
              /\ w[i].is = "blank" => w[i] = TextOf(c, "blank")
              /\ w[i].is = "marker" =>
                    i = Len(w) /\ (bash'.tricks = 0 => w[i].code = c)
    PROVE  /\ IsPrefix(call'[c].lines, printed'[c].out)
           /\ OwnPipe(c)'
           /\ ~call[c].sendErr => Hearing(c)' /\ HeldBack(c)'
<1> USE DEF IInv
<1>1. ~printed[c].over /\ call[c].pc = "scan"
  BY RunningIs
<1>2. /\ IsPrefix(call[c].lines, printed[c].out) /\ OwnPipe(c)
      /\ ~call[c].sendErr => Hearing(c) /\ HeldBack(c)
  BY <1>1 DEF Streamed
<1>3. /\ call[c].lines \in Seq(Line) /\ Heard(c) \in Seq(Line)
      /\ printed[c].out \in Seq(Line) /\ out \in Seq(Line)
  BY LinesTypes
<1>4. IsPrefix(call'[c].lines, printed'[c].out)
  <2> DEFINE ls == call[c].lines
             p == printed[c].out
  <2>1. ls \in Seq(Line) /\ p \in Seq(Line) /\ IsPrefix(ls, p)
    BY <1>2, <1>3
  <2> HIDE DEF ls, p
  <2>2. IsPrefix(ls, p \o u)
    BY <2>1, PrefixOfLonger
  <2> QED
    BY <2>2 DEF ls, p, Prints
<1>5. OwnPipe(c)'
  <2>1. \A i \in DOMAIN out : out[i].is # "marker"
    BY <1>1, <1>2 DEF Marks, OwnPipe
  <2>2. /\ Len(out') = Len(out) + Len(w) /\ out' \in Seq(Line)
        /\ \A i \in 1..(Len(out) + Len(w)) :
              out'[i] = IF i <= Len(out) THEN out[i] ELSE w[i - Len(out)]
    BY <1>3, ConcatProperties DEF Prints
  <2>3. /\ DOMAIN out' = 1..Len(out') /\ DOMAIN out = 1..Len(out)
        /\ DOMAIN w = 1..Len(w) /\ Len(out) \in Nat /\ Len(w) \in Nat
    BY <1>3, <2>2, LenProperties
  <2> SUFFICES ASSUME NEW i \in DOMAIN out'
               PROVE  /\ out'[i].of = c
                      /\ out'[i].is = "blank" => out'[i] = TextOf(c, "blank")
                      /\ out'[i].is = "marker" =>
                            i = Len(out') /\ (bash'.tricks = 0 => out'[i].code = c)
    BY DEF OwnPipe
  <2>4. CASE i <= Len(out)
    <3>1. i \in DOMAIN out /\ out'[i] = out[i]
      BY <2>2, <2>3, <2>4
    <3> QED
      BY <1>2, <2>1, <3>1 DEF OwnPipe
  <2>5. CASE ~(i <= Len(out))
    <3>1. i - Len(out) \in DOMAIN w /\ out'[i] = w[i - Len(out)]
      BY <2>2, <2>3, <2>5
    <3>2. i - Len(out) = Len(w) => i = Len(out')
      BY <2>2, <2>3
    <3> QED
      BY <3>1, <3>2
  <2> QED
    BY <2>4, <2>5
<1>6. ASSUME ~call[c].sendErr
      PROVE  Hearing(c)' /\ HeldBack(c)'
  <2>1. PICK rest \in Seq(Line) :
            rest = <<>> /\ MakeUp(Heard(c), out, printed[c].out, rest)
    BY <1>1, <1>2, <1>6 DEF Hearing
  <2> DEFINE h == Heard(c)
             p == printed[c].out
             q == out
  <2>2. h \in Seq(Line) /\ p \in Seq(Line) /\ q \in Seq(Line)
    BY <1>3
  <2>3. h \o q = p
    <3>1. p \o <<>> = p
      BY <2>2, ConcatEmptySeq
    <3> QED
      BY <2>1, <3>1 DEF MakeUp
  <2>4. Heard(c)' = h
    BY DEF Heard
  <2>5. Joined(w, u, v) /\ Joined(out', q, w) /\ Joined(printed'[c].out, p, u)
    BY DEF Prints, Joined
  <2>6. MakeUp(Heard(c), out, printed[c].out, v)'
    <3> DEFINE r == out'
               t == printed'[c].out
    <3>1. Joined(w, u, v) /\ Joined(r, q, w) /\ Joined(t, p, u) /\ Joined(p, h, q)
      BY <2>3, <2>5 DEF Joined
    <3>2. h \in Seq(Line) /\ p \in Seq(Line) /\ q \in Seq(Line)
      BY <2>2
    <3> HIDE DEF h, p, q, r, t, IInv
    <3>3. MakeUp(h, r, t, v)
      BY <3>1, <3>2, MakesUpMore
    <3> QED
      BY <2>4, <3>3 DEF r, t, MakeUp
  <2>7. ~printed'[c].over => v = <<>>
    BY EmptySeq
  <2>8. Hearing(c)'
    BY <2>6, <2>7 DEF Hearing
  <2>9. HeldBack(c)'
    BY <1>2, <1>6 DEF HeldBack
  <2> QED
    BY <2>8, <2>9
<1> QED
  BY <1>4, <1>5, <1>6

\* The elements of what is joined.
LEMMA JoinedElements ==
    ASSUME NEW s \in Seq(Line), NEW w \in Seq(Line), NEW r, Joined(r, s, w)
    PROVE  /\ r \in Seq(Line) /\ Len(r) = Len(s) + Len(w)
           /\ \A i \in DOMAIN r :
                 (\E j \in DOMAIN s : r[i] = s[j]) \/ (\E j \in DOMAIN w : r[i] = w[j])
<1>1. /\ r \in Seq(Line) /\ Len(r) = Len(s) + Len(w)
      /\ \A i \in 1..(Len(s) + Len(w)) :
            r[i] = IF i <= Len(s) THEN s[i] ELSE w[i - Len(s)]
  BY ConcatProperties DEF Joined
<1>2. /\ DOMAIN r = 1..Len(r) /\ DOMAIN s = 1..Len(s) /\ DOMAIN w = 1..Len(w)
      /\ Len(s) \in Nat /\ Len(w) \in Nat
  BY <1>1, LenProperties
<1>3. ASSUME NEW i \in DOMAIN r
      PROVE  (\E j \in DOMAIN s : r[i] = s[j]) \/ (\E j \in DOMAIN w : r[i] = w[j])
  <2>1. CASE i <= Len(s)
    <3>1. i \in DOMAIN s /\ r[i] = s[i]
      BY <1>1, <1>2, <2>1
    <3> QED
      BY <3>1
  <2>2. CASE ~(i <= Len(s))
    <3>1. i - Len(s) \in DOMAIN w /\ r[i] = w[i - Len(s)]
      BY <1>1, <1>2, <2>2
    <3> QED
      BY <3>1
  <2> QED
    BY <2>1, <2>2
<1> QED
  BY <1>1, <1>3

\* One line more.
LEMMA JoinedLine ==
    ASSUME NEW s \in Seq(Line), NEW x \in Line
    PROVE  /\ Joined(Append(s, x), s, <<x>>) /\ <<x>> \in Seq(Line)
           /\ DOMAIN <<x>> = {1} /\ <<x>>[1] = x
           /\ Append(s, x) # <<>> /\ Append(s, x)[Len(Append(s, x))] = x
<1>1. Append(s, x) = s \o <<x>>
  BY AppendIsConcat
<1>2. <<x>> \in Seq(Line) /\ DOMAIN <<x>> = {1} /\ <<x>>[1] = x
  OBVIOUS
<1>3. /\ Append(s, x) \in Seq(Line) /\ Len(Append(s, x)) = Len(s) + 1
      /\ Append(s, x)[Len(s) + 1] = x
  BY AppendProperties
<1>4. Append(s, x) # <<>>
  <2>1. Len(s) \in Nat
    BY LenProperties
  <2>2. Len(Append(s, x)) # 0
    BY <1>3, <2>1
  <2> QED
    BY <1>3, <2>2, EmptySeq
<1>5. Joined(Append(s, x), s, <<x>>)
  BY <1>1 DEF Joined
<1> QED
  BY <1>2, <1>3, <1>4, <1>5

LEMMA OneMore ==
    ASSUME NEW s \in Seq(Line), NEW x \in Line, NEW r, Joined(r, s, <<x>>)
    PROVE  \A i \in DOMAIN r : (\E j \in DOMAIN s : r[i] = s[j]) \/ r[i] = x
<1> DEFINE w == <<x>>
<1>1. w \in Seq(Line) /\ \A j \in DOMAIN w : w[j] = x
  OBVIOUS
<1> HIDE DEF w
<1>2. Joined(r, s, w)
  BY DEF w
<1> QED
  BY <1>1, <1>2, JoinedElements

\* No line more.
LEMMA JoinedNothing ==
    ASSUME NEW s \in Seq(Line)
    PROVE  /\ Joined(s, s, <<>>) /\ Joined(s, <<>>, s)
           /\ <<>> \in Seq(Line) /\ DOMAIN <<>> = {} /\ Len(<<>>) = 0
<1>1. s \o <<>> = s /\ <<>> \o s = s
  BY ConcatEmptySeq
<1>2. <<>> \in Seq(Line) /\ DOMAIN <<>> = {} /\ Len(<<>>) = 0
  OBVIOUS
<1> QED
  BY <1>1, <1>2 DEF Joined

\* A command that prints nothing keeps what it has printed.
LEMMA PrintsNothing ==
    ASSUME IInv, NEW c \in Call, Running(c), Straight, mu = c,
           out' = out, printed'[c].out = printed[c].out, call' = call,
           bash.tricks # 0 => bash'.tricks # 0
    PROVE  /\ IsPrefix(call'[c].lines, printed'[c].out)
           /\ OwnPipe(c)'
           /\ ~call[c].sendErr => Hearing(c)' /\ HeldBack(c)'
<1> DEFINE e == <<>>
<1>1. e \in Seq(Line) /\ DOMAIN e = {} /\ Len(e) = 0
  OBVIOUS
<1>2. Prints(c, e, e, e)
  <2>1. out \in Seq(Line) /\ printed[c].out \in Seq(Line)
    BY LinesTypes DEF IInv
  <2> QED
    BY <1>1, <2>1, ConcatEmptySeq DEF Prints
<1>3. Tailing(c, printed'[c].out, e)
  BY DEF Tailing
<1> HIDE DEF e
<1> QED
  BY <1>1, <1>2, <1>3, PrintsOwn

LEMMA EmitHolds ==
    ASSUME IInv, TypeOK', NEW c \in Call, Emit(c)
    PROVE  IInv'
<1>1. PICK is \in {"text", "blank"} :
          /\ out' = Append(out, TextOf(c, is))
          /\ printed' = [printed EXCEPT ![c].out = Append(@, TextOf(c, is))]
  BY DEF Emit
<1> DEFINE x == TextOf(c, is)
<1>2. /\ UNCHANGED <<call, mu, broken, buf, marker, found, stdin, err, bash>>
      /\ Running(c)
  BY DEF Emit, goVars
<1>3. /\ bash.at = c /\ ~printed[c].over
      /\ mu \in Call => call[c].pc = "scan"
  BY <1>2, RunningIs
<1>4. /\ \A d \in Call \ {c} : printed'[d] = printed[d]
      /\ printed'[c].out = Append(printed[c].out, x)
      /\ printed'[c].err = printed[c].err /\ printed'[c].over = printed[c].over
  BY <1>1, TypesInParts DEF IInv, BashTypes
<1>5. /\ out \in Seq(Line) /\ printed[c].out \in Seq(Line) /\ x \in Line
      /\ x.of = c /\ x.is # "marker" /\ (x.is = "blank" => x = TextOf(c, "blank"))
  BY LinesTypes, LineTypes DEF IInv, TextOf
<1>6. out' = Append(out, x)
  BY <1>1
<1> HIDE DEF x
<1>7. /\ Joined(out', out, <<x>>) /\ Joined(printed'[c].out, printed[c].out, <<x>>)
      /\ <<x>> \in Seq(Line) /\ DOMAIN <<x>> = {1} /\ <<x>>[1] = x
  BY <1>4, <1>5, <1>6, JoinedLine
<1>8. Printed'
  <2>1. \A i \in DOMAIN printed'[c].out :
            \/ \E j \in DOMAIN printed[c].out : printed'[c].out[i] = printed[c].out[j]
            \/ printed'[c].out[i] = x
    BY <1>5, <1>7, OneMore
  <2>2. \A i \in DOMAIN printed'[c].out : printed'[c].out[i].is # "marker"
    BY <1>5, <2>1 DEF IInv, Printed
  <2>3. \A i \in DOMAIN printed'[c].err : printed'[c].err[i].is = "text"
    BY <1>4 DEF IInv, Printed
  <2>4. \A d \in Call \ {c} :
            /\ \A i \in DOMAIN printed'[d].out : printed'[d].out[i].is # "marker"
            /\ \A i \in DOMAIN printed'[d].err : printed'[d].err[i].is = "text"
    BY <1>4 DEF IInv, Printed
  <2> QED
    BY <2>2, <2>3, <2>4 DEF Printed
<1>9. \A i \in DOMAIN out' : out'[i].is = "marker" => \E j \in DOMAIN out : out'[i] = out[j]
  <2>1. \A i \in DOMAIN out' :
            (\E j \in DOMAIN out : out'[i] = out[j]) \/ out'[i] = x
    BY <1>5, <1>7, OneMore
  <2> QED
    BY <1>5, <2>1
<1>10. \A d \in Call : Met(d)' => Met(d)
  BY <1>2 DEF Met, IsMarker
<1>11. ASSUME Straight, mu = c
       PROVE  /\ IsPrefix(call'[c].lines, printed'[c].out)
              /\ OwnPipe(c)'
              /\ ~call[c].sendErr => Hearing(c)' /\ HeldBack(c)'
  <2> DEFINE u == <<x>>
             v == <<>>
  <2>1. u \in Seq(Line) /\ v \in Seq(Line) /\ Len(v) = 0
    BY <1>7
  <2>2. Joined(u, u, v)
    BY <2>1, JoinedNothing
  <2>3. Tailing(c, printed'[c].out, v)
    BY DEF Tailing
  <2>4. \A i \in DOMAIN u :
            /\ u[i].of = c
            /\ u[i].is = "blank" => u[i] = TextOf(c, "blank")
            /\ u[i].is = "marker" =>
                  i = Len(u) /\ (bash'.tricks = 0 => u[i].code = c)
    BY <1>5, <1>7
  <2>5. Joined(out', out, u) /\ Joined(printed'[c].out, printed[c].out, u)
    BY <1>7
  <2> HIDE DEF u, v
  <2>6. Prints(c, u, v, u)
    BY <2>2, <2>5 DEF Prints, Joined
  <2>7. bash.tricks # 0 => bash'.tricks # 0
    BY <1>2
  <2> QED
    BY <1>2, <1>11, <2>1, <2>3, <2>4, <2>6, <2>7, PrintsOwn
<1>12. bash.tricks = 0 /\ mu = c => Collecting(c)'
  BY <1>2, <1>3, <1>4 DEF IInv, Collected, Collecting
<1>13. Tricks'
  BY <1>2 DEF IInv, Tricks
<1> QED
  BY <1>2, <1>3, <1>4, <1>8, <1>9, <1>10, <1>11, <1>12, <1>13, CommandHolds

\* While its command runs, what stderr holds of it is collected or on its way.
LEMMA CollectingWhile ==
    ASSUME IInv, NEW c \in Call, Running(c), mu = c, bash.tricks = 0
    PROVE  /\ marker = c /\ c \notin found
           /\ Joined(printed[c].err, buf, err)
<1>1. call[c].pc = "scan" /\ ~printed[c].over
  BY RunningIs
<1>2. Collecting(c)
  BY <1>1 DEF IInv, Collected
<1> QED
  BY <1>1, <1>2 DEF Collecting, Joined

LEMMA CollectsMore ==
    ASSUME NEW s \in Seq(Line), NEW e \in Seq(Line), NEW p \in Seq(Line),
           NEW w \in Seq(Line), NEW r, NEW t,
           Joined(p, s, e), Joined(r, e, w), Joined(t, p, w)
    PROVE  Joined(t, s, r)
<1>1. Associate(s, e, w)
  BY LinesAssociate
<1> QED
  BY <1>1, Zenon DEF Associate, Joined

LEMMA EmitErrHolds ==
    ASSUME IInv, TypeOK', NEW c \in Call, EmitErr(c)
    PROVE  IInv'
<1> DEFINE x == TextOf(c, "text")
<1>1. /\ UNCHANGED <<call, mu, broken, buf, marker, found, stdin, out, bash>>
      /\ Running(c) /\ bash.stderr # "stdout"
      /\ err' = Append(err, x)
      /\ printed' = [printed EXCEPT ![c].err = Append(@, x)]
  BY DEF EmitErr, goVars
<1>2. bash.at = c /\ ~printed[c].over
  BY <1>1, RunningIs
<1>3. /\ \A d \in Call \ {c} : printed'[d] = printed[d]
      /\ printed'[c].err = Append(printed[c].err, x)
      /\ printed'[c].out = printed[c].out /\ printed'[c].over = printed[c].over
  BY <1>1, TypesInParts DEF IInv, BashTypes
<1>4. /\ err \in Seq(Line) /\ printed[c].err \in Seq(Line) /\ buf \in Seq(Line)
      /\ x \in Line /\ x.is = "text"
  BY LinesTypes, LineTypes DEF IInv, TextOf
<1>5. err' = Append(err, x)
  BY <1>1
<1> HIDE DEF x
<1>6. /\ Joined(err', err, <<x>>) /\ Joined(printed'[c].err, printed[c].err, <<x>>)
      /\ <<x>> \in Seq(Line)
  BY <1>3, <1>4, <1>5, JoinedLine
<1>7. Printed'
  <2>1. \A i \in DOMAIN printed'[c].err :
            \/ \E j \in DOMAIN printed[c].err : printed'[c].err[i] = printed[c].err[j]
            \/ printed'[c].err[i] = x
    BY <1>4, <1>6, OneMore
  <2>2. \A i \in DOMAIN printed'[c].err : printed'[c].err[i].is = "text"
    BY <1>4, <2>1 DEF IInv, Printed
  <2>3. \A i \in DOMAIN printed'[c].out : printed'[c].out[i].is # "marker"
    BY <1>3 DEF IInv, Printed
  <2>4. \A d \in Call \ {c} :
            /\ \A i \in DOMAIN printed'[d].out : printed'[d].out[i].is # "marker"
            /\ \A i \in DOMAIN printed'[d].err : printed'[d].err[i].is = "text"
    BY <1>3 DEF IInv, Printed
  <2> QED
    BY <2>2, <2>3, <2>4 DEF Printed
<1>8. \A d \in Call : Met(d)' => Met(d)
  <2>1. \A i \in DOMAIN err' : (\E j \in DOMAIN err : err'[i] = err[j]) \/ err'[i] = x
    BY <1>4, <1>6, OneMore
  <2> QED
    BY <1>1, <1>4, <2>1 DEF Met, IsMarker
<1>9. Straight' /\ mu = c =>
          /\ IsPrefix(call'[c].lines, printed'[c].out)
          /\ OwnPipe(c)'
          /\ ~call[c].sendErr => Hearing(c)' /\ HeldBack(c)'
  BY <1>1, <1>3, PrintsNothing
<1>10. ASSUME bash.tricks = 0, mu = c
       PROVE  Collecting(c)'
  <2>1. marker = c /\ c \notin found /\ Joined(printed[c].err, buf, err)
    BY <1>1, <1>10, CollectingWhile
  <2>2. Joined(printed'[c].err, buf, err')
    <3> DEFINE w == <<x>>
               r == err'
               t == printed'[c].err
               p == printed[c].err
    <3>1. /\ Joined(p, buf, err) /\ Joined(r, err, w) /\ Joined(t, p, w)
          /\ w \in Seq(Line) /\ p \in Seq(Line)
      BY <1>4, <1>6, <2>1
    <3> HIDE DEF w, r, t, p
    <3>2. Joined(t, buf, r)
      BY <1>4, <3>1, CollectsMore
    <3> QED
      BY <3>2 DEF r, t
  <2> QED
    BY <1>1, <2>1, <2>2 DEF Collecting, Joined
<1>11. Tricks'
  BY <1>1 DEF IInv, Tricks
<1> QED
  BY <1>1, <1>2, <1>3, <1>7, <1>8, <1>9, <1>10, <1>11, CommandHolds

\* What bash is, after a command has played a trick on it.
LEMMA TrickHolds ==
    ASSUME IInv, TypeOK', NEW c \in Call,
           RedirectOut(c) \/ RedirectErr(c) \/ EatLine(c)
    PROVE  IInv'
<1>1. /\ UNCHANGED <<call, mu, broken, buf, marker, found, stdin, out, err, printed>>
      /\ Running(c)
  BY DEF RedirectOut, RedirectErr, EatLine, Trick, goVars
<1>2. bash.at = c /\ bash.up /\ ~printed[c].over
  BY <1>1, RunningIs
<1>3. /\ bash'.at = bash.at /\ bash'.tricks # 0 /\ bash'.up = bash.up
      /\ Straight' => Straight
  <2> DEFINE n == bash.tricks + 1
  <2>1. bash \in [up : BOOLEAN, at : Call \cup {NoCall}, ec : Call \cup {NoCall},
                 ate : BOOLEAN, stdout : {"pipe", "nowhere"},
                 stderr : {"pipe", "traced", "stdout", "nowhere"},
                 held : BOOLEAN, tricks : 0..MaxTricks]
    BY TypesInParts DEF IInv, BashTypes
  <2>2. n # 0
    <3>1. bash.tricks \in Nat
      BY <2>1, BoundAssumption
    <3> QED
      BY <3>1
  <2>3. ASSUME RedirectOut(c)
        PROVE  \E held \in BOOLEAN :
                  bash' = [bash EXCEPT !.stdout = "nowhere", !.held = held, !.tricks = n]
    BY <2>3 DEF RedirectOut
  <2>4. ASSUME RedirectErr(c)
        PROVE  /\ bash.stderr = "pipe"
               /\ \E to \in {"traced", "stdout", "nowhere"} :
                     bash' = [bash EXCEPT !.stderr = to, !.tricks = n]
    BY <2>4 DEF RedirectErr
  <2>5. ASSUME EatLine(c)
        PROVE  bash' = [bash EXCEPT !.ate = TRUE, !.tricks = n]
    BY <2>5 DEF EatLine
  <2> HIDE DEF n
  <2>6. CASE RedirectOut(c)
    BY <2>1, <2>2, <2>3, <2>6
  <2>7. CASE RedirectErr(c)
    BY <2>1, <2>2, <2>4, <2>7
  <2>8. CASE EatLine(c)
    BY <2>1, <2>2, <2>5, <2>8
  <2> QED
    BY <2>6, <2>7, <2>8
<1>4. Printed' /\ Tricks'
  BY <1>1, <1>2, <1>3 DEF IInv, Printed, Tricks
<1>5. \A d \in Call : Met(d)' => Met(d)
  BY <1>1 DEF Met, IsMarker
<1>6. Straight' /\ mu = c =>
          /\ IsPrefix(call'[c].lines, printed'[c].out)
          /\ OwnPipe(c)'
          /\ ~call[c].sendErr => Hearing(c)' /\ HeldBack(c)'
  BY <1>1, <1>3, PrintsNothing
<1> QED
  BY <1>1, <1>2, <1>3, <1>4, <1>5, <1>6, CommandHolds

\* A command that takes bash with it is over, and prints no marker.
LEMMA QuitHolds ==
    ASSUME IInv, TypeOK', NEW c \in Call, Quit(c)
    PROVE  IInv'
<1>1. /\ UNCHANGED <<call, mu, broken, buf, marker, found, stdin, out, err>>
      /\ Running(c)
  BY DEF Quit, goVars
<1>2. /\ bash'.at = NoCall /\ bash'.tricks = bash.tricks
      /\ bash'.stdout = bash.stdout /\ bash'.stderr = bash.stderr
      /\ bash'.ate = bash.ate
  BY TypesInParts DEF IInv, BashTypes, Quit
<1>3. /\ \A d \in Call \ {c} : printed'[d] = printed[d]
      /\ printed'[c].out = printed[c].out /\ printed'[c].err = printed[c].err
      /\ printed'[c].over
  BY TypesInParts DEF IInv, BashTypes, Quit
<1>4. Printed' /\ Tricks'
  BY <1>2, <1>3 DEF IInv, Printed, Tricks
<1>5. \A d \in Call : Met(d)' => Met(d)
  BY <1>1 DEF Met, IsMarker
<1>6. Straight' /\ mu = c =>
          /\ IsPrefix(call'[c].lines, printed'[c].out)
          /\ OwnPipe(c)'
          /\ ~call[c].sendErr => Hearing(c)' /\ HeldBack(c)'
  BY <1>1, <1>2, <1>3, PrintsNothing
<1>7. bash'.tricks = 0 /\ mu = c => Collecting(c)'
  BY <1>1, <1>2, <1>3, CollectingWhile DEF Collecting, Joined
<1> QED
  BY <1>1, <1>2, <1>3, <1>4, <1>5, <1>6, <1>7, CommandHolds

\* The script prints nothing in another's name; on a stdout that is its own it
\* prints two lines at its end.
LEMMA ScriptIs ==
    ASSUME NEW c \in Call, NEW ec \in Call \cup {NoCall},
           NEW rest \in {<<>>, <<TextOf(c, "text")>>}
    PROVE  /\ rest \in Seq(Line) /\ Script(c, ec, rest) \in Seq(Line)
           /\ \A i \in DOMAIN Script(c, ec, rest) : Script(c, ec, rest)[i].of = c
           /\ Straight => Script(c, ec, rest) =
                 IF rest = <<>> THEN <<TextOf(c, "blank"), MarkerOf(c, ec)>>
                                ELSE <<TextOf(c, "text"), MarkerOf(c, ec)>>
           /\ bash.stdout # "pipe" =>
                 \A i \in DOMAIN Script(c, ec, rest) : Script(c, ec, rest)[i].code = NoCall
<1> DEFINE b == TextOf(c, "blank")
           x == TextOf(c, "text")
           m == MarkerOf(c, ec)
           n == MarkerOf(c, NoCall)
           w == Script(c, ec, rest)
<1>1. b \in Line /\ x \in Line /\ m \in Line /\ n \in Line
  BY LineTypes
<1>2. b.of = c /\ x.of = c /\ m.of = c /\ n.of = c /\ n.code = NoCall
  BY DEF TextOf, MarkerOf
<1>3. rest = <<>> \/ rest = <<x>>
  OBVIOUS
<1>4. /\ bash.stdout = "pipe" /\ bash.stderr = "stdout" =>
            w = (IF rest = <<>> THEN <<n>> ELSE rest) \o <<b, m>>
      /\ Straight => w = (IF rest = <<>> THEN <<b>> ELSE rest) \o <<m>>
      /\ bash.stdout # "pipe" => w = <<n>> \/ w = <<>>
  BY DEF Script
<1> HIDE DEF b, x, m, n
<1>5. rest \in Seq(Line)
  <2>1. <<>> \in Seq(Line) /\ <<x>> \in Seq(Line)
    BY <1>1
  <2> QED
    BY <1>3, <2>1, Zenon
<1>6. w \in Seq(Line)
  BY <1>5, ScriptType
<1>9. bash.stdout # "pipe" => \A i \in DOMAIN w : w[i] = n
  <2> HIDE DEF w
  <2>1. \A i \in DOMAIN <<n>> : <<n>>[i] = n
    OBVIOUS
  <2>2. \A i \in DOMAIN <<>> : <<>>[i] = n
    OBVIOUS
  <2> QED
    BY <1>4, <2>1, <2>2 DEF w
<1>7. \A i \in DOMAIN w : w[i].of = c
  <2>1. ASSUME NEW s \in Seq(Line), NEW t \in Seq(Line), Joined(w, s, t),
               \A i \in DOMAIN s : s[i].of = c, \A i \in DOMAIN t : t[i].of = c
        PROVE  \A i \in DOMAIN w : w[i].of = c
    <3> HIDE DEF w
    <3> QED
      BY <2>1, JoinedElements
  <2> DEFINE s1 == IF rest = <<>> THEN <<n>> ELSE rest
             s2 == IF rest = <<>> THEN <<b>> ELSE rest
             t1 == <<b, m>>
             t2 == <<m>>
  <2>2. /\ s1 \in Seq(Line) /\ s2 \in Seq(Line) /\ t1 \in Seq(Line) /\ t2 \in Seq(Line)
    BY <1>1, <1>5
  <2>3. /\ \A i \in DOMAIN s1 : s1[i].of = c
        /\ \A i \in DOMAIN s2 : s2[i].of = c
        /\ \A i \in DOMAIN t1 : t1[i].of = c
        /\ \A i \in DOMAIN t2 : t2[i].of = c
    <3>1. \A y : y.of = c => \A i \in DOMAIN <<y>> : <<y>>[i].of = c
      OBVIOUS
    <3>2. \A i \in DOMAIN t1 : t1[i].of = c
      <4>1. DOMAIN t1 = {1, 2} /\ t1[1] = b /\ t1[2] = m
        OBVIOUS
      <4> QED
        BY <1>2, <4>1
    <3> QED
      BY <1>2, <1>3, <3>1, <3>2
  <2>4. bash.stdout = "pipe" => Joined(w, s1, t1) \/ Joined(w, s2, t2)
    BY <1>4 DEF Joined
  <2> HIDE DEF s1, s2, t1, t2, w
  <2>5. CASE bash.stdout = "pipe"
    BY <2>1, <2>2, <2>3, <2>4, <2>5
  <2>6. CASE bash.stdout # "pipe"
    BY <1>2, <1>9, <2>6
  <2> QED
    BY <2>5, <2>6
<1>8. ASSUME Straight
      PROVE  w = IF rest = <<>> THEN <<b, m>> ELSE <<x, m>>
  <2>1. CASE rest = <<>>
    <3>1. w = <<b>> \o <<m>>
      BY <1>4, <1>8, <2>1
    <3> QED
      BY <1>1, <2>1, <3>1, TwoLines
  <2>2. CASE rest # <<>>
    <3>1. w = <<x>> \o <<m>>
      BY <1>3, <1>4, <1>8, <2>2
    <3> QED
      BY <1>1, <2>2, <3>1, TwoLines
  <2> QED
    BY <2>1, <2>2
<1>10. bash.stdout # "pipe" => \A i \in DOMAIN w : w[i].code = NoCall
  BY <1>2, <1>9
<1> HIDE DEF w
<1> QED
  BY <1>5, <1>6, <1>7, <1>8, <1>10 DEF b, x, m, w

\* A command that ends: the rest of its script prints the marker last, and on a
\* stderr of its own the other one.
LEMMA FinishHolds ==
    ASSUME IInv, TypeOK', NEW c \in Call, Finish(c)
    PROVE  IInv'
<1> DEFINE ec == IF bash.ate THEN bash.ec ELSE c
           n == MarkerOf(c, NoCall)
<1>1. PICK rest \in {<<>>, <<TextOf(c, "text")>>} :
          /\ out' = out \o Script(c, ec, rest)
          /\ err' = err \o ErrScript(c)
          /\ bash' = [bash EXCEPT !.at = NoCall, !.ec = ec, !.ate = FALSE]
          /\ printed' = [printed EXCEPT ![c].out = @ \o rest, ![c].over = TRUE]
  BY DEF Finish
<1> DEFINE w == Script(c, ec, rest)
<1>2. UNCHANGED <<call, mu, broken, buf, marker, found, stdin>> /\ Running(c)
  BY DEF Finish, goVars
<1>3. /\ bash'.at = NoCall /\ bash'.tricks = bash.tricks
      /\ bash'.stdout = bash.stdout /\ bash'.stderr = bash.stderr
      /\ ~bash'.ate /\ ec \in Call \cup {NoCall}
      /\ bash.tricks = 0 => ec = c
  <2>1. bash \in [up : BOOLEAN, at : Call \cup {NoCall}, ec : Call \cup {NoCall},
                 ate : BOOLEAN, stdout : {"pipe", "nowhere"},
                 stderr : {"pipe", "traced", "stdout", "nowhere"},
                 held : BOOLEAN, tricks : 0..MaxTricks]
    BY TypesInParts DEF IInv, BashTypes
  <2>2. bash' = [bash EXCEPT !.at = NoCall, !.ec = ec, !.ate = FALSE]
    BY <1>1
  <2>3. bash.tricks = 0 => ~bash.ate
    BY DEF IInv, Tricks
  <2>4. ec \in Call \cup {NoCall} /\ (bash.tricks = 0 => ec = c)
    BY <2>1, <2>3
  <2> HIDE DEF ec
  <2> QED
    BY <2>1, <2>2, <2>4
<1>4. /\ \A d \in Call \ {c} : printed'[d] = printed[d]
      /\ printed'[c].out = printed[c].out \o rest /\ printed'[c].err = printed[c].err
      /\ printed'[c].over
  <2>1. printed \in [Call -> [out : Seq(Line), err : Seq(Line), over : BOOLEAN]]
    BY TypesInParts DEF IInv, BashTypes
  <2>2. printed'[c] = [printed[c] EXCEPT !.out = @ \o rest, !.over = TRUE]
    BY <1>1, <2>1
  <2>3. \A d \in Call \ {c} : printed'[d] = printed[d]
    BY <1>1, <2>1
  <2> QED
    BY <2>1, <2>2, <2>3
<1>5. /\ rest \in Seq(Line) /\ w \in Seq(Line)
      /\ \A i \in DOMAIN w : w[i].of = c
      /\ Straight => w =
            IF rest = <<>> THEN <<TextOf(c, "blank"), MarkerOf(c, ec)>>
                           ELSE <<TextOf(c, "text"), MarkerOf(c, ec)>>
      /\ bash.stdout # "pipe" => \A i \in DOMAIN w : w[i].code = NoCall
  <2> HIDE DEF ec
  <2>1. ec \in Call \cup {NoCall}
    BY <1>3
  <2> QED
    BY <2>1, ScriptIs
<1>6. /\ out \in Seq(Line) /\ err \in Seq(Line) /\ buf \in Seq(Line)
      /\ printed[c].out \in Seq(Line) /\ printed[c].err \in Seq(Line) /\ n \in Line
      /\ n.is = "marker" /\ n.of = c
  BY LinesTypes, LineTypes DEF IInv, MarkerOf
<1>7. Joined(out', out, w) /\ Joined(printed'[c].out, printed[c].out, rest)
  BY <1>1, <1>4 DEF Joined
<1>8. /\ bash.stderr = "pipe" => Joined(err', err, <<n>>)
      /\ \A i \in DOMAIN err' :
            (\E j \in DOMAIN err : err'[i] = err[j]) \/ err'[i] = n
  <2> DEFINE e == ErrScript(c)
  <2>1. /\ e \in Seq(Line) /\ \A i \in DOMAIN e : e[i] = n
        /\ bash.stderr = "pipe" => e = <<n>>
    BY ErrScriptIs
  <2>2. Joined(err', err, e)
    BY <1>1 DEF Joined
  <2> HIDE DEF e
  <2>3. \A i \in DOMAIN err' :
            (\E j \in DOMAIN err : err'[i] = err[j]) \/ (\E j \in DOMAIN e : err'[i] = e[j])
    <3>1. err \in Seq(Line) /\ e \in Seq(Line)
      BY <1>6, <2>1
    <3> QED
      BY <2>2, <3>1, JoinedElements
  <2> QED
    BY <2>1, <2>2, <2>3
<1>9. bash.stderr = "stdout" => err' = err
  BY <1>1, <1>6, ErrScriptIs, ConcatEmptySeq
<1>10. rest = <<>> \/ rest = <<TextOf(c, "text")>>
  OBVIOUS
<1> HIDE DEF ec, n, w
<1>11. rest \in Seq(Line) /\ w \in Seq(Line) /\ out \in Seq(Line)
  BY <1>5, <1>6
<1>12. Tricks'
  BY <1>3 DEF IInv, Tricks
<1>13. Printed'
  <2>1. \A i \in DOMAIN rest : rest[i].is # "marker"
    <3> DEFINE x == TextOf(c, "text")
    <3>1. x.is # "marker"
      BY DEF TextOf
    <3>2. rest = <<>> \/ rest = <<x>>
      BY <1>10
    <3> HIDE DEF x
    <3> QED
      BY <3>1, <3>2
  <2>2. ASSUME NEW i \in DOMAIN printed'[c].out
        PROVE  \/ \E j \in DOMAIN printed[c].out : printed'[c].out[i] = printed[c].out[j]
               \/ \E j \in DOMAIN rest : printed'[c].out[i] = rest[j]
    <3> DEFINE r == printed'[c].out
               p == printed[c].out
    <3>1. p \in Seq(Line) /\ Joined(r, p, rest) /\ i \in DOMAIN r
      BY <1>6, <1>7
    <3> HIDE DEF r, p
    <3>2. (\E j \in DOMAIN p : r[i] = p[j]) \/ (\E j \in DOMAIN rest : r[i] = rest[j])
      BY <1>11, <3>1, JoinedElements
    <3> QED
      BY <3>2 DEF r, p
  <2>3. \A i \in DOMAIN printed'[c].out : printed'[c].out[i].is # "marker"
    BY <2>1, <2>2 DEF IInv, Printed
  <2>4. \A i \in DOMAIN printed'[c].err : printed'[c].err[i].is = "text"
    BY <1>4 DEF IInv, Printed
  <2>5. \A d \in Call \ {c} :
            /\ \A i \in DOMAIN printed'[d].out : printed'[d].out[i].is # "marker"
            /\ \A i \in DOMAIN printed'[d].err : printed'[d].err[i].is = "text"
    BY <1>4 DEF IInv, Printed
  <2> QED
    BY <2>3, <2>4, <2>5 DEF Printed
<1>14. \A i \in DOMAIN out' :
           \/ \E j \in DOMAIN out : out'[i] = out[j]
           \/ out'[i].of = c /\ (bash'.stdout # "pipe" => out'[i].code = NoCall)
  <2>1. ASSUME NEW i \in DOMAIN out'
        PROVE  \/ \E j \in DOMAIN out : out'[i] = out[j]
               \/ \E j \in DOMAIN w : out'[i] = w[j]
    BY <1>11, <1>7, JoinedElements
  <2> QED
    BY <1>3, <1>5, <2>1
<1>15. \A d \in Call : Met(d)' =>
           Met(d) \/ (d = c /\ printed'[c].over /\ bash'.stderr # "stdout")
  <2>1. CASE bash.stderr # "stdout"
    BY <1>2, <1>3, <1>4, <1>6, <1>8, <2>1 DEF Met, IsMarker
  <2>2. CASE bash.stderr = "stdout"
    BY <1>2, <1>9, <2>2 DEF Met, IsMarker
  <2> QED
    BY <2>1, <2>2
<1>16. ASSUME Straight, mu = c
       PROVE  /\ IsPrefix(call'[c].lines, printed'[c].out)
              /\ OwnPipe(c)'
              /\ ~call[c].sendErr => Hearing(c)' /\ HeldBack(c)'
  <2> DEFINE b == TextOf(c, "blank")
             x == TextOf(c, "text")
             m == MarkerOf(c, ec)
             v == IF rest = <<>> THEN <<b, m>> ELSE <<m>>
  <2>1. b \in Line /\ x \in Line /\ m \in Line
    BY <1>3, LineTypes
  <2>2. /\ b.of = c /\ x.of = c /\ m.of = c
        /\ b.is = "blank" /\ x.is = "text" /\ m.is = "marker" /\ m.code = ec
    BY DEF TextOf, MarkerOf
  <2>3. w = IF rest = <<>> THEN <<b, m>> ELSE <<x, m>>
    BY <1>5, <1>16
  <2>4. rest = <<>> \/ rest = <<x>>
    BY <1>10
  <2>5. Tailing(c, printed'[c].out, v)
    <3>1. CASE rest = <<>>
      BY <1>3, <3>1 DEF Tailing
    <3>2. CASE rest # <<>>
      <4> DEFINE p == printed'[c].out
      <4>1. rest = <<x>> /\ v = <<m>>
        BY <2>4, <3>2
      <4>2. p = Append(printed[c].out, x)
        <5> DEFINE q == printed[c].out
        <5>1. Append(q, x) = q \o <<x>>
          BY <1>6, <2>1, AppendIsConcat
        <5> QED
          BY <1>4, <4>1, <5>1
      <4>3. p # <<>> /\ p[Len(p)] = x
        <5> DEFINE q == printed[c].out
        <5>1. q \in Seq(Line) /\ p = Append(q, x)
          BY <1>6, <4>2
        <5> HIDE DEF p, q, x
        <5> QED
          BY <2>1, <5>1, JoinedLine
      <4> QED
        BY <1>3, <2>2, <4>1, <4>3 DEF Tailing
    <3> QED
      BY <3>1, <3>2
  <2> HIDE DEF b, x, m
  <2>6. v \in Seq(Line)
    BY <2>1
  <2>7. Joined(w, rest, v)
    <3>1. CASE rest = <<>>
      BY <2>3, <2>6, <3>1, JoinedNothing
    <3>2. CASE rest # <<>>
      <4>1. w = <<x, m>> /\ rest = <<x>> /\ v = <<m>>
        BY <2>3, <2>4, <3>2
      <4>2. <<x>> \o <<m>> = <<x, m>>
        BY <2>1, TwoLines
      <4> QED
        BY <4>1, <4>2 DEF Joined
    <3> QED
      BY <3>1, <3>2
  <2>8. \A i \in DOMAIN w :
            /\ w[i].of = c
            /\ w[i].is = "blank" => w[i] = TextOf(c, "blank")
            /\ w[i].is = "marker" =>
                  i = Len(w) /\ (bash'.tricks = 0 => w[i].code = c)
    <3>1. DOMAIN w = {1, 2} /\ Len(w) = 2 /\ w[1] \in {b, x} /\ w[2] = m
      <4>1. w = <<b, m>> \/ w = <<x, m>>
        BY <2>3
      <4> QED
        BY <4>1
    <3>2. bash'.tricks = 0 => m.code = c
      BY <1>3, <2>2
    <3> QED
      BY <2>2, <3>1, <3>2 DEF b
  <2> HIDE DEF v
  <2>9. Prints(c, rest, v, w)
    BY <1>7, <2>7 DEF Prints, Joined
  <2>10. printed'[c].over /\ (bash.tricks # 0 => bash'.tricks # 0)
    BY <1>3, <1>4
  <2> QED
    BY <1>2, <1>5, <1>16, <2>5, <2>6, <2>8, <2>9, <2>10, PrintsOwn
<1>17. ASSUME bash.tricks = 0, mu = c
       PROVE  Collecting(c)'
  <2>1. marker = c /\ c \notin found /\ Joined(printed[c].err, buf, err)
    BY <1>2, <1>17, CollectingWhile
  <2>2. bash.stderr = "pipe"
    BY <1>17 DEF IInv, Tricks
  <2>3. Joined(printed[c].err \o <<n>>, buf, err')
    <3> DEFINE r == err'
               e == <<n>>
               p == printed[c].err
               t == p \o e
    <3>1. Joined(r, err, e) /\ e \in Seq(Line)
      <4>1. <<n>> \in Seq(Line)
        BY <1>6
      <4> QED
        BY <1>8, <2>2, <4>1
    <3>2. Joined(t, p, e)
      BY DEF Joined
    <3>3. Joined(p, buf, err) /\ p \in Seq(Line)
      BY <1>6, <2>1
    <3> HIDE DEF r, e, t, p
    <3>4. Joined(t, buf, r)
      BY <1>6, <3>1, <3>2, <3>3, CollectsMore
    <3> QED
      BY <3>4 DEF r, e, t, p
  <2> QED
    BY <1>2, <1>4, <2>1, <2>3 DEF Collecting, Joined, n
<1> QED
  BY <1>2, <1>3, <1>4, <1>12, <1>13, <1>14, <1>15, <1>16, <1>17, CommandHolds

\* What was left behind ends.
LEMMA LetGoHolds ==
    ASSUME IInv, TypeOK', LetGo
    PROVE  IInv'
<1> USE DEF IInv
<1>1. UNCHANGED <<call, mu, broken, buf, marker, found, stdin, out, err, printed>>
  BY DEF LetGo, goVars
<1>2. /\ bash'.up = bash.up /\ bash'.at = bash.at /\ bash'.ate = bash.ate
      /\ bash'.stdout = bash.stdout /\ bash'.stderr = bash.stderr
      /\ bash'.tricks = bash.tricks
  BY TypesInParts DEF BashTypes, LetGo
<1>3. Printed' /\ Scripts' /\ Turn' /\ Tricks' /\ Marks'
  BY <1>1, <1>2 DEF Printed, Scripts, Unwritten, Pending, Ended, Turn, Quiet, Tricks,
                    Marks, Met, IsMarker, Lost
<1>4. Streamed'
  <2>1. mu \in Call => /\ Hearing(mu)' <=> Hearing(mu)
                       /\ HeldBack(mu)' <=> HeldBack(mu)
                       /\ OwnPipe(mu) => OwnPipe(mu)'
    BY <1>1, <1>2, StillHearing
  <2> QED
    BY <1>1, <1>2, <2>1 DEF Streamed
<1>5. Collected' /\ GivenUp' /\ OwnLines' /\ OwnAnswer'
  BY <1>1, <1>2 DEF Collected, Collecting, GivenUp, Ended, OwnLines, OwnAnswer
<1> QED
  BY <1>3, <1>4, <1>5

-----------------------------------------------------------------------------
(* Theorems *)

LEMMA NextHolds == IInv /\ [Next]_vars => IInv'
<1> SUFFICES ASSUME IInv, [Next]_vars
             PROVE  IInv'
  OBVIOUS
<1>1. TypeOK'
  BY TypeHolds DEF IInv
<1>2. ASSUME NEW c \in Call, Stream(c)
      PROVE  IInv'
  BY <1>1, <1>2, RefuseHolds, LockHolds, MarkHolds, GiveUpHolds, WriteHolds,
     WriteFailsHolds, EndMarkerHolds, BadMarkerHolds, SendLineHolds, SendFailsHolds,
     DrainHolds, ScanFailsHolds, EofHolds, AwaitHolds DEF Stream
<1>3. ASSUME NEW c \in Call, Command(c)
      PROVE  IInv'
  BY <1>1, <1>3, EmitHolds, EmitErrHolds, TrickHolds, QuitHolds, FinishHolds
     DEF Command
<1>4. ASSUME NEW c \in Call, Execute(c) \/ Cancel(c)
      PROVE  IInv'
  BY <1>1, <1>4, ArriveHolds
<1>5. CASE ReadStderr \/ Close \/ Waited \/ Take \/ LetGo
  BY <1>1, <1>5, ReadStderrHolds, CloseHolds, WaitedHolds, TakeHolds, LetGoHolds
<1>6. CASE UNCHANGED vars
  <2>1. UNCHANGED <<call, mu, broken, buf, marker, found, closing, stdin, out, err,
                    bash, printed>>
    BY <1>6 DEF vars, goVars, bashVars
  <2>2. Printed' /\ Scripts' /\ Turn' /\ Tricks' /\ Marks'
    BY <2>1 DEF IInv, Printed, Scripts, Unwritten, Pending, Ended, Turn, Quiet, Tricks,
                Marks, Met, IsMarker, Lost
  <2>3. Streamed'
    BY <2>1, StillHearing DEF IInv, Streamed
  <2>4. Collected' /\ GivenUp' /\ OwnLines' /\ OwnAnswer'
    BY <2>1 DEF IInv, Collected, Collecting, GivenUp, Ended, OwnLines, OwnAnswer
  <2> QED
    BY <1>1, <2>2, <2>3, <2>4 DEF IInv
<1> QED
  BY <1>2, <1>3, <1>4, <1>5, <1>6 DEF Next

\* The invariant, of every behaviour of the shell.
THEOREM Invariance == Spec => []IInv
<1>1. Init => IInv
  BY InitHolds
<1>2. IInv /\ [Next]_vars => IInv'
  BY NextHolds
<1> QED
  BY <1>1, <1>2, PTL DEF Spec

\* bashShell's fields keep their types: mu has a holder exactly while a call is in
\* ExecuteStream past its locking, or Close waits for bash.
THEOREM TypeCorrect == Spec => []TypeOK
<1>1. IInv => TypeOK
  BY DEF IInv
<1> QED
  BY <1>1, Invariance, PTL

\* ExecuteStream sends a client that succeeds all the lines of its own command and
\* no others, and one that is cut short the first of them, whatever the commands and
\* the cancelled calls before it have left on stdout.
THEOREM StreamsItsOwn == Spec => []OwnLines
<1>1. IInv => OwnLines
  BY DEF IInv
<1> QED
  BY <1>1, Invariance, PTL

\* The stderr that readStderr has collected for a call and the exit code on its
\* marker are its own command's, unless a command has changed what others inherit.
THEOREM AnswersItsOwn == Spec => []OwnAnswer
<1>1. IInv => OwnAnswer
  BY DEF IInv
<1> QED
  BY <1>1, Invariance, PTL

\* A shell that can be taken has nothing on its pipes that the next call of
\* ExecuteStream would take for its own.
THEOREM FreeIsClean == Spec => []InSyncUnlessTricked
<1>1. IInv => InSyncUnlessTricked
  <2> SUFFICES ASSUME IInv, mu = NoCall, ~broken, bash.tricks = 0
               PROVE  Clean
    BY DEF InSyncUnlessTricked
  <2>1. mu \notin Call
    BY CallAssumption
  <2>2. stdin = <<>> /\ bash.at = NoCall
    BY DEF IInv, Turn, Quiet
  <2>3. Straight
    BY DEF IInv, Tricks
  <2>4. out = <<>> /\ err = <<>>
    BY <2>1, <2>3 DEF IInv, Streamed, Collected
  <2> QED
    BY <2>2, <2>4 DEF Clean
<1> QED
  BY <1>1, Invariance, PTL

\* broken is found set, where no call is at work, only in a shell that bash has left,
\* that a command has changed for good, or whose stdout was left unread.
THEOREM BrokenLasts == Spec => []BrokenForGood
<1>1. IInv => BrokenForGood
  BY CallAssumption DEF IInv, GivenUp, BrokenForGood
<1> QED
  BY <1>1, Invariance, PTL

=============================================================================
