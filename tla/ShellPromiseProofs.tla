-------------------------- MODULE ShellPromiseProofs -------------------------
(***************************************************************************)
(* The shell keeps the promises of ShellPromise, for any number of calls   *)
(* and lines.  What the answers say is in ShellProofs; what is left is     *)
(* that no command begins after its call was answered, for which no line   *)
(* that one command leaves on stdout may end the scan of another call      *)
(* before bash has come to its script.                                     *)
(***************************************************************************)
EXTENDS ShellProofs

\* A line was too long for a scan: nobody reads stdout any more.
Overrun == \E c \in Call : Ended(c, {"overlong"})

\* The text on stdout is of the call that scans, whose script bash has taken, and
\* none of it comes behind that call's marker.
TextIsHeld ==
    \A i \in DOMAIN out : out[i].is = "text" =>
        /\ mu = out[i].of /\ call[mu].pc = "scan" /\ stdin = <<>>
        /\ \A j \in DOMAIN out : j < i => ~IsMarker(out[j], mu)

\* The call whose script lies in stdin is still at its scan.
Leftovers ==
    /\ \A i \in DOMAIN stdin : stdin[i] \in Call => call[stdin[i]].pc = "scan"
    /\ Overrun => broken /\ mu \notin Call
    /\ ~Overrun => TextIsHeld

-----------------------------------------------------------------------------
LEMMA InitLeavesNothing == Init => Leftovers
<1> SUFFICES ASSUME Init PROVE Leftovers
  OBVIOUS
<1>1. ~Overrun
  BY DEF Init, Overrun, Ended
<1>2. DOMAIN stdin = {} /\ DOMAIN out = {}
  BY DEF Init
<1> QED
  BY <1>1, <1>2 DEF Leftovers, TextIsHeld

\* While a call holds the shell no scan was overrun.
LEMMA HolderHasNotOverrun ==
    ASSUME Leftovers, mu \in Call
    PROVE  ~Overrun /\ TextIsHeld
  BY DEF Leftovers

\* No text is left but for a call that scans.
LEMMA NoTextUnheld ==
    ASSUME TypeOK, Leftovers, ~Overrun, mu \in Call => call[mu].pc # "scan"
    PROVE  \A i \in DOMAIN out : out[i].is # "text"
<1>1. \A i \in DOMAIN out : out[i].of \in Call
  <2>1. out \in Seq(Line)
    BY TypesInParts DEF PipeTypes
  <2>2. \A i \in DOMAIN out : out[i] \in Line
    BY <2>1, ElementOfSeq, LenProperties
  <2> QED
    BY <2>2 DEF Line
<1> QED
  BY <1>1 DEF Leftovers, TextIsHeld

\* Steps that touch neither stdin nor stdout, and end no scan.
LEMMA LeftAlone ==
    ASSUME TypeOK, Leftovers, UNCHANGED <<stdin, out, mu>>, broken => broken',
           \A d \in Call :
              /\ call[d].pc = "scan" => call'[d].pc = "scan"
              /\ Ended(d, {"overlong"})' <=> Ended(d, {"overlong"})
    PROVE  Leftovers'
<1>1. Overrun' <=> Overrun
  BY DEF Overrun
<1>2. TextIsHeld /\ mu \in Call => TextIsHeld'
  BY DEF TextIsHeld, IsMarker
<1>3. TextIsHeld /\ mu \notin Call => TextIsHeld'
  <2> SUFFICES ASSUME TextIsHeld, mu \notin Call PROVE TextIsHeld'
    OBVIOUS
  <2>1. \A i \in DOMAIN out : out[i].of \in Call
    <3>1. out \in Seq(Line)
      BY TypesInParts DEF PipeTypes
    <3>2. \A i \in DOMAIN out : out[i] \in Line
      BY <3>1, ElementOfSeq, LenProperties
    <3> QED
      BY <3>2 DEF Line
  <2>2. \A i \in DOMAIN out : out[i].is # "text"
    BY <2>1 DEF TextIsHeld
  <2> QED
    BY <2>2 DEF TextIsHeld
<1>4. \A i \in DOMAIN stdin' : stdin'[i] \in Call => call'[stdin'[i]].pc = "scan"
  BY DEF Leftovers
<1>5. Overrun' => broken' /\ mu' \notin Call
  BY <1>1 DEF Leftovers
<1> QED
  BY <1>1, <1>2, <1>3, <1>4, <1>5 DEF Leftovers

\* Steps after which stdout holds no text.
LEMMA NoTextLeft ==
    ASSUME Leftovers,
           ~Overrun => \A i \in DOMAIN out' : out'[i].is # "text",
           Overrun => broken' /\ mu' \notin Call,
           Overrun' <=> Overrun,
           \A i \in DOMAIN stdin' : stdin'[i] \in Call => call'[stdin'[i]].pc = "scan"
    PROVE  Leftovers'
<1>1. ~Overrun => TextIsHeld'
  BY DEF TextIsHeld
<1> QED
  BY <1>1 DEF Leftovers

\* One call moves, and not to the end of a scan that was overrun.
LEMMA OverrunStays ==
    ASSUME NEW c \in Call, \A d \in Call \ {c} : call'[d] = call[d],
           call[c].pc # "ended", call'[c].pc # "ended" \/ call'[c].result # "overlong"
    PROVE  Overrun' <=> Overrun
<1>1. \A d \in Call : Ended(d, {"overlong"})' <=> Ended(d, {"overlong"})
  BY DEF Ended
<1> QED
  BY <1>1 DEF Overrun

\* Steps of a call up to the write, and its return without a scan.
LEMMA UnscannedLeaves ==
    ASSUME IInv, Leftovers, NEW c \in Call,
           Refuse(c) \/ Lock(c) \/ GiveUp(c) \/ WriteFails(c) \/ Await(c)
    PROVE  Leftovers'
<1> USE DEF IInv
<1>1. /\ \A d \in Call \ {c} : call'[d] = call[d]
      /\ call[c].pc \in {"lock", "write", "await"}
      /\ call'[c].pc = "mark" \/ (call'[c].pc = "ended" /\ call'[c].result # "overlong")
  <2>1. CASE Lock(c)
    BY <2>1, CallMoves DEF Lock, Moves
  <2>2. CASE Refuse(c) \/ GiveUp(c) \/ WriteFails(c)
    <3>1. PICK r \in {"broken", "cancelled", "write"} : Return(c, r)
      BY <2>2 DEF Refuse, GiveUp, WriteFails
    <3>2. Moves(c, "ended") /\ call'[c].result = r
      BY <3>1, ReturnMoves DEF Result
    <3> QED
      BY <2>2, <3>2 DEF Refuse, GiveUp, WriteFails, Moves
  <2>3. CASE Await(c)
    <3>1. call \in [Call -> CallRecord]
      BY TypesInParts DEF CallTypes
    <3>2. PICK r \in {"dropped", "ok"} :
             call' = [call EXCEPT ![c].pc = "ended", ![c].stderr = buf, ![c].result = r]
      BY <2>3 DEF Await
    <3> QED
      BY <2>3, <3>1, <3>2 DEF Await, CallRecord
  <2> QED
    BY <2>1, <2>2, <2>3
<1>2. Overrun' <=> Overrun
  BY <1>1, OverrunStays
<1>3. /\ UNCHANGED <<stdin, out>>
      /\ mu = NoCall \/ mu = c
      /\ mu = NoCall /\ ~Refuse(c) => ~broken
  <2>1. call[c].pc \in {"write", "await"} => mu = c
    BY HolderIs DEF Holding
  <2>2. NoCall # c
    BY CallAssumption
  <2> QED
    BY <2>1, <2>2 DEF Refuse, Lock, GiveUp, WriteFails, Await, bashVars
<1>4. mu = NoCall => mu \notin Call
  BY HolderIs
<1>5. ~Overrun => \A i \in DOMAIN out' : out'[i].is # "text"
  BY <1>1, <1>3, <1>4, NoTextUnheld
<1>6. Overrun => broken' /\ mu' \notin Call
  <2>1. Overrun => Refuse(c)
    BY <1>3 DEF Leftovers
  <2> QED
    BY <2>1, CallAssumption DEF Leftovers, Refuse, Return
<1>7. \A d \in Call : call[d].pc = "scan" => call'[d].pc = "scan"
  BY <1>1
<1>8. \A i \in DOMAIN stdin' : stdin'[i] \in Call => call'[stdin'[i]].pc = "scan"
  BY <1>3, <1>7 DEF Leftovers
<1> QED
  BY <1>2, <1>5, <1>6, <1>8, NoTextLeft

LEMMA WriteLeaves ==
    ASSUME IInv, Leftovers, NEW c \in Call, Write(c)
    PROVE  Leftovers'
<1> USE DEF IInv
<1>1. Moves(c, "scan") /\ call[c].pc = "write" /\ mu = c /\ mu' = mu /\ out' = out
  BY CallMoves, HolderIs DEF Write, Holding
<1>2. ~Overrun
  BY <1>1, HolderHasNotOverrun
<1>3. Overrun' <=> Overrun
  BY <1>1, OverrunStays DEF Moves
<1>4. \A i \in DOMAIN out' : out'[i].is # "text"
  BY <1>1, <1>2, NoTextUnheld
<1>5. stdin' = <<c>>
  <2>1. stdin = <<>>
    BY <1>1 DEF Turn, Quiet
  <2> QED
    BY <2>1 DEF Write
<1>6. \A i \in DOMAIN stdin' : stdin'[i] \in Call => call'[stdin'[i]].pc = "scan"
  BY <1>1, <1>5 DEF Moves
<1> QED
  BY <1>2, <1>3, <1>4, <1>6, NoTextLeft

\* The marker is behind all the text there is.
LEMMA MarkerLeaves ==
    ASSUME IInv, Leftovers, NEW c \in Call, EndMarker(c) \/ BadMarker(c)
    PROVE  Leftovers'
<1> USE DEF IInv
<1>1. Scanned(c) /\ IsMarker(Head(out), c) /\ stdin' = stdin
  BY DEF EndMarker, BadMarker
<1>2. mu = c /\ Quiet
  BY <1>1, MarkerEnds
<1>3. ~Overrun /\ TextIsHeld
  BY <1>2, HolderHasNotOverrun
<1>4. /\ \A d \in Call \ {c} : call'[d] = call[d]
      /\ call'[c].pc = "await" \/ (call'[c].pc = "ended" /\ call'[c].result # "overlong")
  <2>1. CASE BadMarker(c)
    BY <2>1, ReturnMoves DEF BadMarker, Moves, Result
  <2>2. CASE EndMarker(c)
    <3>1. call \in [Call -> CallRecord]
      BY TypesInParts DEF CallTypes
    <3>2. call' = [call EXCEPT ![c].pc = "await", ![c].code = Head(out).code]
      BY <2>2 DEF EndMarker
    <3> QED
      BY <3>1, <3>2 DEF CallRecord
  <2> QED
    BY <2>1, <2>2
<1>5. Overrun' <=> Overrun
  BY <1>1, <1>4, OverrunStays DEF Scanned
<1>6. \A i \in DOMAIN out' : out'[i].is # "text"
  <2> SUFFICES ASSUME NEW i \in DOMAIN out', out'[i].is = "text" PROVE FALSE
    OBVIOUS
  <2>1. /\ i + 1 \in DOMAIN out /\ out'[i] = out[i + 1]
        /\ 1 \in DOMAIN out /\ Head(out) = out[1]
    BY <1>1, ScannedLeaves
  <2>2. i \in 1..Len(out')
    <3>1. out' \in Seq(Line)
      BY <1>1, ScannedLeaves
    <3> QED
      BY <3>1, LenProperties
  <2>3. 1 < i + 1
    BY <2>2
  <2> QED
    BY <1>1, <1>2, <1>3, <2>1, <2>3 DEF TextIsHeld
<1>7. DOMAIN stdin' = {}
  BY <1>1, <1>2 DEF Quiet
<1> QED
  BY <1>3, <1>5, <1>6, <1>7, NoTextLeft

\* The steps of the scan keep it going.
LEMMA LineMoves ==
    ASSUME TypeOK, NEW c \in Call, SendLine(c) \/ SendFails(c) \/ Drain(c)
    PROVE  /\ \A d \in Call \ {c} : call'[d] = call[d]
           /\ call[c].pc = "scan" /\ call'[c].pc = "scan"
<1>1. call \in [Call -> CallRecord]
  BY TypesInParts DEF CallTypes
<1>2. call[c].pc = "scan"
  BY DEF SendLine, SendFails, Drain, Scanned
<1>3. CASE SendLine(c)
  <2>1. PICK l, p : call' = [call EXCEPT ![c].lines = l, ![c].pending = p]
    BY <1>1, <1>3 DEF SendLine
  <2> QED
    BY <1>1, <1>2, <2>1 DEF CallRecord
<1>4. CASE SendFails(c)
  <2>1. PICK l : call' = [call EXCEPT ![c].lines = l, ![c].sendErr = TRUE]
    BY <1>1, <1>4 DEF SendFails
  <2> QED
    BY <1>1, <1>2, <2>1 DEF CallRecord
<1>5. CASE Drain(c)
  BY <1>2, <1>5 DEF Drain, goVars
<1> QED
  BY <1>3, <1>4, <1>5

LEMMA LineLeaves ==
    ASSUME IInv, Leftovers, NEW c \in Call, SendLine(c) \/ SendFails(c) \/ Drain(c)
    PROVE  Leftovers'
<1> USE DEF IInv
<1>1. Scanned(c) /\ UNCHANGED <<stdin, mu>> /\ mu = c /\ call[c].pc = "scan"
  BY HolderIs DEF SendLine, SendFails, Drain, Scanned, goVars, Holding
<1>2. ~Overrun /\ TextIsHeld
  BY <1>1, HolderHasNotOverrun
<1>3. (\A d \in Call \ {c} : call'[d] = call[d]) /\ call'[c].pc = "scan"
  BY LineMoves
<1>4. Overrun' <=> Overrun
  BY <1>1, <1>3, OverrunStays
<1>5. TextIsHeld'
  <2> SUFFICES ASSUME NEW i \in DOMAIN out', out'[i].is = "text"
               PROVE  /\ mu' = out'[i].of /\ call'[mu'].pc = "scan" /\ stdin' = <<>>
                      /\ \A j \in DOMAIN out' : j < i => ~IsMarker(out'[j], mu')
    BY DEF TextIsHeld, IsMarker
  <2>1. \A k \in DOMAIN out' : k \in Int /\ k + 1 \in DOMAIN out /\ out'[k] = out[k + 1]
    <3>1. out' \in Seq(Line)
      BY <1>1, ScannedLeaves
    <3>2. \A k \in DOMAIN out' : k \in Int
      BY <3>1, LenProperties
    <3> QED
      BY <1>1, <3>2, ScannedLeaves
  <2>2. \A j \in DOMAIN out' : j < i => j + 1 < i + 1
    BY <2>1
  <2>3. /\ mu = out[i + 1].of /\ stdin = <<>>
        /\ \A k \in DOMAIN out : k < i + 1 => ~IsMarker(out[k], mu)
    BY <1>2, <2>1 DEF TextIsHeld
  <2> QED
    BY <1>1, <1>3, <2>1, <2>2, <2>3
<1>6. \A i \in DOMAIN stdin' : stdin'[i] \in Call => call'[stdin'[i]].pc = "scan"
  BY <1>1, <1>3 DEF Leftovers
<1> QED
  BY <1>2, <1>4, <1>5, <1>6 DEF Leftovers

-----------------------------------------------------------------------------
(* A pipe of stdout that nobody writes to *)

\* bash writes to the pipe of stdout neither what it prints nor what it complains of.
Cut == bash.stdout # "pipe" /\ bash.stderr # "stdout"

\* The holder of a shell that is given up is draining stdout.  Once the pipe is cut no
\* script is written any more, and the shell is given up by the call that scans it,
\* whose marker is not there.
Shut ==
    /\ mu \in Call /\ broken => call[mu].sendErr
    /\ Cut =>
          /\ \A i \in DOMAIN stdin : stdin[i] \notin Call
          /\ ~broken => /\ mu \in Call /\ call[mu].pc = "scan"
                        /\ \A i \in DOMAIN out : ~IsMarker(out[i], mu)

\* What a call does up to its write.
LEMMA UnscannedShuts ==
    ASSUME IInv, Shut, NEW c \in Call,
           \/ Execute(c) \/ Cancel(c) \/ Mark(c) \/ Refuse(c) \/ Lock(c)
           \/ GiveUp(c) \/ WriteFails(c) \/ Write(c)
    PROVE  Shut'
<1> USE DEF IInv
<1>1. UNCHANGED <<out, bash>>
  BY DEF Execute, Cancel, Mark, Refuse, Lock, GiveUp, WriteFails, Write, bashVars
<1>2. call \in [Call -> CallRecord]
  BY TypesInParts DEF CallTypes
<1>3. CASE Execute(c) \/ Cancel(c) \/ Mark(c)
  <2>1. PICK p, x : call' = [call EXCEPT ![c].pc = p, ![c].cancelled = x]
                    /\ (call[c].pc = "scan" => p = "scan")
    <3>1. CASE Execute(c) \/ Mark(c)
      <4>1. PICK p : call' = [call EXCEPT ![c].pc = p] /\ call[c].pc # "scan"
        BY <3>1 DEF Execute, Mark
      <4>2. call' = [call EXCEPT ![c].pc = p, ![c].cancelled = call[c].cancelled]
        BY <1>2, <4>1 DEF CallRecord
      <4> QED
        BY <4>1, <4>2
    <3>2. CASE Cancel(c)
      <4>1. call' = [call EXCEPT ![c].cancelled = TRUE]
        BY <3>2 DEF Cancel
      <4>2. call' = [call EXCEPT ![c].pc = call[c].pc, ![c].cancelled = TRUE]
        BY <1>2, <4>1 DEF CallRecord
      <4> QED
        BY <4>2
    <3> QED
      BY <1>3, <3>1, <3>2
  <2>2. \A d \in Call : /\ call'[d].sendErr = call[d].sendErr
                        /\ call[d].pc = "scan" => call'[d].pc = "scan"
    BY <1>2, <2>1 DEF CallRecord
  <2>3. UNCHANGED <<mu, broken, stdin>>
    BY <1>3 DEF Execute, Cancel, Mark, bashVars
  <2> QED
    BY <1>1, <2>2, <2>3 DEF Shut, Cut, IsMarker
<1>4. CASE Refuse(c) \/ GiveUp(c) \/ WriteFails(c)
  <2>1. mu' = NoCall /\ stdin' = stdin /\ mu' \notin Call
    BY <1>4, CallAssumption DEF Refuse, GiveUp, WriteFails, Return, bashVars
  <2>2. Refuse(c) => broken /\ broken'
    BY DEF Refuse
  <2>3. GiveUp(c) => mu = c /\ call[c].pc # "scan" /\ broken' = broken
    BY HolderIs DEF GiveUp, Holding
  <2>4. WriteFails(c) => broken'
    BY DEF WriteFails
  <2> QED
    BY <1>1, <1>4, <2>1, <2>2, <2>3, <2>4 DEF Shut, Cut
<1>5. CASE Lock(c)
  <2>1. mu = NoCall /\ ~broken /\ ~broken'
    BY <1>5 DEF Lock
  <2>2. ~Cut
    BY <2>1, CallAssumption DEF Shut
  <2> QED
    BY <1>1, <2>1, <2>2 DEF Shut, Cut
<1>6. CASE Write(c)
  <2>1. call[c].pc = "write" /\ mu = c /\ mu' = mu /\ broken' = broken
    BY <1>6, HolderIs DEF Write, Holding
  <2>2. ~call[c].sendErr
    BY <2>1 DEF Scripts, Unwritten
  <2>3. ~broken /\ ~Cut
    BY <2>1, <2>2 DEF Shut
  <2> QED
    BY <1>1, <2>1, <2>3 DEF Shut, Cut
<1> QED
  BY <1>3, <1>4, <1>5, <1>6

\* What it does from then on.
LEMMA ScanShuts ==
    ASSUME IInv, Shut, NEW c \in Call,
           \/ EndMarker(c) \/ BadMarker(c) \/ SendLine(c) \/ SendFails(c) \/ Drain(c)
           \/ ScanFails(c) \/ Eof(c) \/ Await(c)
    PROVE  Shut'
<1> USE DEF IInv
<1>1. /\ UNCHANGED <<stdin, bash>>
      /\ call[c].pc \in {"scan", "await"}
      /\ mu = c
  BY HolderIs DEF EndMarker, BadMarker, SendLine, SendFails, Drain, ScanFails, Eof, Await,
                  Scanned, Holding, bashVars
<1>2. call \in [Call -> CallRecord]
  BY TypesInParts DEF CallTypes
<1>3. CASE EndMarker(c)
  <2>1. Scanned(c) /\ IsMarker(Head(out), c) /\ UNCHANGED <<mu, broken>>
    BY <1>3 DEF EndMarker
  <2>2. call' = [call EXCEPT ![c].pc = "await", ![c].code = Head(out).code]
    BY <1>3 DEF EndMarker
  <2>3. call'[c].sendErr = call[c].sendErr
    BY <1>2, <2>2 DEF CallRecord
  <2>4. 1 \in DOMAIN out /\ IsMarker(out[1], c) /\ call[c].pc = "scan"
    BY <2>1, ScannedLeaves DEF Scanned
  <2>5. Cut => broken
    BY <1>1, <2>4 DEF Shut
  <2> QED
    BY <1>1, <2>1, <2>3, <2>5 DEF Shut, Cut
<1>4. CASE BadMarker(c)
  <2>1. Scanned(c) /\ IsMarker(Head(out), c) /\ broken' = broken /\ mu' = NoCall
    BY <1>4 DEF BadMarker, Return
  <2>2. 1 \in DOMAIN out /\ IsMarker(out[1], c)
    BY <2>1, ScannedLeaves
  <2>3. Cut => broken
    BY <1>1, <2>2 DEF Shut
  <2> QED
    BY <1>1, <2>1, <2>3, CallAssumption DEF Shut, Cut
<1>5. CASE SendLine(c) \/ SendFails(c) \/ Drain(c)
  <2>1. Scanned(c) /\ mu' = mu
    BY <1>5 DEF SendLine, SendFails, Drain, goVars
  <2>2. call'[c].pc = "scan"
    BY <1>5, LineMoves
  <2>3. \A i \in DOMAIN out' : i + 1 \in DOMAIN out /\ out'[i] = out[i + 1]
    BY <2>1, ScannedLeaves
  <2>4. broken' => call'[c].sendErr
    <3>1. CASE SendLine(c)
      <4>1. PICK l, p : call' = [call EXCEPT ![c].lines = l, ![c].pending = p]
        BY <1>2, <3>1 DEF SendLine
      <4>2. call'[c].sendErr = call[c].sendErr
        BY <1>2, <4>1 DEF CallRecord
      <4> QED
        BY <1>1, <3>1, <4>2 DEF Shut, SendLine
    <3>2. CASE SendFails(c)
      <4>1. PICK l : call' = [call EXCEPT ![c].lines = l, ![c].sendErr = TRUE]
        BY <1>2, <3>2 DEF SendFails
      <4> QED
        BY <1>2, <4>1 DEF CallRecord
    <3>3. CASE Drain(c)
      BY <3>3 DEF Drain, goVars
    <3> QED
      BY <1>5, <3>1, <3>2, <3>3
  <2>5. broken => broken'
    BY <1>5 DEF SendLine, SendFails, Drain, goVars
  <2> QED
    BY <1>1, <2>1, <2>2, <2>3, <2>4, <2>5 DEF Shut, Cut, IsMarker
<1>6. CASE ScanFails(c) \/ Eof(c)
  <2>1. broken' /\ mu' \notin Call
    BY <1>6, CallAssumption DEF ScanFails, Eof, Return
  <2> QED
    BY <1>1, <2>1 DEF Shut, Cut
<1>7. CASE Await(c)
  <2>1. ~Lost(c) /\ mu' \notin Call
    BY <1>7, CallAssumption DEF Await, Lost
  <2>2. ~Cut
    BY <2>1 DEF Marks, Cut
  <2> QED
    BY <1>1, <2>1, <2>2 DEF Shut, Cut
<1> QED
  BY <1>3, <1>4, <1>5, <1>6, <1>7

\* What a step of a command does to the pipe of stdout: once cut it stays so, and
\* nothing is printed on it.
LEMMA CutByCommand ==
    ASSUME IInv, NEW c \in Call, Command(c)
    PROVE  /\ Cut => Cut' /\ out' = out
           /\ ~RedirectOut(c) => (Cut' => Cut)
<1> USE DEF IInv
<1>1. bash \in [up : BOOLEAN, at : Call \cup {NoCall}, ec : Call \cup {NoCall},
                ate : BOOLEAN, stdout : {"pipe", "nowhere"},
                stderr : {"pipe", "traced", "stdout", "nowhere"},
                held : BOOLEAN, tricks : 0..MaxTricks]
  BY TypesInParts DEF BashTypes
<1>2. (Cut => Cut') /\ (~RedirectOut(c) => (Cut' => Cut))
  <2>1. CASE Emit(c) \/ EmitErr(c)
    BY <2>1 DEF Emit, EmitErr, Cut
  <2>2. CASE RedirectOut(c)
    <3>1. bash.stdout = "pipe"
      BY <2>2 DEF RedirectOut
    <3> QED
      BY <2>2, <3>1 DEF Cut
  <2>3. CASE RedirectErr(c)
    <3> DEFINE n == bash.tricks + 1
    <3>1. /\ bash.stderr = "pipe"
          /\ \E to \in {"traced", "stdout", "nowhere"} :
                /\ to = "stdout" => bash.stdout = "pipe"
                /\ bash' = [bash EXCEPT !.stderr = to, !.tricks = n]
      BY <2>3 DEF RedirectErr
    <3> HIDE DEF n
    <3> QED
      BY <1>1, <3>1 DEF Cut
  <2>4. CASE EatLine(c)
    <3> DEFINE n == bash.tricks + 1
    <3>1. bash' = [bash EXCEPT !.ate = TRUE, !.tricks = n]
      BY <2>4 DEF EatLine
    <3> HIDE DEF n
    <3> QED
      BY <1>1, <3>1 DEF Cut
  <2>5. CASE Quit(c)
    BY <1>1, <2>5 DEF Quit, Cut
  <2>6. CASE Finish(c)
    <3> DEFINE ec == IF bash.ate THEN bash.ec ELSE c
    <3>1. bash' = [bash EXCEPT !.at = NoCall, !.ec = ec, !.ate = FALSE]
      BY <2>6 DEF Finish
    <3> HIDE DEF ec
    <3> QED
      BY <1>1, <3>1 DEF Cut
  <2> QED
    BY <2>1, <2>2, <2>3, <2>4, <2>5, <2>6 DEF Command
<1>3. ASSUME Cut
      PROVE  out' = out
  <2>1. CASE Finish(c)
    <3>1. PICK ec, rest : out' = out \o Script(c, ec, rest)
      BY <2>1 DEF Finish
    <3>2. Script(c, ec, rest) = <<>>
      BY <1>3 DEF Script, Cut
    <3>3. out \in Seq(Line)
      BY TypesInParts DEF PipeTypes
    <3> QED
      BY <3>1, <3>2, <3>3, ConcatEmptySeq
  <2>2. ~Emit(c)
    BY <1>3 DEF Emit, Cut
  <2> QED
    BY <2>1, <2>2 DEF Command, EmitErr, RedirectOut, RedirectErr, EatLine, Quit
<1> QED
  BY <1>2, <1>3

\* The command that cuts the pipe is that of the call which scans, or of one that has
\* given the shell up.
LEMMA CommandShuts ==
    ASSUME IInv, Shut, NEW c \in Call, Command(c)
    PROVE  Shut'
<1> USE DEF IInv
<1>1. Running(c) /\ UNCHANGED <<call, mu, broken, stdin>>
  BY DEF Command, Emit, EmitErr, RedirectOut, RedirectErr, EatLine, Trick, Quit, Finish,
         goVars
<1>2. CASE RedirectOut(c)
  <2>1. out' = out
    BY <1>2 DEF RedirectOut
  <2>2. \A i \in DOMAIN stdin : stdin[i] \notin Call
    BY <1>1, RunningIs
  <2>3. ~broken => mu = c /\ call[c].pc = "scan"
    BY <1>1, RunningIs
  <2>4. \A i \in DOMAIN out : ~IsMarker(out[i], c)
    <3>1. ~printed[c].over
      BY <1>1, RunningIs
    <3> QED
      BY <3>1 DEF Marks, IsMarker
  <2> QED
    BY <1>1, <2>1, <2>2, <2>3, <2>4 DEF Shut, IsMarker
<1>3. CASE ~RedirectOut(c)
  BY <1>1, <1>3, CutByCommand DEF Shut, IsMarker
<1> QED
  BY <1>2, <1>3

LEMMA NextShuts == IInv /\ Shut /\ [Next]_vars => Shut'
<1> SUFFICES ASSUME IInv, Shut, [Next]_vars
             PROVE  Shut'
  OBVIOUS
<1> USE DEF IInv
<1>1. ASSUME NEW c \in Call, Execute(c) \/ Cancel(c) \/ Stream(c)
      PROVE  Shut'
  BY <1>1, UnscannedShuts, ScanShuts DEF Stream
<1>2. ASSUME NEW c \in Call, Command(c)
      PROVE  Shut'
  BY <1>2, CommandShuts
<1>3. CASE ReadStderr \/ UNCHANGED vars
  BY <1>3 DEF ReadStderr, vars, goVars, bashVars, Shut, Cut, IsMarker
<1>4. CASE LetGo
  <2>1. bash'.stdout = bash.stdout /\ bash'.stderr = bash.stderr
    BY <1>4, TypesInParts DEF LetGo, BashTypes
  <2>2. UNCHANGED <<call, mu, broken, stdin, out>>
    BY <1>4 DEF LetGo, goVars
  <2> QED
    BY <2>1, <2>2 DEF Shut, Cut, IsMarker
<1>5. stdin \in Seq(Call \cup {Closer})
  BY TypesInParts DEF PipeTypes
<1>6. CASE Close
  <2>1. mu = NoCall /\ mu' = Closer /\ UNCHANGED <<broken, bash>>
    BY <1>6 DEF Close
  <2>2. Cut => broken
    BY <2>1, CallAssumption DEF Shut
  <2>3. ASSUME \A i \in DOMAIN stdin : stdin[i] \notin Call
        PROVE  \A i \in DOMAIN stdin' : stdin'[i] \notin Call
    <3>1. CASE stdin' = stdin
      BY <2>3, <3>1
    <3>2. CASE stdin' = Append(stdin, Closer)
      <4>1. Closer \notin Call
        BY CallAssumption
      <4>2. /\ stdin' \in Seq(Call \cup {Closer}) /\ Len(stdin') = Len(stdin) + 1
            /\ \A i \in 1..Len(stdin) : stdin'[i] = stdin[i]
            /\ stdin'[Len(stdin) + 1] = Closer
        BY <1>5, <3>2, AppendProperties
      <4>3. /\ DOMAIN stdin = 1..Len(stdin) /\ Len(stdin) \in Nat
            /\ DOMAIN stdin' = 1..Len(stdin')
        BY <1>5, <4>2, LenProperties
      <4> QED
        BY <2>3, <4>1, <4>2, <4>3
    <3> QED
      BY <1>6, <3>1, <3>2 DEF Close
  <2> QED
    BY <2>1, <2>2, <2>3, CallAssumption DEF Shut, Cut
<1>7. CASE Waited
  <2>1. mu = Closer /\ mu' \notin Call /\ UNCHANGED <<broken, stdin, bash>>
    BY <1>7, CallAssumption DEF Waited, TypeOK
  <2> QED
    BY <2>1, CallAssumption DEF Shut, Cut
<1>8. CASE Take
  <2>1. /\ UNCHANGED <<call, mu, broken, out>>
        /\ stdin # <<>> /\ stdin' = Tail(stdin)
    BY <1>8 DEF Take, goVars
  <2>2. bash'.stdout = bash.stdout /\ bash'.stderr = bash.stderr
    <3> DEFINE h == Head(stdin)
    <3>1. bash' = [bash EXCEPT !.up = FALSE] \/ bash' = [bash EXCEPT !.at = h]
      BY <1>8 DEF Take
    <3> HIDE DEF h
    <3> QED
      BY <3>1, TypesInParts DEF BashTypes
  <2>3. \A i \in DOMAIN stdin' : i + 1 \in DOMAIN stdin /\ stdin'[i] = stdin[i + 1]
    <3>1. /\ stdin' \in Seq(Call \cup {Closer}) /\ Len(stdin') = Len(stdin) - 1
          /\ \A i \in 1..Len(stdin') : stdin'[i] = stdin[i + 1]
      BY <1>5, <2>1, HeadTailProperties
    <3>2. DOMAIN stdin = 1..Len(stdin) /\ DOMAIN stdin' = 1..Len(stdin')
          /\ Len(stdin) \in Nat
      BY <1>5, <3>1, LenProperties
    <3> QED
      BY <3>1, <3>2
  <2> QED
    BY <2>1, <2>2, <2>3 DEF Shut, Cut, IsMarker
<1> QED
  BY <1>1, <1>2, <1>3, <1>4, <1>6, <1>7, <1>8 DEF Next

\* Cut pipes stay cut.
LEMMA CutStays == IInv /\ Cut /\ [Next]_vars => Cut'
<1> SUFFICES ASSUME IInv, Cut, [Next]_vars
             PROVE  Cut'
  OBVIOUS
<1>1. bash \in [up : BOOLEAN, at : Call \cup {NoCall}, ec : Call \cup {NoCall},
                ate : BOOLEAN, stdout : {"pipe", "nowhere"},
                stderr : {"pipe", "traced", "stdout", "nowhere"},
                held : BOOLEAN, tricks : 0..MaxTricks]
  BY TypesInParts DEF IInv, BashTypes
<1>2. ASSUME NEW c \in Call, Execute(c) \/ Cancel(c) \/ Stream(c)
      PROVE  bash' = bash
  BY <1>2 DEF Execute, Cancel, Stream, Refuse, Lock, Mark, GiveUp, Write, WriteFails,
              EndMarker, BadMarker, SendLine, SendFails, Drain, ScanFails, Eof, Await,
              bashVars
<1>3. ASSUME NEW c \in Call, Command(c)
      PROVE  Cut'
  BY <1>3, CutByCommand
<1>4. CASE ReadStderr \/ Close \/ Waited \/ UNCHANGED vars
  BY <1>4 DEF ReadStderr, Close, Waited, vars, bashVars, Cut
<1>5. CASE Take
  <2> DEFINE h == Head(stdin)
  <2>1. bash' = [bash EXCEPT !.up = FALSE] \/ bash' = [bash EXCEPT !.at = h]
    BY <1>5 DEF Take
  <2> HIDE DEF h
  <2> QED
    BY <1>1, <2>1 DEF Cut
<1>6. CASE LetGo
  BY <1>1, <1>6 DEF LetGo, Cut
<1> QED
  BY <1>2, <1>3, <1>4, <1>5, <1>6 DEF Next, Cut

\* A scan that met the end of stdout while bash was still to run its script, or at it,
\* met it because the pipe is cut.
Unread == \A c \in Call : Pending(c) /\ Ended(c, {"eof"}) => Cut

\* Only Eof ends a call so.
LEMMA EofOnly ==
    ASSUME TypeOK, NEW c \in Call, Execute(c) \/ Cancel(c) \/ Stream(c)
    PROVE  /\ \A d \in Call \ {c} : call'[d] = call[d]
           /\ ~Eof(c) => call'[c].pc # "ended" \/ call'[c].result # "eof"
<1>1. call \in [Call -> CallRecord]
  BY TypesInParts DEF CallTypes
<1>2. CASE Execute(c) \/ Cancel(c) \/ Lock(c) \/ Mark(c) \/ Write(c)
  <2>1. PICK pc \in Pc : Moves(c, pc) /\ pc # "ended"
    <3>1. call[c].pc \in Pc
      BY <1>1 DEF CallRecord
    <3> QED
      BY <1>2, <3>1, CallMoves DEF Execute, Cancel, Lock, Mark, Write, Pc
  <2> QED
    BY <2>1 DEF Moves
<1>3. CASE Refuse(c) \/ GiveUp(c) \/ WriteFails(c) \/ BadMarker(c) \/ ScanFails(c)
           \/ Eof(c)
  <2>1. PICK r \in {"broken", "cancelled", "write", "parse", "overlong", "eof"} :
            Return(c, r) /\ (r = "eof" => Eof(c))
    BY <1>3 DEF Refuse, GiveUp, WriteFails, BadMarker, ScanFails, Eof
  <2>2. Moves(c, "ended") /\ call'[c].result = r
    BY <2>1, ReturnMoves DEF Result
  <2> QED
    BY <2>1, <2>2 DEF Moves
<1>4. CASE SendLine(c) \/ SendFails(c) \/ Drain(c)
  BY <1>4, LineMoves
<1>5. CASE EndMarker(c)
  <2>1. call' = [call EXCEPT ![c].pc = "await", ![c].code = Head(out).code]
    BY <1>5 DEF EndMarker
  <2> QED
    BY <1>1, <2>1 DEF CallRecord
<1>6. CASE Await(c)
  <2>1. PICK r \in {"dropped", "ok"} :
           call' = [call EXCEPT ![c].pc = "ended", ![c].stderr = buf, ![c].result = r]
    BY <1>6 DEF Await
  <2> QED
    BY <1>1, <2>1 DEF CallRecord
<1> QED
  BY <1>2, <1>3, <1>4, <1>5, <1>6 DEF Stream

LEMMA NextUnread == IInv /\ Unread /\ [Next]_vars => Unread'
<1> SUFFICES ASSUME IInv, Unread, [Next]_vars
             PROVE  Unread'
  OBVIOUS
<1> USE DEF IInv
<1>1. Cut => Cut'
  BY CutStays
<1>2. ASSUME \A d \in Call : Pending(d)' => Pending(d),
             \A d \in Call : Ended(d, {"eof"})' => Ended(d, {"eof"})
      PROVE  Unread'
  BY <1>1, <1>2 DEF Unread
<1>3. stdin \in Seq(Call \cup {Closer})
  BY TypesInParts DEF PipeTypes
<1>4. ASSUME NEW c \in Call, Execute(c) \/ Cancel(c) \/ Stream(c), ~Write(c), ~Eof(c)
      PROVE  Unread'
  <2>1. \A d \in Call : Ended(d, {"eof"})' => Ended(d, {"eof"})
    BY <1>4, EofOnly DEF Ended
  <2>2. UNCHANGED <<stdin, bash>>
    BY <1>4 DEF Execute, Cancel, Stream, Refuse, Lock, Mark, GiveUp, WriteFails,
                EndMarker, BadMarker, SendLine, SendFails, Drain, ScanFails, Await,
                bashVars
  <2> QED
    BY <1>2, <2>1, <2>2 DEF Pending
<1>5. ASSUME NEW c \in Call, Write(c)
      PROVE  Unread'
  <2>1. Moves(c, "scan") /\ call[c].pc = "write" /\ mu = c
    BY <1>5, CallMoves, HolderIs DEF Write, Holding
  <2>2. Quiet /\ stdin' = <<c>> /\ bash' = bash
    <3>1. Quiet
      BY <2>1 DEF Turn
    <3> QED
      BY <1>5, <3>1 DEF Quiet, Write
  <2>3. \A d \in Call : Pending(d)' => d = c
    BY <2>2, CallAssumption DEF Pending, Quiet
  <2> QED
    BY <2>1, <2>3 DEF Unread, Moves, Ended
<1>6. ASSUME NEW c \in Call, Eof(c)
      PROVE  Unread'
  <2>1. /\ mu = c /\ call[c].pc = "scan" /\ UNCHANGED <<stdin, bash>> /\ Unheld
        /\ \A d \in Call \ {c} : call'[d] = call[d]
    BY <1>6, HolderIs, EofOnly DEF Eof, Holding, bashVars, Stream
  <2>2. Pending(c) => bash.up
    <3>1. bash.at = c => bash.up
      BY CallAssumption DEF Tricks
    <3>2. (\E i \in DOMAIN stdin : stdin[i] = c) => bash.up
      BY <2>1 DEF Turn, Quiet
    <3> QED
      BY <3>1, <3>2 DEF Pending
  <2>3. Pending(c) => Cut
    BY <2>1, <2>2 DEF Unheld, Cut
  <2>4. \A d \in Call \ {c} : Pending(d) /\ Ended(d, {"eof"})' => Cut
    BY <2>1 DEF Unread, Ended
  <2> QED
    BY <1>1, <2>1, <2>3, <2>4 DEF Unread, Pending
<1>7. ASSUME NEW c \in Call, Command(c)
      PROVE  Unread'
  <2>1. Running(c) /\ UNCHANGED <<call, stdin>>
    BY <1>7 DEF Command, Emit, EmitErr, RedirectOut, RedirectErr, EatLine, Trick, Quit,
                Finish, goVars
  <2>2. bash'.at \in {bash.at, NoCall}
    <3> DEFINE n == bash.tricks + 1
               ec == IF bash.ate THEN bash.ec ELSE c
    <3>1. bash \in [up : BOOLEAN, at : Call \cup {NoCall}, ec : Call \cup {NoCall},
                    ate : BOOLEAN, stdout : {"pipe", "nowhere"},
                    stderr : {"pipe", "traced", "stdout", "nowhere"},
                    held : BOOLEAN, tricks : 0..MaxTricks]
      BY TypesInParts DEF BashTypes
    <3>2. \/ bash' = bash
          \/ \E held : bash' = [bash EXCEPT !.stdout = "nowhere", !.held = held,
                                            !.tricks = n]
          \/ \E to : bash' = [bash EXCEPT !.stderr = to, !.tricks = n]
          \/ bash' = [bash EXCEPT !.ate = TRUE, !.tricks = n]
          \/ \E held : bash' = [bash EXCEPT !.up = FALSE, !.at = NoCall, !.held = held]
          \/ bash' = [bash EXCEPT !.at = NoCall, !.ec = ec, !.ate = FALSE]
      BY <1>7 DEF Command, Emit, EmitErr, RedirectOut, RedirectErr, EatLine, Quit, Finish
    <3> HIDE DEF n, ec
    <3> QED
      BY <3>1, <3>2
  <2> QED
    BY <1>2, <2>1, <2>2, CallAssumption DEF Pending, Ended
<1>8. CASE ReadStderr \/ Waited \/ LetGo \/ UNCHANGED vars
  <2>1. UNCHANGED <<call, stdin>> /\ bash'.at = bash.at
    BY <1>8, TypesInParts DEF ReadStderr, Waited, LetGo, vars, goVars, bashVars, BashTypes
  <2> QED
    BY <1>2, <2>1 DEF Pending, Ended
<1>9. CASE Close
  <2>1. UNCHANGED <<call, bash>>
    BY <1>9 DEF Close
  <2>2. \A d \in Call : Pending(d)' => Pending(d)
    <3>1. CASE stdin' = stdin
      BY <2>1, <3>1 DEF Pending
    <3>2. CASE stdin' = Append(stdin, Closer)
      <4>1. Closer \notin Call
        BY CallAssumption
      <4>2. /\ stdin' \in Seq(Call \cup {Closer}) /\ Len(stdin') = Len(stdin) + 1
            /\ \A i \in 1..Len(stdin) : stdin'[i] = stdin[i]
            /\ stdin'[Len(stdin) + 1] = Closer
        BY <1>3, <3>2, AppendProperties
      <4>3. /\ DOMAIN stdin = 1..Len(stdin) /\ Len(stdin) \in Nat
            /\ DOMAIN stdin' = 1..Len(stdin')
        BY <1>3, <4>2, LenProperties
      <4>4. \A i \in DOMAIN stdin' :
                stdin'[i] \in Call => i \in DOMAIN stdin /\ stdin[i] = stdin'[i]
        BY <4>1, <4>2, <4>3
      <4> QED
        BY <2>1, <4>4 DEF Pending
    <3> QED
      BY <1>9, <3>1, <3>2 DEF Close
  <2> QED
    BY <1>2, <2>1, <2>2 DEF Ended
<1>10. CASE Take
  <2>1. /\ call' = call /\ stdin # <<>> /\ stdin' = Tail(stdin)
        /\ bash.at = NoCall
    BY <1>10 DEF Take, goVars
  <2>2. bash'.at = NoCall \/ bash'.at = Head(stdin)
    <3> DEFINE h == Head(stdin)
    <3>1. bash' = [bash EXCEPT !.up = FALSE] \/ bash' = [bash EXCEPT !.at = h]
      BY <1>10 DEF Take
    <3> HIDE DEF h
    <3>2. bash'.at = NoCall \/ bash'.at = h
      BY <2>1, <3>1, TypesInParts DEF BashTypes
    <3> QED
      BY <3>2 DEF h
  <2>3. /\ 1 \in DOMAIN stdin /\ Head(stdin) = stdin[1]
        /\ \A i \in DOMAIN stdin' : i + 1 \in DOMAIN stdin /\ stdin'[i] = stdin[i + 1]
    <3>1. /\ stdin' \in Seq(Call \cup {Closer}) /\ Len(stdin') = Len(stdin) - 1
          /\ \A i \in 1..Len(stdin') : stdin'[i] = stdin[i + 1]
      BY <1>3, <2>1, HeadTailProperties
    <3>2. DOMAIN stdin = 1..Len(stdin) /\ DOMAIN stdin' = 1..Len(stdin')
          /\ Len(stdin) \in Nat \ {0}
      BY <1>3, <2>1, <3>1, LenProperties, EmptySeq
    <3>3. Head(stdin) = stdin[1]
      BY <1>3, <2>1
    <3> QED
      BY <3>1, <3>2, <3>3
  <2>4. \A d \in Call : Pending(d)' => Pending(d)
    BY <2>2, <2>3, CallAssumption DEF Pending
  <2> QED
    BY <1>2, <2>1, <2>4 DEF Ended
<1> QED
  BY <1>4, <1>5, <1>6, <1>7, <1>8, <1>9, <1>10 DEF Next

-----------------------------------------------------------------------------
(* The scan's other ends, Close and bash *)

\* A line that is too long is of the script that bash has taken, and nothing follows the
\* end of the pipe.
LEMMA OverrunLeaves ==
    ASSUME IInv, Shut, Leftovers, NEW c \in Call, ScanFails(c) \/ Eof(c)
    PROVE  Leftovers'
<1> USE DEF IInv
<1>1. /\ mu = c /\ call[c].pc = "scan" /\ broken' /\ UNCHANGED <<stdin, out>>
      /\ mu' = NoCall
  BY HolderIs DEF ScanFails, Eof, Holding, bashVars, Return
<1>2. ~Overrun /\ TextIsHeld
  BY <1>1, HolderHasNotOverrun
<1>3. CASE ScanFails(c)
  <2>1. Moves(c, "ended") /\ call'[c].result = "overlong"
    BY <1>3, ReturnMoves DEF ScanFails, Result
  <2>2. Overrun'
    BY <2>1 DEF Moves, Overrun, Ended
  <2>3. stdin = <<>>
    <3>1. out \in Seq(Line) /\ out # <<>> /\ Head(out).is = "text"
      BY <1>3, TypesInParts DEF ScanFails, PipeTypes
    <3>2. 1 \in DOMAIN out /\ Head(out) = out[1]
      BY <3>1, EmptySeq, LenProperties
    <3> QED
      BY <1>2, <3>1, <3>2 DEF TextIsHeld
  <2>4. DOMAIN stdin' = {}
    BY <1>1, <2>3
  <2>5. mu' \notin Call
    BY <1>1, CallAssumption
  <2> QED
    BY <1>1, <2>2, <2>4, <2>5 DEF Leftovers
<1>4. CASE Eof(c)
  <2>1. Moves(c, "ended") /\ call'[c].result = "eof"
    BY <1>4, ReturnMoves DEF Eof, Result
  <2>2. Overrun' <=> Overrun
    BY <1>1, <2>1, OverrunStays DEF Moves
  <2>3. \A i \in DOMAIN stdin' : stdin'[i] \notin Call
    <3>1. CASE ~bash.up
      <4>1. printed[c].over
        BY <1>1, <3>1, CallAssumption DEF Turn, Tricks
      <4> QED
        BY <1>1, <4>1 DEF Turn, Quiet
    <3>2. CASE Cut
      BY <1>1, <3>2 DEF Shut
    <3> QED
      BY <1>4, <3>1, <3>2 DEF Eof, Unheld, Cut
  <2>5. DOMAIN out' = {}
    BY <1>1, <1>4 DEF Eof
  <2> QED
    BY <1>2, <2>2, <2>3, <2>5, NoTextLeft
<1> QED
  BY <1>3, <1>4

LEMMA CloseLeaves ==
    ASSUME IInv, Leftovers, Close
    PROVE  Leftovers'
<1> USE DEF IInv
<1>1. mu = NoCall /\ mu' = Closer /\ UNCHANGED <<call, broken, out>>
  BY DEF Close
<1>2. Overrun' <=> Overrun
  BY <1>1 DEF Overrun, Ended
<1>3. ~Overrun => \A i \in DOMAIN out' : out'[i].is # "text"
  BY <1>1, CallAssumption, NoTextUnheld
<1>4. \A i \in DOMAIN stdin' :
          stdin'[i] \in Call => stdin'[i] = stdin[i] /\ i \in DOMAIN stdin
  <2>1. CASE stdin' = stdin
    BY <2>1
  <2>2. CASE stdin' = Append(stdin, Closer)
    <3>1. stdin \in Seq(Call \cup {Closer}) /\ Closer \notin Call
      BY TypesInParts, CallAssumption DEF PipeTypes
    <3>2. /\ stdin' \in Seq(Call \cup {Closer}) /\ Len(stdin') = Len(stdin) + 1
          /\ \A i \in 1..Len(stdin) : stdin'[i] = stdin[i]
          /\ stdin'[Len(stdin) + 1] = Closer
      BY <2>2, <3>1, AppendProperties
    <3>3. /\ DOMAIN stdin = 1..Len(stdin) /\ Len(stdin) \in Nat
          /\ DOMAIN stdin' = 1..Len(stdin')
      BY <3>1, <3>2, LenProperties
    <3> QED
      BY <3>1, <3>2, <3>3
  <2> QED
    BY <2>1, <2>2 DEF Close
<1>5. \A i \in DOMAIN stdin' : stdin'[i] \in Call => call'[stdin'[i]].pc = "scan"
  BY <1>1, <1>4 DEF Leftovers
<1>6. Overrun => broken' /\ mu' \notin Call
  BY <1>1, CallAssumption DEF Leftovers
<1> QED
  BY <1>2, <1>3, <1>5, <1>6, NoTextLeft

LEMMA WaitedLeaves ==
    ASSUME Leftovers, Waited
    PROVE  Leftovers'
<1>1. UNCHANGED <<call, broken, stdin>> /\ mu' = NoCall /\ DOMAIN out' = {}
  BY DEF Waited
<1>2. Overrun' <=> Overrun
  BY <1>1 DEF Overrun, Ended
<1>3. mu' \notin Call
  BY <1>1, CallAssumption
<1>4. \A i \in DOMAIN stdin' : stdin'[i] \in Call => call'[stdin'[i]].pc = "scan"
  BY <1>1 DEF Leftovers
<1>5. Overrun => broken'
  BY <1>1 DEF Leftovers
<1> QED
  BY <1>1, <1>2, <1>3, <1>4, <1>5, NoTextLeft

LEMMA TakeLeaves ==
    ASSUME IInv, Leftovers, Take
    PROVE  Leftovers'
<1> USE DEF IInv
<1>1. /\ UNCHANGED <<call, mu, broken, out>>
      /\ stdin # <<>> /\ stdin' = Tail(stdin)
  BY DEF Take, goVars
<1>2. Overrun' <=> Overrun
  BY <1>1 DEF Overrun, Ended
<1>3. ~Overrun => \A i \in DOMAIN out' : out'[i].is # "text"
  BY <1>1 DEF Leftovers, TextIsHeld
<1>4. \A i \in DOMAIN stdin' : i + 1 \in DOMAIN stdin /\ stdin'[i] = stdin[i + 1]
  <2>1. stdin \in Seq(Call \cup {Closer})
    BY TypesInParts DEF PipeTypes
  <2>2. /\ stdin' \in Seq(Call \cup {Closer}) /\ Len(stdin') = Len(stdin) - 1
        /\ \A i \in 1..Len(stdin') : stdin'[i] = stdin[i + 1]
    BY <1>1, <2>1, HeadTailProperties
  <2>3. DOMAIN stdin = 1..Len(stdin) /\ DOMAIN stdin' = 1..Len(stdin') /\ Len(stdin) \in Nat
    BY <2>1, <2>2, LenProperties
  <2> QED
    BY <2>2, <2>3
<1>5. \A i \in DOMAIN stdin' : stdin'[i] \in Call => call'[stdin'[i]].pc = "scan"
  BY <1>1, <1>4 DEF Leftovers
<1>6. Overrun => broken' /\ mu' \notin Call
  BY <1>1 DEF Leftovers
<1> QED
  BY <1>2, <1>3, <1>5, <1>6, NoTextLeft

\* The elements of what was joined, by their indices.
LEMMA JoinedAt ==
    ASSUME NEW s \in Seq(Line), NEW w \in Seq(Line), NEW r, Joined(r, s, w)
    PROVE  /\ DOMAIN s = 1..Len(s) /\ DOMAIN w = 1..Len(w)
           /\ Len(s) \in Nat /\ Len(w) \in Nat
           /\ DOMAIN r = 1..(Len(s) + Len(w))
           /\ \A i \in DOMAIN r : r[i] = IF i <= Len(s) THEN s[i] ELSE w[i - Len(s)]
<1>1. /\ r \in Seq(Line) /\ Len(r) = Len(s) + Len(w)
      /\ \A i \in 1..(Len(s) + Len(w)) :
            r[i] = IF i <= Len(s) THEN s[i] ELSE w[i - Len(s)]
  BY ConcatProperties DEF Joined
<1>2. DOMAIN r = 1..Len(r)
  BY <1>1, LenProperties
<1> QED
  BY <1>1, <1>2, LenProperties

\* What a command prints comes behind no marker of its own.
LEMMA PrintLeaves ==
    ASSUME IInv, Leftovers, NEW c \in Call, Running(c), ~Ended(c, {"eof"}),
           UNCHANGED <<call, mu, broken, stdin>>,
           NEW w \in Seq(Line), Joined(out', out, w),
           \A k \in DOMAIN w : w[k].of = c /\ (w[k].is = "text" => k = 1)
    PROVE  Leftovers'
<1> USE DEF IInv
<1>1. Overrun' <=> Overrun
  BY DEF Overrun, Ended
<1>2. ASSUME ~Overrun
      PROVE  TextIsHeld'
  <2>1. mu = c /\ call[c].pc = "scan" /\ stdin = <<>>
    <3>1. call[c].pc = "scan"
      BY <1>2, RunningIs DEF Overrun, Ended
    <3>2. mu = c
      BY <3>1, HolderIs DEF Holding
    <3> QED
      BY <3>1, <3>2, RunningIs
  <2>2. \A j \in DOMAIN out : ~IsMarker(out[j], c)
    BY RunningIs DEF Marks, IsMarker
  <2>3. TextIsHeld
    BY <1>2 DEF Leftovers
  <2>4. out \in Seq(Line)
    BY TypesInParts DEF PipeTypes
  <2>5. /\ DOMAIN out = 1..Len(out) /\ DOMAIN w = 1..Len(w)
        /\ Len(out) \in Nat /\ Len(w) \in Nat
        /\ DOMAIN out' = 1..(Len(out) + Len(w))
        /\ \A i \in DOMAIN out' :
              out'[i] = IF i <= Len(out) THEN out[i] ELSE w[i - Len(out)]
    BY <2>4, JoinedAt
  <2> SUFFICES ASSUME NEW i \in DOMAIN out', out'[i].is = "text"
               PROVE  /\ c = out'[i].of
                      /\ \A j \in DOMAIN out' : j < i => ~IsMarker(out'[j], c)
    BY <2>1 DEF TextIsHeld, IsMarker
  <2>6. i <= Len(out) + 1 /\ c = out'[i].of
    <3>1. CASE i <= Len(out)
      BY <2>1, <2>3, <2>5, <3>1 DEF TextIsHeld
    <3>2. CASE ~(i <= Len(out))
      <4>1. i - Len(out) \in DOMAIN w /\ out'[i] = w[i - Len(out)]
        BY <2>5, <3>2
      <4>2. i - Len(out) = 1 /\ out'[i].of = c
        BY <4>1
      <4> QED
        BY <2>5, <4>2
    <3> QED
      BY <2>5, <3>1, <3>2
  <2>7. \A j \in DOMAIN out' : j < i => j \in DOMAIN out /\ out'[j] = out[j]
    BY <2>5, <2>6
  <2> QED
    BY <2>2, <2>6, <2>7
<1>3. \A i \in DOMAIN stdin' : stdin'[i] \in Call => call'[stdin'[i]].pc = "scan"
  BY DEF Leftovers
<1> QED
  BY <1>1, <1>2, <1>3 DEF Leftovers

\* What follows the first line.
LEMMA BehindFirst ==
    ASSUME NEW y \in Line, NEW z \in Seq(Line), NEW w, Joined(w, <<y>>, z)
    PROVE  \A k \in DOMAIN w : k # 1 => k - 1 \in DOMAIN z /\ w[k] = z[k - 1]
<1>1. ASSUME NEW s \in Seq(Line), Len(s) = 1, Joined(w, s, z)
      PROVE  \A k \in DOMAIN w : k # 1 => k - 1 \in DOMAIN z /\ w[k] = z[k - 1]
  <2>1. DOMAIN z = 1..Len(z) /\ Len(z) \in Nat
    BY LenProperties
  <2>2. DOMAIN w = 1..(Len(s) + Len(z))
    BY <1>1, JoinedAt
  <2>3. \A k \in DOMAIN w : w[k] = IF k <= Len(s) THEN s[k] ELSE z[k - Len(s)]
    BY <1>1, JoinedAt
  <2> QED
    BY <1>1, <2>1, <2>2, <2>3
<1>2. <<y>> \in Seq(Line) /\ Len(<<y>>) = 1
  OBVIOUS
<1> QED
  BY <1>1, <1>2

\* In what a script prints, the end of the command's last line comes first.
LEMMA TextComesFirst ==
    ASSUME NEW c \in Call, NEW ec \in Call \cup {NoCall},
           NEW rest \in {<<>>, <<TextOf(c, "text")>>}
    PROVE  \A k \in DOMAIN Script(c, ec, rest) : Script(c, ec, rest)[k].is = "text" => k = 1
<1> DEFINE b == TextOf(c, "blank")
           x == TextOf(c, "text")
           m == MarkerOf(c, ec)
           n == MarkerOf(c, NoCall)
           w == Script(c, ec, rest)
<1>1. b \in Line /\ x \in Line /\ m \in Line /\ n \in Line
  BY LineTypes
<1>2. b.is # "text" /\ m.is # "text" /\ n.is # "text"
  BY DEF TextOf, MarkerOf
<1>3. rest = <<>> \/ rest = <<x>>
  OBVIOUS
<1>4. CASE bash.stdout # "pipe"
  <2>1. w = <<n>> \/ w = <<>>
    BY <1>4 DEF Script
  <2> HIDE DEF b, x, m, n, w
  <2>2. \A k \in DOMAIN <<n>> : <<n>>[k].is # "text"
    BY <1>2
  <2>3. \A k \in DOMAIN <<>> : FALSE
    OBVIOUS
  <2>4. \A k \in DOMAIN w : w[k].is # "text"
    BY <2>1, <2>2, <2>3
  <2> QED
    BY <2>4 DEF w
<1>5. CASE bash.stdout = "pipe"
  <2>1. \E y \in {n, b, x}, z \in {<<b, m>>, <<m>>} : w = <<y>> \o z
    <3>1. CASE bash.stderr = "stdout"
      <4>1. w = (IF rest = <<>> THEN <<n>> ELSE rest) \o <<b, m>>
        BY <1>5, <3>1 DEF Script
      <4> HIDE DEF b, x, m, n, w
      <4>2. w = <<n>> \o <<b, m>> \/ w = <<x>> \o <<b, m>>
        BY <1>3, <4>1
      <4> QED
        BY <4>2
    <3>2. CASE bash.stderr # "stdout"
      <4>1. w = (IF rest = <<>> THEN <<b>> ELSE rest) \o <<m>>
        BY <1>5, <3>2 DEF Script
      <4> HIDE DEF b, x, m, n, w
      <4>2. w = <<b>> \o <<m>> \/ w = <<x>> \o <<m>>
        BY <1>3, <4>1
      <4> QED
        BY <4>2
    <3> QED
      BY <3>1, <3>2
  <2> HIDE DEF b, x, m, n, w
  <2>2. PICK y \in {n, b, x}, z \in {<<b, m>>, <<m>>} : w = <<y>> \o z
    BY <2>1
  <2>3. z \in Seq(Line) /\ \A k \in DOMAIN z : z[k].is # "text"
    <3>1. CASE z = <<m>>
      BY <1>1, <1>2, <3>1
    <3>2. CASE z = <<b, m>>
      <4>1. z \in Seq(Line) /\ DOMAIN z = {1, 2} /\ z[1] = b /\ z[2] = m
        BY <1>1, <3>2
      <4> QED
        BY <1>2, <4>1
    <3> QED
      BY <3>1, <3>2
  <2>4. Joined(w, <<y>>, z) /\ y \in Line
    BY <1>1, <2>2 DEF Joined
  <2>5. \A k \in DOMAIN w : k # 1 => k - 1 \in DOMAIN z /\ w[k] = z[k - 1]
    BY <2>3, <2>4, BehindFirst
  <2> QED
    BY <2>3, <2>5 DEF w
<1> QED
  BY <1>4, <1>5

LEMMA CommandLeaves ==
    ASSUME IInv, Unread, Leftovers, NEW c \in Call, Command(c)
    PROVE  Leftovers'
<1> USE DEF IInv
<1>1. Running(c) /\ UNCHANGED <<call, mu, broken, stdin>>
  BY DEF Command, Emit, EmitErr, RedirectOut, RedirectErr, EatLine, Trick, Quit, Finish,
         goVars
<1>2. CASE Cut \/ EmitErr(c) \/ RedirectOut(c) \/ RedirectErr(c) \/ EatLine(c)
           \/ Quit(c)
  <2>1. out' = out
    BY <1>2, CutByCommand DEF EmitErr, RedirectOut, RedirectErr, EatLine, Quit
  <2>2. \A d \in Call : Ended(d, {"overlong"})' <=> Ended(d, {"overlong"})
    BY <1>1 DEF Ended
  <2> QED
    BY <1>1, <2>1, <2>2, LeftAlone
<1>3. ~Cut => ~Ended(c, {"eof"})
  BY <1>1 DEF Unread, Pending, Running
<1>4. CASE ~Cut /\ Emit(c)
  <2>1. PICK is \in {"text", "blank"} : out' = Append(out, TextOf(c, is))
    BY <1>4 DEF Emit
  <2> DEFINE x == TextOf(c, is)
             w == <<x>>
  <2>2. x \in Line /\ x.of = c
    BY LineTypes DEF TextOf
  <2>3. out \in Seq(Line) /\ out' = Append(out, x)
    BY <2>1, TypesInParts DEF PipeTypes
  <2> HIDE DEF x
  <2>4. /\ Joined(out', out, w) /\ w \in Seq(Line)
        /\ \A k \in DOMAIN w : w[k].of = c /\ (w[k].is = "text" => k = 1)
    BY <2>2, <2>3, JoinedLine
  <2> HIDE DEF w
  <2> QED
    BY <1>1, <1>4, <1>3, <2>4, PrintLeaves
<1>5. CASE ~Cut /\ Finish(c)
  <2>1. PICK ec \in Call \cup {NoCall}, rest \in {<<>>, <<TextOf(c, "text")>>} :
            out' = out \o Script(c, ec, rest)
    <3>1. bash.ec \in Call \cup {NoCall}
      BY TypesInParts DEF BashTypes
    <3> QED
      BY <1>5, <3>1 DEF Finish
  <2> DEFINE w == Script(c, ec, rest)
  <2>2. w \in Seq(Line) /\ \A k \in DOMAIN w : w[k].of = c
    BY ScriptIs
  <2>3. \A k \in DOMAIN w : w[k].is = "text" => k = 1
    BY TextComesFirst
  <2>4. Joined(out', out, w)
    BY <2>1 DEF Joined
  <2> HIDE DEF w
  <2> QED
    BY <1>1, <1>5, <1>3, <2>2, <2>3, <2>4, PrintLeaves
<1> QED
  BY <1>2, <1>4, <1>5 DEF Command

LEMMA NextLeaves ==
    IInv /\ Shut /\ Unread /\ Leftovers /\ [Next]_vars => Leftovers'
<1> SUFFICES ASSUME IInv, Shut, Unread, Leftovers, [Next]_vars
             PROVE  Leftovers'
  OBVIOUS
<1>1. TypeOK
  BY DEF IInv
<1>2. ASSUME NEW c \in Call, Execute(c) \/ Cancel(c) \/ Mark(c)
      PROVE  Leftovers'
  <2>1. PICK pc : Moves(c, pc) /\ pc # "ended" /\ call[c].pc # "ended"
                  /\ (call[c].pc = "scan" => pc = "scan")
    BY <1>1, <1>2, CallMoves DEF Execute, Cancel, Mark
  <2>2. \A d \in Call :
            /\ call[d].pc = "scan" => call'[d].pc = "scan"
            /\ Ended(d, {"overlong"})' <=> Ended(d, {"overlong"})
    BY <2>1 DEF Moves, Ended
  <2>3. UNCHANGED <<stdin, out, mu, broken>>
    BY <1>2 DEF Execute, Cancel, Mark, bashVars
  <2> QED
    BY <1>1, <2>2, <2>3, LeftAlone
<1>3. ASSUME NEW c \in Call, Stream(c)
      PROVE  Leftovers'
  BY <1>2, <1>3, UnscannedLeaves, WriteLeaves, MarkerLeaves, LineLeaves, OverrunLeaves
     DEF Stream
<1>4. ASSUME NEW c \in Call, Command(c)
      PROVE  Leftovers'
  BY <1>4, CommandLeaves
<1>5. CASE ReadStderr \/ LetGo \/ UNCHANGED vars
  <2>1. UNCHANGED <<call, stdin, out, mu, broken>>
    BY <1>5 DEF ReadStderr, LetGo, vars, goVars, bashVars
  <2>2. \A d \in Call : Ended(d, {"overlong"})' <=> Ended(d, {"overlong"})
    BY <2>1 DEF Ended
  <2> QED
    BY <1>1, <2>1, <2>2, LeftAlone
<1>6. CASE Close \/ Waited \/ Take
  BY <1>6, CloseLeaves, WaitedLeaves, TakeLeaves
<1> QED
  BY <1>2, <1>3, <1>4, <1>5, <1>6 DEF Next

\* Nothing that one command leaves on stdout is taken for another's.
THEOREM LeavesNoText == Spec => []Leftovers
<1>1. Init => Leftovers
  BY InitLeavesNothing
<1>2. IInv /\ Shut /\ Unread /\ Leftovers /\ [Next]_vars => Leftovers'
  BY NextLeaves
<1>3. Init => Shut /\ Unread
  BY DEF Init, Shut, Unread, Ended, Cut
<1>4. IInv /\ Shut /\ Unread /\ [Next]_vars => Shut' /\ Unread'
  BY NextShuts, NextUnread
<1> QED
  BY <1>1, <1>2, <1>3, <1>4, Invariance, PTL DEF Spec

-----------------------------------------------------------------------------
(* The steps of the shell, as steps of ShellPromise *)

over == {c \in Call : printed[c].over}
wrote == [c \in Call |-> [out |-> printed[c].out, err |-> printed[c].err]]
answer == [c \in Call |-> Answer(c)]

LEMMA PromiseInit == Init => Promise!Init
<1> SUFFICES ASSUME Init PROVE Promise!Init
  OBVIOUS
<1>1. \A c \in Call : Answer(c) = Promise!Unanswered
  BY DEF Init, Answer, Promise!Unanswered
<1> QED
  BY <1>1 DEF Init, Promise!Init

\* What the promise sees of calls that are not answered by the step.
LEMMA NotAnswered ==
    ASSUME NEW c \in Call, \A d \in Call \ {c} : call'[d] = call[d],
           call[c].pc # "ended", call'[c].pc # "ended"
    PROVE  answer' = answer
<1>1. \A d \in Call : Answer(d)' = Answer(d)
  BY DEF Answer
<1> QED
  BY <1>1 DEF answer

\* A call is answered.
LEMMA Answered ==
    ASSUME NEW c \in Call, \A d \in Call \ {c} : call'[d] = call[d],
           call[c].pc # "ended", UNCHANGED <<bash, printed>>,
           NEW reply, Answer(c)' = reply
    PROVE  Promise!Reply(c, reply)
<1>1. \A d \in Call \ {c} : Answer(d)' = Answer(d)
  BY DEF Answer
<1>2. answer[c] = Promise!Unanswered
  BY DEF answer, Answer, Promise!Unanswered
<1>3. answer' = [answer EXCEPT ![c] = reply]
  BY <1>1 DEF answer
<1> QED
  BY <1>2, <1>3 DEF answer, Promise!Reply

\* A call that fails promises nothing.
LEMMA FailStep ==
    ASSUME TypeOK, NEW c \in Call, NEW result \in Result \ {"ok", "dropped"},
           Return(c, result), call[c].pc # "ended", UNCHANGED <<bash, printed>>
    PROVE  Promise!Next
<1>1. /\ \A d \in Call \ {c} : call'[d] = call[d]
      /\ call'[c].pc = "ended" /\ call'[c].result = result
  BY ReturnMoves DEF Moves
<1>2. Answer(c)' = Promise!Failure
  BY <1>1 DEF Answer, Promise!Failure
<1>3. Promise!Fail(c)
  BY <1>1, <1>2, Answered DEF Promise!Fail
<1> QED
  BY <1>3 DEF Promise!Next

\* A call that has its marker is answered for its own command.
LEMMA AwaitStep ==
    ASSUME IInv, IInv', NEW c \in Call, Await(c)
    PROVE  Promise!Next
<1>1. call[c].pc = "await" /\ UNCHANGED <<bash, printed>>
  BY DEF Await, bashVars
<1>2. PICK r \in {"dropped", "ok"} :
          call' = [call EXCEPT ![c].pc = "ended", ![c].stderr = buf, ![c].result = r]
  BY DEF Await
<1>3. /\ \A d \in Call \ {c} : call'[d] = call[d]
      /\ call'[c].pc = "ended" /\ call'[c].result = r
      /\ call'[c].lines = call[c].lines
  <2>1. call \in [Call -> CallRecord]
    BY TypesInParts DEF IInv, CallTypes
  <2> QED
    BY <1>2, <2>1 DEF CallRecord
<1>4. c \in over
  BY <1>1 DEF IInv, Scripts, over
<1>5. CASE r = "ok"
  <2> DEFINE reply == Promise!Success(wrote[c].out, call'[c].stderr, call'[c].code)
  <2>1. Ended(c, {"ok"})'
    BY <1>3, <1>5 DEF Ended
  <2>2. call'[c].lines = wrote[c].out
    BY <1>1, <2>1 DEF IInv, OwnLines, wrote
  <2>3. Answer(c)' = reply
    BY <1>3, <1>5, <2>2 DEF Answer, Promise!Success
  <2>4. Promise!Reply(c, reply)
    BY <1>1, <1>3, <2>3, Answered
  <2>5. answer'[c].stderr = call'[c].stderr /\ answer'[c].code = call'[c].code
    BY <1>3, <1>5 DEF answer, Answer
  <2>6. bash.tricks = 0 => call'[c].stderr = wrote[c].err /\ call'[c].code = c
    BY <1>1, <2>1 DEF IInv, OwnAnswer, wrote
  <2>7. Promise!Succeed(c)
    BY <1>4, <2>4, <2>5, <2>6 DEF Promise!Succeed, over, wrote, answer
  <2> QED
    BY <2>7 DEF Promise!Next
<1>6. CASE r = "dropped"
  <2> DEFINE p == printed[c].out
             l == call'[c].lines
  <2>1. Ended(c, {"dropped"})'
    BY <1>3, <1>6 DEF Ended
  <2>2. IsPrefix(l, p)
    BY <1>1, <2>1 DEF IInv, OwnLines
  <2>3. l \in Seq(Line) /\ p \in Seq(Line)
    BY <1>3, LinesTypes DEF IInv
  <2>4. PICK n \in 0..Len(p) : l = SubSeq(p, 1, n)
    <3>1. Len(l) \in 0..Len(p) /\ l = SubSeq(p, 1, Len(l))
      BY <2>2, <2>3, LenProperties, SubSeqFull DEF IsPrefix
    <3> QED
      BY <3>1
  <2> DEFINE reply == Promise!CutShort(SubSeq(p, 1, n))
  <2>5. Answer(c)' = reply
    BY <1>3, <1>6, <2>4 DEF Answer, Promise!CutShort
  <2>6. Promise!Reply(c, reply)
    BY <1>1, <1>3, <2>5, Answered
  <2>7. wrote[c].out = p
    BY DEF wrote
  <2>8. Promise!StopShort(c)
    BY <1>4, <2>4, <2>6, <2>7 DEF Promise!StopShort, over, wrote, answer
  <2> QED
    BY <2>8 DEF Promise!Next
<1> QED
  BY <1>5, <1>6

\* bash begins with a script whose call waits for it.
LEMMA TakeStep ==
    ASSUME IInv, Leftovers, Take
    PROVE  [Promise!Next]_Promise!vars
<1> USE DEF IInv
<1>1. /\ UNCHANGED <<call, printed>> /\ bash.at = NoCall /\ stdin # <<>>
      /\ bash' = IF Head(stdin) = Closer THEN [bash EXCEPT !.up = FALSE]
                                         ELSE [bash EXCEPT !.at = Head(stdin)]
  BY DEF Take, goVars
<1>2. UNCHANGED <<over, wrote, answer>>
  <2>1. \A d \in Call : Answer(d)' = Answer(d)
    BY <1>1 DEF Answer
  <2> QED
    BY <1>1, <2>1 DEF over, wrote, answer
<1>3. /\ bash'.tricks = bash.tricks
      /\ bash'.at = IF Head(stdin) = Closer THEN NoCall ELSE Head(stdin)
  <2> DEFINE h == Head(stdin)
  <2>1. bash \in [up : BOOLEAN, at : Call \cup {NoCall}, ec : Call \cup {NoCall},
                 ate : BOOLEAN, stdout : {"pipe", "nowhere"},
                 stderr : {"pipe", "traced", "stdout", "nowhere"},
                 held : BOOLEAN, tricks : 0..MaxTricks]
    BY TypesInParts DEF BashTypes
  <2>2. bash' = IF h = Closer THEN [bash EXCEPT !.up = FALSE]
                              ELSE [bash EXCEPT !.at = h]
    BY <1>1
  <2> HIDE DEF h
  <2>3. bash'.tricks = bash.tricks /\ bash'.at = IF h = Closer THEN NoCall ELSE h
    BY <1>1, <2>1, <2>2
  <2> QED
    BY <2>3 DEF h
<1>4. CASE Head(stdin) = Closer
  BY <1>1, <1>2, <1>3, <1>4 DEF Promise!vars, over, wrote, answer
<1>5. CASE Head(stdin) # Closer
  <2> DEFINE c == Head(stdin)
  <2>1. stdin \in Seq(Call \cup {Closer})
    BY TypesInParts DEF PipeTypes
  <2>2. c \in Call /\ 1 \in DOMAIN stdin /\ stdin[1] = c
    BY <1>1, <1>5, <2>1, EmptySeq, LenProperties, HeadTailProperties
  <2>3. call[c].pc = "scan"
    BY <2>2 DEF Leftovers
  <2>4. c \notin over
    BY <2>2 DEF Scripts, Pending, over
  <2>5. answer[c] = Promise!Unanswered
    BY <2>2, <2>3 DEF answer, Answer, Promise!Unanswered
  <2>6. Promise!Begin(c)
    BY <1>1, <1>2, <1>3, <1>5, <2>4, <2>5 DEF Promise!Begin, over, wrote, answer
  <2> QED
    BY <2>2, <2>6 DEF Promise!Next
<1> QED
  BY <1>4, <1>5

\* A command prints, spoils the shell or ends.
LEMMA CommandStep ==
    ASSUME IInv, NEW c \in Call, Command(c)
    PROVE  [Promise!Next]_Promise!vars
<1> USE DEF IInv
<1>1. call' = call /\ bash.at = c /\ c # NoCall
  <2>1. Running(c) /\ call' = call
    BY DEF Command, Emit, EmitErr, RedirectOut, RedirectErr, EatLine, Trick, Quit, Finish,
           goVars
  <2> QED
    BY <2>1, RunningIs
<1>2. answer' = answer
  <2>1. \A d \in Call : Answer(d)' = Answer(d)
    BY <1>1 DEF Answer
  <2> QED
    BY <2>1 DEF answer
<1>3. printed \in [Call -> [out : Seq(Line), err : Seq(Line), over : BOOLEAN]]
  BY TypesInParts DEF BashTypes
<1>4. bash \in [up : BOOLEAN, at : Call \cup {NoCall}, ec : Call \cup {NoCall},
                ate : BOOLEAN, stdout : {"pipe", "nowhere"},
                stderr : {"pipe", "traced", "stdout", "nowhere"},
                held : BOOLEAN, tricks : 0..MaxTricks]
  BY TypesInParts DEF BashTypes
<1>5. ASSUME NEW o, printed'[c].out = o, printed'[c].err = printed[c].err,
             \A d \in Call \ {c} : printed'[d] = printed[d]
      PROVE  wrote' = [wrote EXCEPT ![c].out = o]
  <2>1. \A d \in Call \ {c} :
            [out |-> printed'[d].out, err |-> printed'[d].err] = wrote[d]
    BY <1>5 DEF wrote
  <2>2. [out |-> printed'[c].out, err |-> printed'[c].err] = [wrote[c] EXCEPT !.out = o]
    BY <1>5 DEF wrote
  <2> QED
    BY <2>1, <2>2 DEF wrote
<1>6. CASE Emit(c)
  <2>1. PICK is \in {"text", "blank"} :
            printed' = [printed EXCEPT ![c].out = Append(@, TextOf(c, is))]
    BY <1>6 DEF Emit
  <2> DEFINE x == TextOf(c, is)
             o == Append(printed[c].out, x)
  <2>2. printed' = [printed EXCEPT ![c].out = o]
    BY <1>3, <2>1
  <2> HIDE DEF o, x
  <2>3. /\ printed'[c].out = o /\ printed'[c].err = printed[c].err
        /\ printed'[c].over = printed[c].over
        /\ \A d \in Call \ {c} : printed'[d] = printed[d]
    BY <1>3, <2>2
  <2>4. wrote' = [wrote EXCEPT ![c].out = o]
    BY <1>5, <2>3
  <2>5. o = Append(wrote[c].out, x)
    BY DEF o, wrote
  <2>6. wrote' = [wrote EXCEPT ![c].out = Append(@, x)]
    BY <2>4, <2>5 DEF wrote
  <2>7. over' = over
    BY <2>3 DEF over
  <2>8. bash' = bash
    BY <1>6 DEF Emit
  <2>9. Promise!Write(c, x)
    BY <1>1, <1>2, <2>6, <2>7, <2>8 DEF Promise!Write, wrote, over, answer
  <2>10. x \in Line
    BY LineTypes DEF x
  <2> QED
    BY <2>9, <2>10 DEF Promise!Next
<1>7. CASE EmitErr(c)
  <2> DEFINE x == TextOf(c, "text")
             e == Append(printed[c].err, x)
  <2>1. printed' = [printed EXCEPT ![c].err = e]
    BY <1>3, <1>7 DEF EmitErr
  <2> HIDE DEF e, x
  <2>2. /\ printed'[c].err = e /\ printed'[c].out = printed[c].out
        /\ printed'[c].over = printed[c].over
        /\ \A d \in Call \ {c} : printed'[d] = printed[d]
    BY <1>3, <2>1
  <2>3. wrote' = [wrote EXCEPT ![c].err = e]
    <3>1. \A d \in Call \ {c} :
              [out |-> printed'[d].out, err |-> printed'[d].err] = wrote[d]
      BY <2>2 DEF wrote
    <3>2. [out |-> printed'[c].out, err |-> printed'[c].err] = [wrote[c] EXCEPT !.err = e]
      BY <2>2 DEF wrote
    <3> QED
      BY <3>1, <3>2 DEF wrote
  <2>4. e = Append(wrote[c].err, x)
    BY DEF e, wrote
  <2>5. wrote' = [wrote EXCEPT ![c].err = Append(@, x)]
    BY <2>3, <2>4 DEF wrote
  <2>6. over' = over
    BY <2>2 DEF over
  <2>7. bash' = bash
    BY <1>7 DEF EmitErr
  <2>8. Promise!Write(c, x)
    BY <1>1, <1>2, <2>5, <2>6, <2>7 DEF Promise!Write, wrote, over, answer
  <2>9. x \in Line
    BY LineTypes DEF x
  <2> QED
    BY <2>8, <2>9 DEF Promise!Next
<1>8. CASE RedirectOut(c) \/ RedirectErr(c) \/ EatLine(c)
  <2>1. bash'.at = bash.at /\ bash'.tricks # 0 /\ printed' = printed
    <3> DEFINE n == bash.tricks + 1
    <3>1. n # 0
      <4>1. bash.tricks \in Nat
        BY <1>4, BoundAssumption
      <4> QED
        BY <4>1
    <3>2. /\ RedirectOut(c) => \E held \in BOOLEAN :
              bash' = [bash EXCEPT !.stdout = "nowhere", !.held = held, !.tricks = n]
          /\ RedirectErr(c) => \E to \in {"traced", "stdout", "nowhere"} :
              bash' = [bash EXCEPT !.stderr = to, !.tricks = n]
          /\ EatLine(c) => bash' = [bash EXCEPT !.ate = TRUE, !.tricks = n]
          /\ printed' = printed
      BY <1>8 DEF RedirectOut, RedirectErr, EatLine
    <3> HIDE DEF n
    <3> QED
      BY <1>4, <1>8, <3>1, <3>2
  <2>2. wrote' = wrote /\ over' = over
    BY <2>1 DEF wrote, over
  <2>3. Promise!Spoil
    BY <1>1, <1>2, <2>1, <2>2 DEF Promise!Spoil, wrote, over, answer
  <2> QED
    BY <2>3 DEF Promise!Next
<1>9. CASE Quit(c)
  <2>1. bash'.at = NoCall /\ bash'.tricks = bash.tricks
    BY <1>4, <1>9 DEF Quit
  <2>2. /\ printed'[c].out = printed[c].out /\ printed'[c].err = printed[c].err
        /\ printed'[c].over /\ \A d \in Call \ {c} : printed'[d] = printed[d]
    BY <1>3, <1>9 DEF Quit
  <2>3. wrote' = wrote
    <3>1. \A d \in Call :
              [out |-> printed'[d].out, err |-> printed'[d].err] = wrote[d]
      BY <2>2 DEF wrote
    <3> QED
      BY <3>1 DEF wrote
  <2>4. over' = over \cup {c}
    BY <2>2 DEF over
  <2>5. Promise!End(c)
    BY <1>1, <1>2, <2>1, <2>3, <2>4 DEF Promise!End, wrote, over, answer
  <2> QED
    BY <2>5 DEF Promise!Next
<1>10. CASE Finish(c)
  <2> DEFINE ec == IF bash.ate THEN bash.ec ELSE c
  <2>1. PICK rest \in {<<>>, <<TextOf(c, "text")>>} :
            /\ bash' = [bash EXCEPT !.at = NoCall, !.ec = ec, !.ate = FALSE]
            /\ printed' = [printed EXCEPT ![c].out = @ \o rest, ![c].over = TRUE]
    BY <1>10 DEF Finish
  <2> DEFINE x == TextOf(c, "text")
             p == printed[c].out
             o == p \o rest
  <2> HIDE DEF ec
  <2>2. bash'.at = NoCall /\ bash'.tricks = bash.tricks
    BY <1>4, <2>1
  <2>3. /\ printed'[c].out = o /\ printed'[c].err = printed[c].err
        /\ printed'[c].over /\ \A d \in Call \ {c} : printed'[d] = printed[d]
    <3>1. printed'[c] = [printed[c] EXCEPT !.out = o, !.over = TRUE]
      BY <1>3, <2>1
    <3>2. \A d \in Call \ {c} : printed'[d] = printed[d]
      BY <1>3, <2>1
    <3> HIDE DEF o
    <3> QED
      BY <1>3, <3>1, <3>2
  <2>4. over' = over \cup {c}
    BY <2>3 DEF over
  <2>5. p \in Seq(Line) /\ x \in Line
    BY LinesTypes, LineTypes
  <2>6. o = p \/ o = Append(p, x)
    <3>1. rest = <<>> \/ rest = <<x>>
      OBVIOUS
    <3>2. p \o <<>> = p /\ Append(p, x) = p \o <<x>>
      BY <2>5, ConcatEmptySeq, AppendIsConcat
    <3> QED
      BY <3>1, <3>2
  <2> HIDE DEF o, p, x
  <2>7. wrote' = [wrote EXCEPT ![c].out = o]
    BY <1>5, <2>3
  <2>8. wrote[c].out = p
    BY DEF wrote, p
  <2>9. wrote' = wrote \/ wrote' = [wrote EXCEPT ![c].out = Append(@, x)]
    <3>1. CASE o = p
      <4>1. wrote' = [wrote EXCEPT ![c].out = wrote[c].out]
        BY <2>7, <2>8, <3>1
      <4>2. wrote[c] = [wrote[c] EXCEPT !.out = wrote[c].out]
        BY DEF wrote
      <4>3. wrote = [wrote EXCEPT ![c] = wrote[c]]
        BY DEF wrote
      <4> QED
        BY <4>1, <4>2, <4>3
    <3>2. CASE o = Append(p, x)
      <4>1. o = Append(wrote[c].out, x)
        BY <2>8, <3>2
      <4> QED
        BY <2>7, <4>1 DEF wrote
    <3> QED
      BY <2>6, <3>1, <3>2
  <2>10. Promise!End(c)
    BY <1>1, <1>2, <2>2, <2>4, <2>5, <2>9 DEF Promise!End, wrote, over, answer
  <2> QED
    BY <2>10 DEF Promise!Next
<1> QED
  BY <1>6, <1>7, <1>8, <1>9, <1>10 DEF Command

LEMMA PromiseStep ==
    IInv /\ IInv' /\ Leftovers /\ [Next]_vars => [Promise!Next]_Promise!vars
<1> SUFFICES ASSUME IInv, IInv', Leftovers, [Next]_vars
             PROVE  [Promise!Next]_Promise!vars
  OBVIOUS
<1>1. TypeOK
  BY DEF IInv
<1>2. ASSUME UNCHANGED <<bash, printed>>, answer' = answer
      PROVE  [Promise!Next]_Promise!vars
  BY <1>2 DEF Promise!vars, answer
<1>3. ASSUME NEW c \in Call, UNCHANGED <<bash, printed>>,
             \A d \in Call \ {c} : call'[d] = call[d],
             call[c].pc # "ended", call'[c].pc # "ended"
      PROVE  [Promise!Next]_Promise!vars
  BY <1>2, <1>3, NotAnswered
<1>4. ASSUME NEW c \in Call, Execute(c) \/ Cancel(c) \/ Lock(c) \/ Mark(c) \/ Write(c)
      PROVE  [Promise!Next]_Promise!vars
  <2>1. PICK pc : Moves(c, pc) /\ pc # "ended" /\ call[c].pc # "ended"
    BY <1>1, <1>4, CallMoves DEF Execute, Cancel, Lock, Mark, Write
  <2>2. UNCHANGED <<bash, printed>>
    BY <1>4 DEF Execute, Cancel, Lock, Mark, Write, bashVars
  <2> QED
    BY <1>3, <2>1, <2>2 DEF Moves
<1>5. ASSUME NEW c \in Call, SendLine(c) \/ SendFails(c) \/ Drain(c) \/ EndMarker(c)
      PROVE  [Promise!Next]_Promise!vars
  <2>1. UNCHANGED <<bash, printed>>
    BY <1>5 DEF SendLine, SendFails, Drain, EndMarker
  <2>2. CASE SendLine(c) \/ SendFails(c) \/ Drain(c)
    BY <1>3, <2>1, <2>2, LineMoves DEF IInv
  <2>3. CASE EndMarker(c)
    <3>1. call \in [Call -> CallRecord]
      BY <1>1, TypesInParts DEF CallTypes
    <3>2. call' = [call EXCEPT ![c].pc = "await", ![c].code = Head(out).code]
      BY <2>3 DEF EndMarker
    <3>3. call[c].pc = "scan"
      BY <2>3 DEF EndMarker, Scanned
    <3>4. /\ \A d \in Call \ {c} : call'[d] = call[d]
          /\ call'[c].pc = "await"
      BY <3>1, <3>2 DEF CallRecord
    <3> QED
      BY <1>3, <2>1, <3>3, <3>4
  <2> QED
    BY <1>5, <2>2, <2>3
<1>6. ASSUME NEW c \in Call,
             Refuse(c) \/ GiveUp(c) \/ WriteFails(c) \/ BadMarker(c) \/ ScanFails(c)
                \/ Eof(c)
      PROVE  [Promise!Next]_Promise!vars
  <2>1. PICK r \in {"broken", "cancelled", "write", "parse", "overlong", "eof"} :
            Return(c, r)
    BY <1>6 DEF Refuse, GiveUp, WriteFails, BadMarker, ScanFails, Eof
  <2>2. call[c].pc # "ended" /\ UNCHANGED <<bash, printed>>
    BY <1>6 DEF Refuse, GiveUp, WriteFails, BadMarker, ScanFails, Eof, Scanned, bashVars
  <2>3. r \in Result \ {"ok", "dropped"}
    BY DEF Result
  <2> QED
    BY <1>1, <2>1, <2>2, <2>3, FailStep
<1>7. ASSUME NEW c \in Call, Stream(c)
      PROVE  [Promise!Next]_Promise!vars
  BY <1>4, <1>5, <1>6, <1>7, AwaitStep DEF Stream
<1>8. ASSUME NEW c \in Call, Command(c)
      PROVE  [Promise!Next]_Promise!vars
  BY <1>8, CommandStep
<1>9. CASE ReadStderr \/ Close \/ Waited \/ UNCHANGED vars
  <2>1. UNCHANGED <<call, bash, printed>>
    BY <1>9 DEF ReadStderr, Close, Waited, vars, goVars, bashVars
  <2>2. \A d \in Call : Answer(d)' = Answer(d)
    BY <2>1 DEF Answer
  <2> QED
    BY <1>2, <2>1, <2>2 DEF answer
<1>10. CASE Take
  BY <1>10, TakeStep
<1>11. CASE LetGo
  <2>1. UNCHANGED <<call, printed>> /\ bash'.at = bash.at /\ bash'.tricks = bash.tricks
    BY <1>1, <1>11, TypesInParts DEF LetGo, goVars, BashTypes
  <2>2. \A d \in Call : Answer(d)' = Answer(d)
    BY <2>1 DEF Answer
  <2> QED
    BY <2>1, <2>2 DEF Promise!vars
<1> QED
  BY <1>4, <1>7, <1>8, <1>9, <1>10, <1>11 DEF Next

\* bashShell keeps the promises of ShellPromise: the commands of ExecuteStream run one
\* at a time and once at most, none of them begins after its call was answered, and a
\* success is the answer to a command that is over.
THEOREM ShellImplementsPromise == Spec => PromiseSpec
<1>1. Init => Promise!Init
  BY PromiseInit
<1>2. IInv /\ IInv' /\ Leftovers /\ [Next]_vars => [Promise!Next]_Promise!vars
  BY PromiseStep
<1> QED
  BY <1>1, <1>2, Invariance, LeavesNoText, PTL DEF Spec, PromiseSpec, Promise!Spec

=============================================================================
