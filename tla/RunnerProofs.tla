---------------------------- MODULE RunnerProofs ----------------------------
(***************************************************************************)
(* For any number of requests: only commands found safe run, Close is      *)
(* called once for each shell, and run leaves no shell behind but those    *)
(* that it reports or that came too late.  The invariant says who is to    *)
(* close each shell.                                                       *)
(***************************************************************************)
EXTENDS Runner, TLAPS

Open(s) == bash[s] \in {"up", "exited"}

\* The handler alone knows the shell: it is not yet or no longer in the map.
Owns(r) == pc[r] \in {"insert", "close"}

Own(r, s) == Owns(r) /\ shell[r] = s

\* A shell in the map, or taken from it by CloseAll, is open.
Mapped ==
    /\ \A s \in shells \cup closing : Open(s)
    /\ shells \cap closing = {}

\* A request that has not created its shell yet: nobody has that shell.
Fresh == \A r \in Request : pc[r] \in {"idle", "create"} => bash[r] = "none"

\* A shell that a handler owns is open, and nobody else is to close it.
Owned ==
    /\ \A r \in Request : Owns(r) =>
          /\ shell[r] \in Request
          /\ Open(shell[r])
          /\ shell[r] \notin shells
          /\ shell[r] \notin closing
    /\ \A q, r \in Request : Owns(q) /\ Owns(r) /\ shell[q] = shell[r] => q = r

\* A shell whose command runs is open, since Close waits for mu.
Used ==
    \A r \in Request :
        /\ pc[r] \in {"validate", "lock", "stream"} => shell[r] \in Request
        /\ pc[r] = "stream" => Open(shell[r])

\* Every open shell is known to somebody who closes it.
Accounted ==
    \A s \in Request : Open(s) =>
        s \in shells \/ s \in closing \/ \E r \in Request : Own(r, s)

\* CloseAll is under way; without an error it found no handler at work.
Ending ==
    /\ closing # {} => phase = "close"
    /\ phase \in {"close", "returned"} /\ ~firstErr =>
          shells = {} /\ \A r \in Request : pc[r] \in {"idle", "ended"}

\* The part of the invariant about shells.
Shape == Mapped /\ Fresh /\ Owned /\ Used /\ Accounted /\ Ending /\ ClosedOnce

IInv == TypeOK /\ Shape /\ OnlySafeRuns

-----------------------------------------------------------------------------
\* A step that leaves the handlers and the shells alone.
LEMMA QuietStep ==
    ASSUME Shape,
           UNCHANGED <<pc, shell, shells, bash, closing, firstErr>>,
           closing # {} => phase' = "close",
           phase' \in {"close", "returned"} => phase \in {"close", "returned"}
    PROVE  Shape'
<1>1. Mapped' /\ Fresh' /\ ClosedOnce'
  BY DEF Shape, Mapped, Fresh, ClosedOnce, Open
<1>2. Owned'
  BY DEF Shape, Owned, Open, Owns
<1>3. Used'
  BY DEF Shape, Used, Open
<1>4. Accounted'
  BY DEF Shape, Accounted, Open, Owns, Own
<1>5. Ending'
  BY DEF Shape, Ending
<1> QED
  BY <1>1, <1>2, <1>3, <1>4, <1>5 DEF Shape

\* A step of the handler r from one point to another, in which no shell changes.
LEMMA MoveStep ==
    ASSUME Shape, NEW r \in Request, NEW to,
           UNCHANGED <<phase, closing, firstErr, shells, bash>>,
           \A q \in Request : /\ pc'[q] = IF q = r THEN to ELSE pc[q]
                              /\ q # r => shell'[q] = shell[q],
           ~Owns(r),
           to \notin {"idle", "insert", "close"},
           to = "create" => pc[r] = "idle",
           to \in {"validate", "lock", "stream"} => shell'[r] \in Request,
           to = "stream" => Open(shell'[r]),
           to = "ended" \/ phase \notin {"close", "returned"} \/ firstErr
    PROVE  Shape'
<1>1. Mapped' /\ Fresh'
  BY DEF Shape, Mapped, Fresh, Open
<1>2. Owned'
  BY DEF Shape, Owned, Open, Owns
<1>3. Used'
  BY DEF Shape, Used, Open
<1>4. Accounted'
  BY DEF Shape, Accounted, Open, Owns, Own
<1>5. Ending'
  BY DEF Shape, Ending
<1>once. ClosedOnce'
  BY DEF Shape, ClosedOnce
<1> QED
  BY <1>1, <1>2, <1>3, <1>4, <1>5, <1>once DEF Shape

\* A handler that is at work is not at work after a shutdown without error.
LEMMA AtWork ==
    ASSUME Shape, NEW r \in Request, pc[r] \notin {"idle", "ended"}
    PROVE  phase \notin {"close", "returned"} \/ firstErr
  BY DEF Shape, Ending

\* A new shell has its handler for an owner, and nobody had that shell before.
LEMMA ShapeNewShell ==
    ASSUME TypeOK, Shape, NEW r \in Request, NewShell(r)
    PROVE  Shape'
<1>1. /\ \A q \in Request :
           /\ pc'[q] = IF q = r THEN "insert" ELSE pc[q]
           /\ shell'[q] = IF q = r THEN r ELSE shell[q]
           /\ bash'[q] = IF q = r THEN "up" ELSE bash[q]
      /\ UNCHANGED <<phase, closing, firstErr, shells>>
      /\ pc[r] = "create"
  BY DEF NewShell, Goes, TypeOK, stopVars
<1>2. bash[r] = "none"
  BY <1>1 DEF Shape, Fresh
<1>3. \A q \in Request : Owns(q) => shell[q] # r /\ q # r
  BY <1>1, <1>2 DEF Shape, Owned, Open, Owns
<1>4. shells \subseteq Request /\ closing \subseteq Request
  BY DEF TypeOK
<1>5. r \notin shells /\ r \notin closing
  BY <1>2 DEF Shape, Mapped, Open
<1>6. Mapped' /\ Fresh'
  BY <1>1, <1>2, <1>4 DEF Shape, Mapped, Fresh, Open
<1>7. Owned'
  <2>1. ASSUME NEW q \in Request, Owns(q)'
        PROVE  shell'[q] \in Request /\ Open(shell[q])' /\ shell'[q] \notin shells'
               /\ shell'[q] \notin closing'
    <3>1. CASE q = r
      BY <1>1, <1>5, <3>1 DEF Open
    <3>2. CASE q # r
      BY <1>1, <1>3, <2>1, <3>2 DEF Shape, Owned, Open, Owns
    <3> QED BY <3>1, <3>2
  <2>2. ASSUME NEW p \in Request, NEW q \in Request, Owns(p)', Owns(q)',
               shell'[p] = shell'[q]
        PROVE  p = q
    BY <1>1, <1>3, <2>2 DEF Shape, Owned, Owns
  <2> QED BY <2>1, <2>2 DEF Owned
<1>8. Used'
  BY <1>1 DEF Shape, Used, Open
<1>9. Accounted'
  BY <1>1 DEF Shape, Accounted, Open, Owns, Own
<1>10. Ending'
  BY <1>1 DEF Shape, Ending
<1>once. ClosedOnce'
  BY <1>1 DEF Shape, ClosedOnce
<1> QED
  BY <1>6, <1>7, <1>8, <1>9, <1>10, <1>once DEF Shape

\* A shell goes from its handler into the map.
LEMMA ShapeInsert ==
    ASSUME TypeOK, Shape, NEW r \in Request, Insert(r)
    PROVE  Shape'
<1>1. /\ \A q \in Request : pc'[q] = IF q = r THEN "ended" ELSE pc[q]
      /\ UNCHANGED <<phase, closing, firstErr, shell, bash>>
      /\ shells' = shells \cup {shell[r]}
      /\ pc[r] = "insert"
  BY DEF Insert, Goes, TypeOK, stopVars
<1>2. /\ shell[r] \in Request /\ Open(shell[r])
      /\ shell[r] \notin closing
      /\ \A q \in Request : Owns(q) /\ q # r => shell[q] # shell[r]
  BY <1>1 DEF Shape, Owned, Owns
<1>3. Mapped' /\ Fresh'
  BY <1>1, <1>2 DEF Shape, Mapped, Fresh, Open
<1>4. Owned'
  BY <1>1, <1>2 DEF Shape, Owned, Open, Owns
<1>5. Used'
  BY <1>1 DEF Shape, Used, Open
<1>6. Accounted'
  BY <1>1 DEF Shape, Accounted, Open, Owns, Own
<1>7. Ending'
  BY <1>1 DEF Shape, Ending
<1>once. ClosedOnce'
  BY <1>1 DEF Shape, ClosedOnce
<1> QED
  BY <1>3, <1>4, <1>5, <1>6, <1>7, <1>once DEF Shape

\* A shell goes from the map to the handler that deletes it.
LEMMA ShapeDelete ==
    ASSUME TypeOK, Shape, NEW r \in Request, Delete(r)
    PROVE  Shape'
<1>1. PICK s \in shells :
          /\ shells' = shells \ {s}
          /\ \A q \in Request : /\ shell'[q] = IF q = r THEN s ELSE shell[q]
                                /\ pc'[q] = IF q = r THEN "close" ELSE pc[q]
  BY DEF Delete, Goes, TypeOK
<1>2. /\ UNCHANGED <<phase, closing, firstErr, bash>>
      /\ pc[r] = "idle" /\ phase \in {"serve", "deregister"}
  BY DEF Delete, Serve, Accepting, stopVars
<1>3. /\ s \in Request /\ Open(s) /\ s \notin closing
      /\ \A q \in Request : Owns(q) => shell[q] # s /\ q # r
  BY <1>2 DEF TypeOK, Shape, Mapped, Owned, Owns
<1>4. Mapped' /\ Fresh'
  BY <1>1, <1>2 DEF Shape, Mapped, Fresh, Open
<1>5. Owned'
  <2>1. ASSUME NEW q \in Request, Owns(q)'
        PROVE  shell'[q] \in Request /\ Open(shell[q])' /\ shell'[q] \notin shells'
               /\ shell'[q] \notin closing'
    <3>1. CASE q = r
      BY <1>1, <1>2, <1>3, <3>1 DEF Open
    <3>2. CASE q # r
      BY <1>1, <1>2, <2>1, <3>2 DEF Shape, Owned, Open, Owns
    <3> QED BY <3>1, <3>2
  <2>2. ASSUME NEW p \in Request, NEW q \in Request, Owns(p)', Owns(q)',
               shell'[p] = shell'[q]
        PROVE  p = q
    BY <1>1, <1>3, <2>2 DEF Shape, Owned, Owns
  <2> QED BY <2>1, <2>2 DEF Owned
<1>6. Used'
  BY <1>1, <1>2 DEF Shape, Used, Open
<1>7. Accounted'
  <2> SUFFICES ASSUME NEW t \in Request, Open(t)'
               PROVE  t \in shells' \/ t \in closing'
                      \/ \E q \in Request : Own(q, t)'
    BY DEF Accounted
  <2>1. CASE t = s
    BY <1>1, <2>1 DEF Own, Owns
  <2>2. CASE t # s
    <3>1. t \in shells \/ t \in closing \/ \E q \in Request : Own(q, t)
      BY <1>2 DEF Shape, Accounted, Open
    <3> QED BY <1>1, <1>2, <1>3, <2>2, <3>1 DEF Own, Owns
  <2> QED BY <2>1, <2>2
<1>8. Ending'
  BY <1>2 DEF Shape, Ending
<1>once. ClosedOnce'
  BY <1>2 DEF Shape, ClosedOnce
<1> QED
  BY <1>4, <1>5, <1>6, <1>7, <1>8, <1>once DEF Shape

\* Close of a shell that is open and has no owner but the caller.
LEMMA ShapeCloseDeleted ==
    ASSUME TypeOK, Shape, NEW r \in Request, CloseDeleted(r)
    PROVE  Shape'
<1> DEFINE s == shell[r]
<1>1. /\ \A q \in Request : pc'[q] = IF q = r THEN "ended" ELSE pc[q]
      /\ UNCHANGED <<phase, closing, firstErr, shell, shells>>
      /\ pc[r] = "close"
      /\ ~Locked(s)
      /\ bash' = [bash EXCEPT ![s] =
            IF @ \in {"up", "exited"} THEN "closed" ELSE "closed twice"]
  BY DEF CloseDeleted, Close, Goes, TypeOK, stopVars
<1>2. /\ s \in Request /\ s \notin shells /\ s \notin closing /\ Open(s)
      /\ \A q \in Request : Owns(q) /\ q # r => shell[q] # s
  BY <1>1 DEF Shape, Owned, Owns
<1>3. \A t \in Request : bash'[t] = IF t = s THEN "closed" ELSE bash[t]
  BY <1>1, <1>2 DEF TypeOK, Open
<1>4. shells \subseteq Request /\ closing \subseteq Request
  BY DEF TypeOK
<1> HIDE DEF s
<1>5. Mapped' /\ Fresh'
  <2>1. Mapped'
    BY <1>1, <1>2, <1>3, <1>4 DEF Shape, Mapped, Open
  <2>2. Fresh'
    BY <1>1, <1>2, <1>3 DEF Shape, Fresh, Open
  <2> QED BY <2>1, <2>2
<1>6. Owned'
  BY <1>1, <1>2, <1>3 DEF Shape, Owned, Open, Owns
<1>7. Used'
  BY <1>1, <1>2, <1>3 DEF Shape, Used, Open, Locked
<1>8. Accounted'
  <2> SUFFICES ASSUME NEW t \in Request, Open(t)'
               PROVE  t \in shells' \/ t \in closing'
                      \/ \E q \in Request : Own(q, t)'
    BY DEF Accounted
  <2>1. t # s /\ Open(t)
    BY <1>3 DEF Open
  <2>2. t \in shells \/ t \in closing \/ \E q \in Request : Own(q, t)
    BY <2>1 DEF Shape, Accounted
  <2> QED
    BY <1>1, <2>1, <2>2 DEF Own, Owns, s
<1>9. Ending'
  BY <1>1 DEF Shape, Ending
<1>once. ClosedOnce'
  BY <1>3 DEF Shape, ClosedOnce
<1> QED
  BY <1>5, <1>6, <1>7, <1>8, <1>9, <1>once DEF Shape

\* The same for CloseAll.
LEMMA ShapeCloseNext ==
    ASSUME TypeOK, Shape, NEW s \in Request, CloseNext(s)
    PROVE  Shape'
<1>1. /\ UNCHANGED <<phase, pc, shell, shells>>
      /\ s \in closing /\ closing' = closing \ {s}
      /\ firstErr' = (firstErr \/ bash[s] # "up")
      /\ phase = "close"
      /\ ~Locked(s)
      /\ bash' = [bash EXCEPT ![s] =
            IF @ \in {"up", "exited"} THEN "closed" ELSE "closed twice"]
  BY DEF CloseNext, Close, handlerVars
<1>2. /\ Open(s) /\ s \notin shells
      /\ \A q \in Request : Owns(q) => shell[q] # s
  BY <1>1 DEF Shape, Mapped, Owned
<1>3. \A t \in Request : bash'[t] = IF t = s THEN "closed" ELSE bash[t]
  BY <1>1, <1>2 DEF TypeOK, Open
<1>4. shells \subseteq Request /\ closing \subseteq Request
  BY DEF TypeOK
<1>5. Mapped' /\ Fresh'
  <2>1. Mapped'
    BY <1>1, <1>2, <1>3, <1>4 DEF Shape, Mapped, Open
  <2>2. Fresh'
    BY <1>1, <1>2, <1>3 DEF Shape, Fresh, Open
  <2> QED BY <2>1, <2>2
<1>6. Owned'
  BY <1>1, <1>2, <1>3 DEF Shape, Owned, Open, Owns
<1>7. Used'
  BY <1>1, <1>2, <1>3 DEF Shape, Used, Open, Locked
<1>8. Accounted'
  <2> SUFFICES ASSUME NEW t \in Request, Open(t)'
               PROVE  t \in shells' \/ t \in closing'
                      \/ \E q \in Request : Own(q, t)'
    BY DEF Accounted
  <2>1. t # s /\ Open(t)
    BY <1>3 DEF Open
  <2>2. t \in shells \/ t \in closing \/ \E q \in Request : Own(q, t)
    BY <2>1 DEF Shape, Accounted
  <2> QED
    BY <1>1, <2>1, <2>2 DEF Own, Owns
<1>9. Ending'
  BY <1>1 DEF Shape, Ending
<1>once. ClosedOnce'
  BY <1>3 DEF Shape, ClosedOnce
<1> QED
  BY <1>5, <1>6, <1>7, <1>8, <1>9, <1>once DEF Shape

\* CloseAll takes every shell of the map; an error tells of handlers at work.
LEMMA ShapeShutdown ==
    ASSUME TypeOK, Shape, Shutdown
    PROVE  Shape'
<1>1. /\ UNCHANGED <<pc, shell, bash>>
      /\ phase = "drain" /\ phase' = "close"
      /\ closing' = shells /\ shells' = {}
      /\ firstErr' = (InFlight # {})
  BY DEF Shutdown, handlerVars
<1>2. closing = {}
  BY <1>1 DEF Shape, Ending
<1>3. Mapped' /\ Fresh'
  BY <1>1 DEF Shape, Mapped, Fresh, Open
<1>4. Owned' /\ Used'
  BY <1>1 DEF Shape, Owned, Used, Open, Owns
<1>5. Accounted'
  BY <1>1, <1>2 DEF Shape, Accounted, Open, Own, Owns
<1>6. Ending'
  BY <1>1 DEF Ending, InFlight
<1>once. ClosedOnce'
  BY <1>1 DEF Shape, ClosedOnce
<1> QED
  BY <1>3, <1>4, <1>5, <1>6, <1>once DEF Shape

\* A command ends, and bash with it perhaps: the shell is still to be closed.
LEMMA ShapeCommandEnds ==
    ASSUME TypeOK, Shape, NEW r \in Request, CommandEnds(r)
    PROVE  Shape'
<1>1. /\ \A q \in Request : pc'[q] = IF q = r THEN "ended" ELSE pc[q]
      /\ UNCHANGED <<phase, closing, firstErr, shell, shells>>
      /\ pc[r] = "stream"
  BY DEF CommandEnds, Goes, TypeOK, stopVars
<1>2. shell[r] \in Request /\ Open(shell[r])
  BY <1>1 DEF Shape, Used
<1>3. \A t \in Request : /\ Open(t)' <=> Open(t)
                       /\ (bash'[t] = "none" <=> bash[t] = "none")
                       /\ (bash'[t] = "closed twice" => bash[t] = "closed twice")
  <2>1. CASE bash' = bash
    BY <2>1 DEF Open
  <2>2. CASE bash' = [bash EXCEPT ![shell[r]] = "exited"]
    <3>1. \A t \in Request : bash'[t] = IF t = shell[r] THEN "exited" ELSE bash[t]
      BY <1>2, <2>2 DEF TypeOK
    <3> QED BY <1>2, <3>1 DEF Open
  <2> QED BY <2>1, <2>2 DEF CommandEnds
<1>4. shells \subseteq Request /\ closing \subseteq Request
  BY DEF TypeOK
<1>5. Mapped' /\ Fresh'
  BY <1>1, <1>3, <1>4 DEF Shape, Mapped, Fresh
<1>6. Owned'
  BY <1>1, <1>3 DEF Shape, Owned, Owns
<1>7. Used'
  BY <1>1, <1>3 DEF Shape, Used
<1>8. Accounted'
  BY <1>1, <1>3 DEF Shape, Accounted, Own, Owns
<1>9. Ending'
  BY <1>1 DEF Shape, Ending
<1>once. ClosedOnce'
  BY <1>3 DEF Shape, ClosedOnce
<1> QED
  BY <1>5, <1>6, <1>7, <1>8, <1>9, <1>once DEF Shape

\* The steps of a handler in which no shell changes hands.
LEMMA ShapeMoves ==
    ASSUME TypeOK, Shape, NEW r \in Request,
           \/ Refuse(r) \/ Create(r) \/ NewShellFails(r) \/ Execute(r)
           \/ Accept(r) \/ Reject(r) \/ Begin(r) \/ BeginFails(r)
    PROVE  Shape'
<1>1. CASE Refuse(r) \/ Create(r)
  <2>1. PICK to \in {"ended", "create"} :
          \A q \in Request : pc'[q] = IF q = r THEN to ELSE pc[q]
    BY <1>1 DEF Refuse, Create, Goes, TypeOK
  <2>2. /\ UNCHANGED <<phase, closing, firstErr, shells, bash, shell>>
        /\ pc[r] = "idle" /\ phase \notin {"close", "returned"}
    BY <1>1 DEF Refuse, Create, Serve, Accepting, stopVars, shellVars
  <2> QED BY <2>1, <2>2, MoveStep DEF Owns
<1>2. CASE NewShellFails(r) \/ Reject(r) \/ BeginFails(r)
  <2>1. /\ UNCHANGED <<phase, closing, firstErr, shells, bash, shell>>
        /\ Goes(r, "ended")
        /\ pc[r] \in {"create", "validate", "lock"}
    BY <1>2 DEF NewShellFails, Reject, BeginFails, stopVars, shellVars
  <2>2. \A q \in Request : pc'[q] = IF q = r THEN "ended" ELSE pc[q]
    BY <2>1 DEF Goes, TypeOK
  <2>3. ~Owns(r)
    BY <2>1 DEF Owns
  <2> QED BY <2>1, <2>2, <2>3, MoveStep
<1>3. CASE Execute(r)
  <2>1. /\ \A q \in Request : /\ pc'[q] = IF q = r THEN "validate" ELSE pc[q]
                              /\ q # r => shell'[q] = shell[q]
        /\ shell'[r] \in Request
    <3>1. PICK s \in Request : shell' = [shell EXCEPT ![r] = s]
      BY <1>3 DEF Execute, TypeOK
    <3>2. pc' = [pc EXCEPT ![r] = "validate"]
      BY <1>3 DEF Execute, Goes
    <3> QED BY <3>1, <3>2 DEF TypeOK
  <2>2. /\ UNCHANGED <<phase, closing, firstErr, shells, bash>>
        /\ ~Owns(r) /\ phase \notin {"close", "returned"}
    BY <1>3 DEF Execute, Serve, Accepting, stopVars, shellVars, Owns
  <2> QED BY <2>1, <2>2, MoveStep
<1>4. CASE Accept(r)
  <2>1. /\ \A q \in Request : pc'[q] = IF q = r THEN "lock" ELSE pc[q]
        /\ UNCHANGED <<phase, closing, firstErr, shells, bash, shell>>
        /\ pc[r] = "validate"
    BY <1>4 DEF Accept, Goes, TypeOK, stopVars, shellVars
  <2>2. shell'[r] \in Request
    BY <2>1 DEF Shape, Used
  <2> QED BY <2>1, <2>2, AtWork, MoveStep DEF Owns
<1>5. CASE Begin(r)
  <2>1. /\ \A q \in Request : pc'[q] = IF q = r THEN "stream" ELSE pc[q]
        /\ UNCHANGED <<phase, closing, firstErr, shells, bash, shell>>
        /\ pc[r] = "lock" /\ Open(shell'[r])
    BY <1>5 DEF Begin, Goes, TypeOK, stopVars, shellVars, Open
  <2>2. shell'[r] \in Request
    BY <2>1 DEF Shape, Used
  <2> QED BY <2>1, <2>2, AtWork, MoveStep DEF Owns
<1> QED
  BY <1>1, <1>2, <1>3, <1>4, <1>5

-----------------------------------------------------------------------------
(* Types and commands *)

\* When the process begins nobody has a shell.
LEMMA InitHolds == Init => IInv
<1> SUFFICES ASSUME Init PROVE IInv
  OBVIOUS
<1>1. attempt \in [Request -> 0..jevMaxRetries]
  BY DEF Init, jevMaxRetries
<1>2. /\ bash \in [Request -> {"none", "up", "exited", "closed", "closed twice"}]
      /\ pc \in [Request -> {"idle", "create", "insert", "close", "validate",
                             "lock", "stream", "ended"}]
      /\ shell \in [Request -> Request \cup {NoShell}]
  BY DEF Init
<1>3. TypeOK
  BY <1>1, <1>2 DEF Init, TypeOK
<1>4. Shape /\ OnlySafeRuns
  BY DEF Init, Shape, Mapped, Fresh, Owned, Used, Accounted, Ending, Open, Owns,
     Own, ClosedOnce, OnlySafeRuns
<1> QED
  BY <1>3, <1>4 DEF IInv, Shape

\* Every step of start and run keeps the types.
LEMMA ProcessType ==
    ASSUME TypeOK, Signal \/ Starting \/ WatchEnds \/ RegisterOk \/ ServeFails
                   \/ Stopping
    PROVE  TypeOK'
<1> USE DEF TypeOK, handlerVars, shellVars, stopVars, startVars
<1>1. CASE Signal
  BY <1>1 DEF Signal
<1>2. CASE Listen \/ Identify \/ Configure
  BY <1>2 DEF Listen, Identify, Configure, StartStep
<1>3. CASE WatchSignal \/ PutBack \/ WatchEnds
  BY <1>3 DEF WatchSignal, PutBack, WatchEnds
<1>4. CASE RegisterOk \/ RegisterCancelled \/ ServeFails
  BY <1>4 DEF RegisterOk, RegisterCancelled, ServeFails
<1>5. CASE ReadSignal \/ TimeUp \/ Deregister
  BY <1>5 DEF ReadSignal, TimeUp, Deregister
<1>6. CASE Shutdown \/ Return
  BY <1>6 DEF Shutdown, Return
<1>7. ASSUME NEW s \in Request, CloseNext(s) PROVE TypeOK'
  BY <1>7 DEF CloseNext, Close
<1> QED
  BY <1>1, <1>2, <1>3, <1>4, <1>5, <1>6, <1>7 DEF Starting, Stopping

\* Another attempt, as long as there may be one.
LEMMA OneMore == \A n \in 0..2 : n < 2 => n + 1 \in 0..2
  OBVIOUS

\* Every step of a handler keeps the types; a shell enters the map from its owner.
LEMMA HandlerType ==
    ASSUME TypeOK, Shape, NEW r \in Request,
           \/ Refuse(r) \/ Create(r) \/ Delete(r) \/ Execute(r) \/ Leave(r)
           \/ Handle(r) \/ CommandEnds(r)
    PROVE  TypeOK'
<1> USE DEF TypeOK, Goes, shellVars, stopVars, startVars
<1>1. CASE Refuse(r)
  BY <1>1 DEF Refuse
<1>2. CASE Create(r)
  BY <1>2 DEF Create
<1>3. CASE Delete(r)
  BY <1>3 DEF Delete
<1>4. CASE Execute(r)
  BY <1>4 DEF Execute
<1>5. CASE Leave(r)
  BY <1>5 DEF Leave
<1>6. CASE NewShell(r)
  BY <1>6 DEF NewShell
<1>7. CASE NewShellFails(r)
  BY <1>7 DEF NewShellFails
<1>8. CASE Insert(r)
  <2>1. shell[r] \in Request
    BY <1>8 DEF Insert, Shape, Owned, Owns
  <2> QED
    BY <1>8, <2>1 DEF Insert
<1>9. CASE CloseDeleted(r)
  BY <1>9 DEF CloseDeleted, Close
<1>10. CASE Accept(r)
  BY <1>10 DEF Accept
<1>11. CASE Reject(r)
  BY <1>11 DEF Reject
<1>12. CASE Retry(r)
  <2>1. attempt[r] + 1 \in 0..jevMaxRetries
    <3>1. attempt[r] \in 0..2 /\ attempt[r] < 2
      BY <1>12 DEF Retry, jevMaxRetries
    <3> QED
      BY <3>1, OneMore DEF jevMaxRetries
  <2>2. attempt' \in [Request -> 0..jevMaxRetries]
    BY <1>12, <2>1 DEF Retry
  <2>3. UNCHANGED <<phase, startVars, stopVars, pc, shell, gone, safe, shellVars>>
    BY <1>12 DEF Retry
  <2> QED
    BY <2>2, <2>3
<1>13. CASE Begin(r)
  BY <1>13 DEF Begin
<1>14. CASE BeginFails(r)
  BY <1>14 DEF BeginFails
<1>15. CASE CommandEnds(r)
  BY <1>15 DEF CommandEnds
<1> QED
  BY <1>1, <1>2, <1>3, <1>4, <1>5, <1>6, <1>7, <1>8, <1>9, <1>10, <1>11, <1>12,
     <1>13, <1>14, <1>15 DEF Handle

\* A handler gets past the validator by Accept alone.
LEMMA HandlerSafe ==
    ASSUME TypeOK, OnlySafeRuns, NEW r \in Request,
           \/ Refuse(r) \/ Create(r) \/ Delete(r) \/ Execute(r) \/ Leave(r)
           \/ Handle(r) \/ CommandEnds(r)
    PROVE  OnlySafeRuns'
<1>1. CASE Accept(r)
  <2>1. PICK noul \in Noul :
          /\ Accepts(noul)
          /\ safe' = IF noul \in Threshold..One THEN safe \cup {r} ELSE safe
    BY <1>1 DEF Accept
  <2>2. noul \in Threshold..One
    BY <2>1, ThresholdAssumption DEF Accepts
  <2>3. \A q \in Request : pc'[q] = IF q = r THEN "lock" ELSE pc[q]
    BY <1>1 DEF Accept, Goes, TypeOK
  <2> QED
    BY <2>1, <2>2, <2>3 DEF OnlySafeRuns
<1>2. CASE Begin(r)
  <2>1. /\ \A q \in Request : pc'[q] = IF q = r THEN "stream" ELSE pc[q]
        /\ safe' = safe /\ pc[r] = "lock"
    BY <1>2 DEF Begin, Goes, TypeOK
  <2> QED
    BY <2>1 DEF OnlySafeRuns
<1>3. CASE Leave(r) \/ Retry(r)
  BY <1>3 DEF Leave, Retry, OnlySafeRuns
<1>4. ASSUME NEW to \in {"ended", "create", "close", "validate", "insert"},
             Goes(r, to), safe' = safe
      PROVE  OnlySafeRuns'
  <2>1. \A q \in Request : pc'[q] = IF q = r THEN to ELSE pc[q]
    BY <1>4 DEF Goes, TypeOK
  <2> QED
    BY <1>4, <2>1 DEF OnlySafeRuns
<1>5. CASE Refuse(r) \/ Create(r) \/ Delete(r) \/ Execute(r)
  BY <1>4, <1>5 DEF Refuse, Create, Delete, Execute
<1>6. CASE NewShell(r) \/ NewShellFails(r) \/ Insert(r) \/ CloseDeleted(r)
           \/ Reject(r) \/ BeginFails(r) \/ CommandEnds(r)
  BY <1>4, <1>6 DEF NewShell, NewShellFails, Insert, CloseDeleted, Reject,
     BeginFails, CommandEnds
<1> QED
  BY <1>1, <1>2, <1>3, <1>5, <1>6 DEF Handle

\* Steps of start and run.
LEMMA ProcessStep ==
    ASSUME IInv, Signal \/ Starting \/ WatchEnds \/ RegisterOk \/ ServeFails
                 \/ Stopping
    PROVE  Shape' /\ OnlySafeRuns'
<1>1. Shape /\ OnlySafeRuns /\ TypeOK
  BY DEF IInv, Shape
<1>2. closing # {} => phase = "close"
  BY <1>1 DEF Shape, Ending
<1>3. CASE Signal \/ WatchSignal \/ PutBack \/ WatchEnds \/ TimeUp
  <2>1. UNCHANGED <<phase, pc, shell, safe, shells, bash, closing, firstErr>>
    BY <1>3 DEF Signal, WatchSignal, PutBack, WatchEnds, TimeUp, stopVars,
       handlerVars, shellVars
  <2> QED BY <1>1, <1>2, <2>1, QuietStep DEF OnlySafeRuns
<1>4. CASE Listen \/ Identify \/ Configure \/ RegisterOk \/ RegisterCancelled
           \/ ServeFails \/ ReadSignal \/ Deregister
  <2>1. /\ UNCHANGED <<pc, shell, safe, shells, bash, closing, firstErr>>
        /\ phase # "close" /\ phase' \notin {"close", "returned"}
    BY <1>4 DEF Listen, Identify, Configure, StartStep, RegisterOk,
       RegisterCancelled, ServeFails, ReadSignal, Deregister, stopVars,
       handlerVars, shellVars
  <2> QED BY <1>1, <1>2, <2>1, QuietStep DEF OnlySafeRuns
<1>5. CASE Return
  <2>1. /\ UNCHANGED <<pc, shell, safe, shells, bash, closing, firstErr>>
        /\ closing = {} /\ phase = "close"
    BY <1>5 DEF Return, stopVars, handlerVars, shellVars
  <2> QED BY <1>1, <2>1, QuietStep DEF OnlySafeRuns
<1>6. CASE Shutdown
  BY <1>1, <1>6, ShapeShutdown DEF Shutdown, handlerVars, OnlySafeRuns
<1>7. ASSUME NEW s \in Request, CloseNext(s) PROVE Shape' /\ OnlySafeRuns'
  BY <1>1, <1>7, ShapeCloseNext DEF CloseNext, handlerVars, OnlySafeRuns
<1> QED
  BY <1>3, <1>4, <1>5, <1>6, <1>7 DEF Starting, Stopping

\* Steps of the handlers.
LEMMA HandlerShape ==
    ASSUME TypeOK, Shape, NEW r \in Request,
           \/ Refuse(r) \/ Create(r) \/ Delete(r) \/ Execute(r) \/ Leave(r)
           \/ Handle(r) \/ CommandEnds(r)
    PROVE  Shape'
<1>1. CASE Leave(r) \/ Retry(r)
  <2>1. UNCHANGED <<phase, pc, shell, shells, bash, closing, firstErr>>
    BY <1>1 DEF Leave, Retry, stopVars, shellVars
  <2> QED BY <2>1, QuietStep DEF Shape, Ending
<1> QED
  BY <1>1, ShapeMoves, ShapeNewShell, ShapeInsert, ShapeDelete, ShapeCloseDeleted,
     ShapeCommandEnds DEF Handle

\* Every step keeps the invariant.
LEMMA StepHolds == IInv /\ [Next]_vars => IInv'
<1> SUFFICES ASSUME IInv, [Next]_vars PROVE IInv'
  OBVIOUS
<1>1. TypeOK /\ Shape /\ OnlySafeRuns
  BY DEF IInv, Shape
<1>2. CASE Signal \/ Starting \/ WatchEnds \/ RegisterOk \/ ServeFails \/ Stopping
  BY <1>1, <1>2, ProcessType, ProcessStep DEF IInv, Shape
<1>3. ASSUME NEW r \in Request,
             \/ Refuse(r) \/ Create(r) \/ Delete(r) \/ Execute(r) \/ Leave(r)
             \/ Handle(r) \/ CommandEnds(r)
      PROVE  IInv'
  BY <1>1, <1>3, HandlerType, HandlerSafe, HandlerShape DEF IInv, Shape
<1>4. CASE UNCHANGED vars
  <2>1. TypeOK'
    BY <1>1, <1>4 DEF vars, startVars, stopVars, handlerVars, shellVars, TypeOK
  <2>2. Shape'
    BY <1>1, <1>4, QuietStep DEF vars, stopVars, handlerVars, shellVars, Shape, Ending
  <2>3. OnlySafeRuns'
    BY <1>1, <1>4 DEF vars, handlerVars, OnlySafeRuns
  <2> QED
    BY <2>1, <2>2, <2>3 DEF IInv, Shape
<1> QED
  BY <1>2, <1>3, <1>4 DEF Next

\* In every behaviour each open shell is known to exactly those who are to close it,
\* and a command that got past the validator was found safe.
THEOREM Invariance == Spec => []IInv
  BY InitHolds, StepHolds, PTL DEF Spec

-----------------------------------------------------------------------------
(* Theorems *)

\* Every variable of the runner keeps its type; in particular the validator makes
\* no more than jevMaxRetries attempts after the first one (Validate).
THEOREM TypeCorrect == Spec => []TypeOK
<1>1. IInv => TypeOK
  BY DEF IInv
<1> QED
  BY <1>1, Invariance, PTL

\* No command reaches a shell without a probability in [Threshold, 1] (Validate,
\* handleExecute).
THEOREM FailsClosed == Spec => []OnlySafeRuns
<1>1. IInv => OnlySafeRuns
  BY DEF IInv
<1> QED
  BY <1>1, Invariance, PTL

\* Whichever deletes and CloseAll race for a shell, Close is called once for it
\* (Delete, CloseAll, Shell.Close).
THEOREM CloseOnlyOnce == Spec => []ClosedOnce
<1>1. IInv => ClosedOnce
  BY DEF IInv, Shape
<1> QED
  BY <1>1, Invariance, PTL

\* Run leaves an open shell behind only in the map it was put into too late, or
\* with a handler that outlived the time limit (CloseAll, Shutdown).
THEOREM ShutdownLeavesNothing == Spec => []NothingLeft
<1>1. IInv => NothingLeft
  BY DEF IInv, Shape, NothingLeft, Accounted, Ending, Unclosed, InFlight, Open, Own, Owns
<1> QED
  BY <1>1, Invariance, PTL

\* When run returns nil, every shell is closed (run, CloseAll).
THEOREM NilMeansClosed == Spec => []CleanReturn
<1>1. IInv => CleanReturn
  <2> SUFFICES ASSUME IInv, phase = "returned", ~firstErr,
                      NEW s \in Request, Open(s)
               PROVE  FALSE
    BY DEF CleanReturn, Unclosed, Open
  <2>1. s \in shells \/ s \in closing \/ \E r \in Request : Own(r, s)
    BY DEF IInv, Shape, Accounted
  <2> QED
    BY <2>1 DEF IInv, Shape, Ending, Own, Owns
<1> QED
  BY <1>1, Invariance, PTL

=============================================================================
