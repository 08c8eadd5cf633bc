--------------------------- MODULE TerminalProofs ---------------------------
(***************************************************************************)
(* For any number of loops of connect: shells are created by one at a      *)
(* time, the signal is minded, and the front never comes to lack a shell   *)
(* by itself.  The invariant says what each answer on its way means.       *)
(***************************************************************************)
EXTENDS Terminal, TLAPS

\* Who waits for an answer.
Waits(a) == IF a = Run THEN run \in {"calling", "recreating"} ELSE loop[a] = "calling"

\* Who creates a shell: the loop of connect, or run after the signal.
Creates(a) == IF a = Run THEN run = "recreating" ELSE loop[a] = "calling"

\* Only who waits has a request or an answer on its way, of the kind it made.
Asked ==
    \A a \in Actor :
        /\ ~Waits(a) => call[a] = None
        /\ Creates(a) => call[a].what # "execute"
        /\ Waits(a) /\ ~Creates(a) => call[a].what # "create"

\* An execution that is answered leaves the session as it is, unless the shell is
\* gone or the session was reassigned.
Executed ==
    run = "calling" =>
        /\ call[Run].what \in {"ok", "error"} => call[Run].cookie = "keep"
        /\ call[Run].what = "gone" => ~shell

\* A shell that was created is on the runner of the jar's session when its answer
\* arrives, or that runner has gone.
Created ==
    \A a \in Actor :
        Creates(a) /\ call[a] = [what |-> "ok", cookie |-> "keep"] =>
            session = "live" \/ hurt

\* The shell is missing for a reason, unless it is being created.
Excused == Under = {} /\ run # "recreating" /\ ~shell => hurt

\* Between the signal and the next shell nothing but the creation of a shell goes on.
Minded == signalled => busy /\ run \notin {"calling", "streaming"}

IInv ==
    TypeOK /\ OneActivity /\ Asked /\ Executed /\ Created /\ Excused /\ Minded

-----------------------------------------------------------------------------
\* The page is loaded with one loop of connect under way.
LEMMA InitHolds == Init => IInv
<1> SUFFICES ASSUME Init PROVE IInv
  OBVIOUS
<1>1. PICK l \in Loop :
          /\ loop = [m \in Loop |-> IF m = l THEN "calling" ELSE "off"]
          /\ call = [a \in Actor |-> IF a = l THEN Call("create") ELSE None]
  BY DEF Init
<1>2. l # Run /\ l \in Actor
  BY RunAssumption DEF Actor
<1>3. TypeOK
  <2>1. call \in [Actor -> [what : {"none", "create", "execute"} \cup Status,
                            cookie : {"keep", "new"}]]
    BY <1>1 DEF Call, None
  <2>2. loop \in [Loop -> {"off", "waiting", "calling"}]
    BY <1>1
  <2>3. delay \in [Loop -> {1, 2, 4, 8}]
    BY DEF Init, INITIAL_DELAY
  <2> QED
    BY <2>1, <2>2, <2>3 DEF Init, TypeOK
<1>4. OneActivity
  BY <1>1 DEF Init, OneActivity, Under
<1>5. Asked
  BY <1>1, <1>2, RunAssumption DEF Init, Asked, Waits, Creates, Call, None, Actor
<1>6. Executed /\ Minded
  BY DEF Init, Executed, Minded
<1>7. Created
  BY <1>1, <1>2 DEF Init, Created, Call, None
<1>8. Excused
  BY <1>1 DEF Init, Excused, Under
<1> QED
  BY <1>3, <1>4, <1>5, <1>6, <1>7, <1>8 DEF IInv

-----------------------------------------------------------------------------
(* The other side *)

\* A runner that goes hurts the front, and no more.
LEMMA RunnerGoneHolds ==
    ASSUME IInv, RunnerGone
    PROVE  IInv'
<1>1. /\ UNCHANGED <<busy, loop, delay, run, call, signalled>>
      /\ session' \in {"none", "stale"} /\ shell' = FALSE /\ hurt' = TRUE
  BY DEF RunnerGone
<1>2. TypeOK'
  BY <1>1 DEF IInv, TypeOK
<1>3. OneActivity' /\ Minded'
  BY <1>1 DEF IInv, OneActivity, Under, Minded
<1>4. Asked'
  BY <1>1 DEF IInv, Asked, Waits, Creates
<1>5. Executed' /\ Created' /\ Excused'
  BY <1>1 DEF IInv, Executed, Created, Creates, Excused
<1> QED
  BY <1>2, <1>3, <1>4, <1>5 DEF IInv

\* Who has asked for a shell creates one; who has asked for an execution is run.
LEMMA WhoAsked ==
    ASSUME IInv, NEW a \in Actor
    PROVE  /\ call[a].what = "create" => Creates(a) /\ Waits(a)
           /\ call[a].what = "execute" => a = Run /\ run = "calling"
           /\ Answered(a) => Waits(a)
<1>1. None.what = "none"
  BY DEF None, Call
<1>2. Waits(a) /\ ~Creates(a) => a = Run /\ run = "calling"
  BY DEF Waits, Creates
<1>3. Creates(a) => Waits(a)
  BY DEF Waits, Creates
<1> QED
  BY <1>1, <1>2, <1>3 DEF IInv, Asked, Answered, Status

\* An answer to who has asked, which means what the invariant says.
LEMMA AnswerHolds ==
    ASSUME IInv, NEW a \in Actor, NEW what \in Status, NEW cookie \in {"keep", "new"},
           Gives(a, what, cookie), Resolve,
           call[a].what \in {"create", "execute"},
           call[a].what = "create" /\ what = "ok" /\ cookie = "keep" => session = "live",
           call[a].what = "execute" /\ what \in {"ok", "error"} => cookie = "keep",
           call[a].what = "execute" /\ what = "gone" => ~shell
    PROVE  IInv'
<1>1. UNCHANGED <<busy, loop, delay, run, shell, hurt, signalled>>
  BY DEF Gives
<1>2. \A c \in Actor :
          call'[c] = IF c = a THEN [what |-> what, cookie |-> cookie] ELSE call[c]
  BY DEF Gives, IInv, TypeOK
<1>3. what \notin {"none", "create", "execute"}
  BY DEF Status
<1>4. session' \in {"none", "live", "stale"} /\ (session = "live" => session' = "live")
  BY DEF Resolve, IInv, TypeOK
<1>5. /\ call[a].what = "create" => Creates(a) /\ Waits(a)
      /\ call[a].what = "execute" => a = Run /\ run = "calling"
  BY WhoAsked
<1>6. Waits(a)
  BY <1>5 DEF Waits
<1>7. TypeOK'
  <2>1. call' \in [Actor -> [what : {"none", "create", "execute"} \cup Status,
                             cookie : {"keep", "new"}]]
    BY DEF Gives, IInv, TypeOK
  <2> QED
    BY <1>1, <1>4, <2>1 DEF IInv, TypeOK
<1>8. OneActivity' /\ Minded' /\ Excused'
  BY <1>1 DEF IInv, OneActivity, Under, Minded, Excused
<1>9. Asked'
  <2> SUFFICES ASSUME NEW c \in Actor
               PROVE  /\ ~Waits(c) => call'[c] = None
                      /\ Creates(c) => call'[c].what # "execute"
                      /\ Waits(c) /\ ~Creates(c) => call'[c].what # "create"
    BY <1>1 DEF Asked, Waits, Creates
  <2>1. CASE c = a
    BY <1>2, <1>3, <1>6, <2>1
  <2>2. CASE c # a
    BY <1>2, <2>2 DEF IInv, Asked
  <2> QED
    BY <2>1, <2>2
<1>10. Executed'
  <2> SUFFICES ASSUME run = "calling"
               PROVE  /\ call'[Run].what \in {"ok", "error"} => call'[Run].cookie = "keep"
                      /\ call'[Run].what = "gone" => ~shell
    BY <1>1 DEF Executed
  <2>1. CASE a = Run
    <3>1. ~Creates(a)
      BY <2>1 DEF Creates
    <3>2. call[a].what = "execute"
      BY <1>5, <3>1
    <3> QED
      BY <1>2, <2>1, <3>2
  <2>2. CASE a # Run
    BY <1>2, <2>2 DEF IInv, Executed, Actor
  <2> QED
    BY <2>1, <2>2
<1>11. Created'
  <2> SUFFICES ASSUME NEW c \in Actor, Creates(c),
                      call'[c] = [what |-> "ok", cookie |-> "keep"]
               PROVE  session' = "live" \/ hurt
    BY <1>1 DEF Created, Creates
  <2>1. CASE c = a
    <3>1. call[a].what = "create"
      BY <1>5, <2>1 DEF Creates
    <3> QED
      BY <1>2, <1>4, <2>1, <3>1
  <2>2. CASE c # a
    BY <1>2, <1>4, <2>2 DEF IInv, Created
  <2> QED
    BY <2>1, <2>2
<1> QED
  BY <1>7, <1>8, <1>9, <1>10, <1>11 DEF IInv

\* Every answer that the servers give.
LEMMA ServeHolds ==
    ASSUME IInv, NEW a \in Actor, Serve(a)
    PROVE  IInv'
<1> USE DEF Status
<1>1. CASE CreateOk(a)
  <2>1. PICK cookie \in {"keep", "new"} :
            cookie = (IF session = "live" THEN "keep" ELSE "new")
    OBVIOUS
  <2> QED
    BY <1>1, <2>1, AnswerHolds DEF CreateOk
<1>2. CASE CreateFails(a)
  BY <1>2, AnswerHolds DEF CreateFails
<1>3. CASE ExecuteOk(a)
  BY <1>3, AnswerHolds DEF ExecuteOk
<1>4. CASE ExecuteFails(a)
  BY <1>4, AnswerHolds DEF ExecuteFails
<1>5. CASE ExecuteGone(a)
  <2>1. PICK cookie \in {"keep", "new"} :
            cookie = (IF session = "live" THEN "keep" ELSE "new")
    OBVIOUS
  <2> QED
    BY <1>5, <2>1, AnswerHolds DEF ExecuteGone
<1>6. CASE ExecuteReassigned(a)
  BY <1>6, AnswerHolds DEF ExecuteReassigned
<1> QED
  BY <1>1, <1>2, <1>3, <1>4, <1>5, <1>6 DEF Serve

-----------------------------------------------------------------------------
(* The page *)

\* While a loop of connect is under way nothing else is.
LEMMA LoopAlone ==
    ASSUME IInv, NEW l \in Loop, loop[l] # "off"
    PROVE  /\ \A m \in Loop : m # l => loop[m] = "off"
           /\ run = "idle" /\ busy
           /\ l \in Actor /\ l # Run
           /\ \A c \in Actor : c # l => ~Waits(c) /\ ~Creates(c) /\ call[c] = None
<1>1. /\ \A m \in Loop : m # l => loop[m] = "off"
      /\ run = "idle" /\ busy
  BY DEF IInv, OneActivity, Under, TypeOK
<1>2. \A c \in Actor : c # l => ~Waits(c) /\ ~Creates(c)
  BY <1>1 DEF Actor, Waits, Creates
<1> QED
  BY <1>1, <1>2, RunAssumption DEF IInv, Asked, Actor

\* While run is at work no loop of connect is.
LEMMA RunAlone ==
    ASSUME IInv, run # "idle"
    PROVE  /\ \A m \in Loop : loop[m] = "off"
           /\ busy
           /\ Run \in Actor
           /\ \A c \in Actor : c # Run => ~Waits(c) /\ ~Creates(c) /\ call[c] = None
<1>1. (\A m \in Loop : loop[m] = "off") /\ busy
  BY DEF IInv, OneActivity, Under, TypeOK
<1>2. \A c \in Actor : c # Run => ~Waits(c) /\ ~Creates(c)
  BY <1>1 DEF Actor, Waits, Creates
<1> QED
  BY <1>1, <1>2 DEF IInv, Asked, Actor

\* The types of what an answer changes.
LEMMA TakeTypes ==
    ASSUME TypeOK, NEW a \in Actor, NEW creates \in BOOLEAN, Take(a, creates)
    PROVE  /\ session' \in {"none", "live", "stale"}
           /\ shell' \in BOOLEAN /\ hurt' \in BOOLEAN
  BY DEF TypeOK, Take

\* An actor begins to wait for another answer, or for none.
LEMMA CallTypes ==
    ASSUME TypeOK, NEW a \in Actor, NEW what \in {"none", "create", "execute"}
    PROVE  [call EXCEPT ![a] = Call(what)] \in
               [Actor -> [what : {"none", "create", "execute"} \cup Status,
                          cookie : {"keep", "new"}]]
  BY DEF TypeOK, Call

\* A shell was given: whoever created it rests, and the input is enabled.
LEMMA GivenExcused ==
    ASSUME IInv, NEW a \in Actor, Creates(a), call[a].what = "ok", Take(a, TRUE)
    PROVE  ~shell' => hurt'
<1>1. shell' = (session' = "live") /\ hurt' = (hurt /\ ~shell')
  BY DEF Take
<1>2. CASE call[a].cookie = "new"
  BY <1>1, <1>2 DEF Take
<1>3. CASE call[a].cookie = "keep"
  <2>1. call[a] = [what |-> "ok", cookie |-> "keep"]
    BY <1>3 DEF IInv, TypeOK
  <2>2. session = "live" \/ hurt
    BY <2>1 DEF IInv, Created
  <2>3. session' = session
    BY <1>3 DEF Take
  <2> QED
    BY <1>1, <2>2, <2>3 DEF IInv, TypeOK
<1> QED
  BY <1>2, <1>3 DEF IInv, TypeOK

\* The loop ends, with a shell.
LEMMA ConnectedHolds ==
    ASSUME IInv, NEW l \in Loop, Connected(l)
    PROVE  IInv'
<1>1. /\ loop[l] = "calling" /\ call[l].what = "ok"
      /\ Take(l, TRUE)
      /\ loop' = [loop EXCEPT ![l] = "off"]
      /\ call' = [call EXCEPT ![l] = Call("none")]
      /\ busy' = FALSE /\ signalled' = FALSE
      /\ UNCHANGED <<delay, run>>
  BY DEF Connected, None
<1>2. /\ \A m \in Loop : m # l => loop[m] = "off"
      /\ run = "idle"
      /\ l \in Actor /\ l # Run
      /\ \A c \in Actor : c # l => call[c] = None
  BY <1>1, LoopAlone
<1>3. \A m \in Loop : loop'[m] = "off"
  BY <1>1, <1>2 DEF IInv, TypeOK
<1>4. \A c \in Actor : call'[c] = None
  BY <1>1, <1>2 DEF IInv, TypeOK, None
<1>5. TypeOK'
  <2>1. loop' \in [Loop -> {"off", "waiting", "calling"}]
    BY <1>1 DEF IInv, TypeOK
  <2> QED
    BY <1>1, <1>2, <2>1, TakeTypes, CallTypes DEF IInv, TypeOK
<1>6. OneActivity' /\ Minded'
  BY <1>1, <1>2, <1>3 DEF OneActivity, Under, Minded
<1>7. Asked' /\ Executed' /\ Created'
  BY <1>1, <1>2, <1>3, <1>4 DEF Asked, Executed, Created, Waits, Creates, Actor, None,
     Call
<1>8. Excused'
  BY <1>1, <1>2, GivenExcused DEF Creates, Excused
<1> QED
  BY <1>5, <1>6, <1>7, <1>8 DEF IInv

\* The loop goes on.
LEMMA ConnectFailsHolds ==
    ASSUME IInv, NEW l \in Loop, ConnectFails(l)
    PROVE  IInv'
<1>1. /\ loop[l] = "calling"
      /\ Take(l, TRUE)
      /\ loop' = [loop EXCEPT ![l] = "waiting"]
      /\ call' = [call EXCEPT ![l] = Call("none")]
      /\ UNCHANGED <<busy, delay, run, signalled>>
  BY DEF ConnectFails, None
<1>2. /\ \A m \in Loop : m # l => loop[m] = "off"
      /\ run = "idle" /\ busy
      /\ l \in Actor /\ l # Run
      /\ \A c \in Actor : c # l => call[c] = None
  BY <1>1, LoopAlone
<1>3. \A m \in Loop : loop'[m] = IF m = l THEN "waiting" ELSE "off"
  BY <1>1, <1>2 DEF IInv, TypeOK
<1>4. \A c \in Actor : call'[c] = None
  BY <1>1, <1>2 DEF IInv, TypeOK, None
<1>5. TypeOK'
  <2>1. loop' \in [Loop -> {"off", "waiting", "calling"}]
    BY <1>1 DEF IInv, TypeOK
  <2> QED
    BY <1>1, <1>2, <2>1, TakeTypes, CallTypes DEF IInv, TypeOK
<1>6. OneActivity' /\ Minded' /\ Excused'
  BY <1>1, <1>2, <1>3 DEF IInv, OneActivity, Under, Minded, Excused
<1>7. Asked' /\ Executed' /\ Created'
  BY <1>1, <1>2, <1>3, <1>4 DEF Asked, Executed, Created, Waits, Creates, Actor, None,
     Call
<1> QED
  BY <1>5, <1>6, <1>7 DEF IInv

\* The loop asks again, after a delay of 1, 2, 4 or 8 seconds.
LEMMA RetryHolds ==
    ASSUME IInv, NEW l \in Loop, Retry(l)
    PROVE  IInv'
<1>1. /\ loop[l] = "waiting"
      /\ loop' = [loop EXCEPT ![l] = "calling"]
      /\ delay' = [delay EXCEPT ![l] = IF 2 * @ > 8 THEN 8 ELSE 2 * @]
      /\ call' = [call EXCEPT ![l] = Call("create")]
      /\ UNCHANGED <<busy, run, session, shell, hurt, signalled>>
  BY DEF Retry, MAX_DELAY, server
<1>2. /\ \A m \in Loop : m # l => loop[m] = "off"
      /\ run = "idle" /\ busy
      /\ l \in Actor /\ l # Run
      /\ \A c \in Actor : c # l => call[c] = None
  BY <1>1, LoopAlone
<1>3. \A m \in Loop : loop'[m] = IF m = l THEN "calling" ELSE "off"
  BY <1>1, <1>2 DEF IInv, TypeOK
<1>4. \A c \in Actor : call'[c] = IF c = l THEN Call("create") ELSE None
  BY <1>1, <1>2 DEF IInv, TypeOK
<1>5. TypeOK'
  <2>1. loop' \in [Loop -> {"off", "waiting", "calling"}]
    BY <1>1 DEF IInv, TypeOK
  <2>2. delay[l] \in {1, 2, 4, 8}
    BY DEF IInv, TypeOK
  <2>3. (IF 2 * delay[l] > 8 THEN 8 ELSE 2 * delay[l]) \in {1, 2, 4, 8}
    BY <2>2
  <2>4. delay' \in [Loop -> {1, 2, 4, 8}]
    BY <1>1, <2>3 DEF IInv, TypeOK
  <2> QED
    BY <1>1, <1>2, <2>1, <2>4, CallTypes DEF IInv, TypeOK
<1>6. OneActivity' /\ Minded' /\ Excused'
  BY <1>1, <1>2, <1>3 DEF IInv, OneActivity, Under, Minded, Excused
<1>7. Asked' /\ Executed' /\ Created'
  BY <1>1, <1>2, <1>3, <1>4, RunAssumption DEF Asked, Executed, Created, Waits, Creates,
     Actor, None, Call
<1> QED
  BY <1>5, <1>6, <1>7 DEF IInv

\* A command is submitted: run waits for its answer.
LEMMA SubmitHolds ==
    ASSUME IInv, Submit
    PROVE  IInv'
<1>1. /\ ~busy /\ busy' = TRUE /\ run' = "calling"
      /\ call' = [call EXCEPT ![Run] = Call("execute")]
      /\ UNCHANGED <<loop, delay, session, shell, hurt, signalled>>
  BY DEF Submit, server
<1>2. run = "idle" /\ \A m \in Loop : loop[m] = "off"
  BY <1>1 DEF IInv, OneActivity, Under
<1>3. \A c \in Actor : call'[c] = IF c = Run THEN Call("execute") ELSE None
  BY <1>1, <1>2 DEF IInv, TypeOK, Asked, Waits, Actor
<1>4. TypeOK'
  BY <1>1, CallTypes DEF IInv, TypeOK, Actor
<1>5. OneActivity' /\ Minded' /\ Excused'
  BY <1>1, <1>2 DEF IInv, OneActivity, Under, Minded, Excused
<1>6. Asked' /\ Executed' /\ Created'
  BY <1>1, <1>2, <1>3 DEF Asked, Executed, Created, Waits, Creates, Actor, Call
<1> QED
  BY <1>4, <1>5, <1>6 DEF IInv

\* The execution is answered with a stream or with a failure, or the stream ends:
\* the shell is as it was, or has been missed before.
LEMMA RunGoesOnHolds ==
    ASSUME IInv, Streams \/ StreamEnds \/ RunFails
    PROVE  IInv'
<1>1. /\ run \in {"calling", "streaming"} /\ run' \in {"idle", "streaming"}
      /\ busy' = busy \/ (busy' = FALSE /\ run' = "idle")
      /\ call' = [call EXCEPT ![Run] = None] \/ (call' = call /\ run = "streaming")
      /\ UNCHANGED <<loop, delay, signalled>>
  <2>1. CASE Streams
    BY <2>1 DEF Streams
  <2>2. CASE StreamEnds
    BY <2>2 DEF StreamEnds
  <2>3. CASE RunFails
    BY <2>3 DEF RunFails
  <2> QED
    BY <2>1, <2>2, <2>3
<1>2. /\ \A m \in Loop : loop[m] = "off"
      /\ busy /\ Run \in Actor
      /\ \A c \in Actor : c # Run => call[c] = None
  BY <1>1, RunAlone
<1>3. ~signalled
  BY <1>1 DEF IInv, Minded
<1>4. \A c \in Actor : call'[c] = None
  <2>1. CASE call' = [call EXCEPT ![Run] = None]
    BY <1>2, <2>1 DEF IInv, TypeOK
  <2>2. CASE call' = call /\ run = "streaming"
    BY <1>2, <2>2 DEF IInv, Asked, Waits
  <2> QED
    BY <1>1, <2>1, <2>2
<1>5. /\ session' \in {"none", "live", "stale"}
      /\ shell' \in BOOLEAN /\ hurt' \in BOOLEAN
      /\ ~shell' => hurt'
  <2>1. ~shell => hurt
    BY <1>1, <1>2 DEF IInv, Excused, Under
  <2>2. CASE StreamEnds
    BY <2>1, <2>2 DEF StreamEnds, server, IInv, TypeOK
  <2>3. CASE Streams \/ RunFails
    <3>1. /\ run = "calling" /\ Take(Run, FALSE)
          /\ call[Run].what \in {"ok", "gone", "error"}
      BY <2>3 DEF Streams, RunFails
    <3>2. shell' = (shell /\ call[Run].cookie = "keep") /\ hurt' = hurt
      BY <3>1 DEF Take, IInv, TypeOK
    <3>3. call[Run].cookie = "keep" \/ ~shell
      BY <3>1 DEF IInv, Executed
    <3> QED
      BY <1>2, <2>1, <3>1, <3>2, <3>3, TakeTypes DEF IInv
  <2> QED
    BY <2>2, <2>3
<1>6. TypeOK'
  <2>1. call' \in [Actor -> [what : {"none", "create", "execute"} \cup Status,
                             cookie : {"keep", "new"}]]
    BY <1>1, <1>2, CallTypes DEF IInv, TypeOK, None
  <2> QED
    BY <1>1, <1>5, <2>1 DEF IInv, TypeOK
<1>7. OneActivity' /\ Minded' /\ Excused'
  BY <1>1, <1>2, <1>3, <1>5 DEF OneActivity, Under, Minded, Excused
<1>8. Asked' /\ Executed' /\ Created'
  BY <1>1, <1>2, <1>4 DEF Asked, Executed, Created, Waits, Creates, Actor, None, Call
<1> QED
  BY <1>6, <1>7, <1>8 DEF IInv

\* After the signal run creates a shell.
LEMMA RunReassignedHolds ==
    ASSUME IInv, RunReassigned
    PROVE  IInv'
<1>1. /\ run = "calling" /\ run' = "recreating"
      /\ Take(Run, FALSE)
      /\ call' = [call EXCEPT ![Run] = Call("create")]
      /\ signalled' = TRUE
      /\ UNCHANGED <<busy, loop, delay>>
  BY DEF RunReassigned
<1>2. /\ \A m \in Loop : loop[m] = "off"
      /\ busy /\ Run \in Actor
      /\ \A c \in Actor : c # Run => call[c] = None
  BY <1>1, RunAlone
<1>3. \A c \in Actor : call'[c] = IF c = Run THEN Call("create") ELSE None
  BY <1>1, <1>2 DEF IInv, TypeOK
<1>4. TypeOK'
  BY <1>1, <1>2, TakeTypes, CallTypes DEF IInv, TypeOK
<1>5. OneActivity' /\ Minded' /\ Excused'
  BY <1>1, <1>2 DEF OneActivity, Under, Minded, Excused
<1>6. Asked' /\ Executed' /\ Created'
  BY <1>1, <1>2, <1>3 DEF Asked, Executed, Created, Waits, Creates, Actor, Call
<1> QED
  BY <1>4, <1>5, <1>6 DEF IInv

\* The shell is created anew, and the input enabled.
LEMMA RecreatedHolds ==
    ASSUME IInv, Recreated
    PROVE  IInv'
<1>1. /\ run = "recreating" /\ run' = "idle"
      /\ call[Run].what = "ok" /\ Take(Run, TRUE)
      /\ call' = [call EXCEPT ![Run] = Call("none")]
      /\ busy' = FALSE /\ signalled' = FALSE
      /\ UNCHANGED <<loop, delay>>
  BY DEF Recreated, None
<1>2. /\ \A m \in Loop : loop[m] = "off"
      /\ Run \in Actor
      /\ \A c \in Actor : c # Run => call[c] = None
  BY <1>1, RunAlone
<1>3. \A c \in Actor : call'[c] = None
  BY <1>1, <1>2 DEF IInv, TypeOK, None
<1>4. TypeOK'
  BY <1>1, <1>2, TakeTypes, CallTypes DEF IInv, TypeOK
<1>5. OneActivity' /\ Minded'
  BY <1>1, <1>2 DEF OneActivity, Under, Minded
<1>6. Asked' /\ Executed' /\ Created'
  BY <1>1, <1>2, <1>3 DEF Asked, Executed, Created, Waits, Creates, Actor, None, Call
<1>7. Excused'
  BY <1>1, <1>2, GivenExcused DEF Creates, Excused
<1> QED
  BY <1>4, <1>5, <1>6, <1>7 DEF IInv

\* The shell is not created: a loop of connect takes over.
LEMMA RecreateFailsHolds ==
    ASSUME IInv, RecreateFails
    PROVE  IInv'
<1>1. PICK l \in Loop :
          /\ loop' = [loop EXCEPT ![l] = "calling"]
          /\ delay' = [delay EXCEPT ![l] = 1]
          /\ call' = [call EXCEPT ![l] = Call("create"), ![Run] = Call("none")]
  BY DEF RecreateFails, None, INITIAL_DELAY
<1>2. /\ run = "recreating" /\ run' = "idle"
      /\ Take(Run, TRUE)
      /\ UNCHANGED <<busy, signalled>>
  BY DEF RecreateFails
<1>3. /\ \A m \in Loop : loop[m] = "off"
      /\ busy /\ Run \in Actor
      /\ \A c \in Actor : c # Run => call[c] = None
      /\ l \in Actor /\ l # Run
  BY <1>2, RunAlone, RunAssumption DEF Actor
<1>4. /\ \A m \in Loop : loop'[m] = IF m = l THEN "calling" ELSE "off"
      /\ \A c \in Actor : call'[c] = IF c = l THEN Call("create") ELSE None
  BY <1>1, <1>3 DEF IInv, TypeOK, None
<1>5. TypeOK'
  <2>1. call' \in [Actor -> [what : {"none", "create", "execute"} \cup Status,
                             cookie : {"keep", "new"}]]
    BY <1>1, <1>3 DEF IInv, TypeOK, Call
  <2>2. /\ loop' \in [Loop -> {"off", "waiting", "calling"}]
        /\ delay' \in [Loop -> {1, 2, 4, 8}]
    BY <1>1 DEF IInv, TypeOK
  <2> QED
    BY <1>2, <1>3, <2>1, <2>2, TakeTypes DEF IInv, TypeOK
<1>6. OneActivity' /\ Minded' /\ Excused'
  BY <1>2, <1>3, <1>4 DEF OneActivity, Under, Minded, Excused
<1>7. Asked' /\ Executed' /\ Created'
  BY <1>2, <1>3, <1>4 DEF Asked, Executed, Created, Waits, Creates, Actor, None, Call
<1> QED
  BY <1>5, <1>6, <1>7 DEF IInv

\* Every step keeps the invariant.
LEMMA StepHolds == IInv /\ [Next]_vars => IInv'
<1> SUFFICES ASSUME IInv, [Next]_vars PROVE IInv'
  OBVIOUS
<1>1. CASE UNCHANGED vars
  BY <1>1 DEF vars, server, IInv, TypeOK, OneActivity, Under, Asked, Waits, Creates,
     Executed, Created, Excused, Minded
<1>2. CASE RunnerGone \/ \E a \in Actor : Serve(a)
  BY <1>2, RunnerGoneHolds, ServeHolds
<1>3. CASE Submit \/ StreamEnds
  BY <1>3, SubmitHolds, RunGoesOnHolds
<1>4. CASE Page
  BY <1>4, ConnectedHolds, ConnectFailsHolds, RetryHolds, RunGoesOnHolds,
     RunReassignedHolds, RecreatedHolds, RecreateFailsHolds DEF Page
<1> QED
  BY <1>1, <1>2, <1>3, <1>4 DEF Next

-----------------------------------------------------------------------------
(* Theorems *)

\* In every behaviour each answer on its way means what the invariant says.
THEOREM Invariance == Spec => []IInv
  BY InitHolds, StepHolds, PTL DEF Spec

\* Every variable of the terminal keeps its type; in particular the delay doubles up
\* to MAX_DELAY and begins anew with each loop (connect, beginReconnect).
THEOREM TypeCorrect == Spec => []TypeOK
<1>1. IInv => TypeOK
  BY DEF IInv
<1> QED
  BY <1>1, Invariance, PTL

\* Shells are created by one at a time, and the input is enabled only while nothing
\* is under way, however many loops there may be (connect, run, busy).
THEOREM CreatesOneAtATime == Spec => []OneActivity
<1>1. IInv => OneActivity
  BY DEF IInv
<1> QED
  BY <1>1, Invariance, PTL

\* With the input enabled a shell is missing only when it was taken away from outside
\* (connect, run).
THEOREM LacksNoShellByItself == Spec => []OnlyTakenAway
<1>1. IInv => OnlyTakenAway
  BY DEF IInv, OnlyTakenAway, OneActivity, Excused
<1> QED
  BY <1>1, Invariance, PTL

\* After the reassigned signal no command is taken until a shell has been given (run,
\* beginReconnect).
THEOREM MindsTheSignal == Spec => []SignalIsMinded
<1>1. IInv => SignalIsMinded
  BY DEF IInv, Minded, SignalIsMinded
<1> QED
  BY <1>1, Invariance, PTL

=============================================================================
