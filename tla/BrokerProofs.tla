---------------------------- MODULE BrokerProofs ----------------------------
(***************************************************************************)
(* The inductive invariant of Broker and its proof.  SessionsFresh and     *)
(* OneHolder give the properties of sessions; the origins and               *)
(* FirstRegistration give those of runners.                                *)
(***************************************************************************)
EXTENDS Broker, TLAPS

\* What a request carries in each phase; TypeOK alone is not inductive, since
\* a request without a record could not assign one.
Shape ==
    \A q \in Request :
        /\ pc[q] \in Deleting \cup {"check", "assign", "verify"} =>
              rid[q] \in [id : Runner, host : Host]
        /\ pc[q] \in Creating \cup {"ok"} => sid[q] \in Session
        /\ pc[q] \in Resolving \cup Closing => cookie[q] \in Session

\* A session id being created is known to nobody else.
SessionsFresh ==
    /\ known \subseteq issued
    /\ \A q \in Request :
          /\ pc[q] \in Creating => sid[q] \in issued \ known
          /\ pc[q] = "ok" => sid[q] \in issued
          /\ pc[q] \in Resolving \cup Closing => cookie[q] \in known
    /\ \A q, p \in Request :
          /\ pc[q] \in Creating
          /\ pc[p] \in Creating \cup {"ok"}
          /\ sid[q] = sid[p]
          => q = p
    /\ \A s \in Session, r \in Runner : <<s, r>> \in bound => s \in issued

\* A session being created holds no record but the one it has to check.
OneHolder ==
    \A q \in Request, r \in Runner :
        /\ pc[q] \in Creating
        /\ table[r].sid = sid[q]
        /\ sid[q] \notin ambiguous
        => pc[q] \in {"verify", "discard"} /\ rid[q].id = r

\* Where every copy of a record comes from.
RecordOrigin ==
    \A r \in Runner :
        /\ table[r].state = "busy" => <<table[r].sid, r>> \in bound
        /\ sessionIndex[r].sid # NoSession =>
              <<sessionIndex[r].sid, r>> \in bound
        /\ table[r] # Absent => table[r].host = HostOf[r]
        /\ idleIndex[r] # Absent => idleIndex[r].host = HostOf[r]
        /\ sessionIndex[r] # Absent => sessionIndex[r].host = HostOf[r]

\* Where the record a request holds comes from.
HeldOrigin ==
    \A q \in Request :
        /\ rid[q] # NoRunner => rid[q].host = HostOf[rid[q].id]
        /\ pc[q] \in {"check", "evict", "unbind"} =>
              <<cookie[q], rid[q].id>> \in bound
        /\ pc[q] \in {"verify", "discard"} => <<sid[q], rid[q].id>> \in bound

\* Where every answer comes from.
AnswerOrigin ==
    \A s \in Session, p \in Runner : <<s, p>> \in served =>
        \E r \in Runner : HostOf[r] = HostOf[p] /\ <<s, r>> \in bound

\* A runner that registered once has had at most one session.
FirstRegistration ==
    /\ \A r \in Runner \ joined :
          table[r] = Absent /\ \A s \in Session : <<s, r>> \notin bound
    /\ \A r \in Runner \ renewed :
          /\ table[r].state = "idle" =>
                \A s \in Session : <<s, r>> \notin bound
          /\ \A s, t \in Session :
                <<s, r>> \in bound /\ <<t, r>> \in bound => s = t

IInv ==
    /\ TypeOK
    /\ Shape
    /\ SessionsFresh
    /\ OneHolder
    /\ OneRunnerPerSession
    /\ RecordOrigin
    /\ HeldOrigin
    /\ AnswerOrigin
    /\ FirstRegistration
    /\ BusyIsAccountedFor

-----------------------------------------------------------------------------
(* Types *)

\* A record is absent, idle or busy.
LEMMA RecordForms ==
    /\ Absent \in Record
    /\ \A h \in Host : Idle(h) \in Record
    /\ \A s \in Session, h \in Host : Busy(s, h) \in Record
  BY DEF Record

\* What the fields of a record can be in each of its states.
LEMMA RecordFields ==
    /\ \A x \in Record : x # Absent => x.host \in Host
    /\ \A x \in Record : x.state = "idle" => x # Absent /\ x.sid = NoSession
    /\ \A x \in Record : x.state = "busy" => x # Absent /\ x.sid \in Session
    /\ \A x \in Record : x.sid # NoSession => x.state = "busy"
    /\ \A x \in Record : x.state \notin {"idle", "busy"} => x = Absent
    /\ \A x \in Record : x.state = "busy" => x = Busy(x.sid, x.host)
  BY SessionAssumption DEF Record, Absent, Idle, Busy

\* The variables are well typed at the start.
LEMMA TypeInit == Init => TypeOK /\ Shape
  BY RecordForms, BoundAssumption
      DEF Init, TypeOK, Shape, Deleting, Creating, Resolving, Closing

\* Every step keeps the types, and what a request carries in its phase.
LEMMA TypeStep == TypeOK /\ Shape /\ [Next]_vars => TypeOK' /\ Shape'
  <1> SUFFICES ASSUME TypeOK, Shape, [Next]_vars PROVE TypeOK' /\ Shape'
    OBVIOUS
  <1> USE RecordForms, BoundAssumption
      DEF TypeOK, Shape, Deleting, Working, Creating, Resolving, Closing,
      Answered, runnerVars, requestVars, historyVars
  <1>1. ASSUME NEW r \in Runner, Start(r)
        PROVE  TypeOK' /\ Shape'
    BY <1>1 DEF Start
  <1>2. ASSUME NEW r \in Runner, ReadRegisterAnswer(r)
        PROVE  TypeOK' /\ Shape'
    BY <1>2 DEF ReadRegisterAnswer
  <1>3. ASSUME NEW r \in Runner, LoseRegister(r)
        PROVE  TypeOK' /\ Shape'
    BY <1>3 DEF LoseRegister, Fault
  <1>4. ASSUME NEW r \in Runner, RetryRegister(r)
        PROVE  TypeOK' /\ Shape'
    BY <1>4 DEF RetryRegister
  <1>5. ASSUME NEW r \in Runner, Terminate(r)
        PROVE  TypeOK' /\ Shape'
    BY <1>5 DEF Terminate
  <1>6. ASSUME NEW r \in Runner, Exit(r)
        PROVE  TypeOK' /\ Shape'
    BY <1>6 DEF Exit
  <1>7. ASSUME NEW r \in Runner, Register(r)
        PROVE  TypeOK' /\ Shape'
    BY HostAssumption, <1>7 DEF Register
  <1>8. ASSUME NEW r \in Runner, Deregister(r)
        PROVE  TypeOK' /\ Shape'
    BY <1>8 DEF Deregister
  <1>9. ASSUME NEW r \in Runner, PropagateState(r)
        PROVE  TypeOK' /\ Shape'
    BY <1>9 DEF PropagateState, ShownIdle
  <1>10. ASSUME NEW r \in Runner, PropagateSession(r)
        PROVE  TypeOK' /\ Shape'
    BY <1>10 DEF PropagateSession, ShownBusy
  <1>11. ASSUME NEW q \in Request, ResolveNew(q)
        PROVE  TypeOK' /\ Shape'
    BY <1>11 DEF ResolveNew, BeginCreate
  <1>12. ASSUME NEW q \in Request, NEW s \in Session, ResolveKnown(q, s)
        PROVE  TypeOK' /\ Shape'
    BY <1>12 DEF ResolveKnown
  <1>13. ASSUME NEW q \in Request, NEW s \in Session, Close(q, s)
        PROVE  TypeOK' /\ Shape'
    BY <1>13 DEF Close
  <1>14. ASSUME NEW q \in Request, FindHit(q)
        PROVE  TypeOK' /\ Shape'
    BY RecordFields, SessionAssumption, <1>14 DEF FindHit, Found, Absent
  <1>15. ASSUME NEW q \in Request, FindMiss(q)
        PROVE  TypeOK' /\ Shape'
    BY <1>15 DEF FindMiss, BeginCreate
  <1>16. ASSUME NEW q \in Request, CloseMiss(q)
        PROVE  TypeOK' /\ Shape'
    BY <1>16 DEF CloseMiss, Finish
  <1>17. ASSUME NEW q \in Request, CheckPass(q)
        PROVE  TypeOK' /\ Shape'
    BY <1>17 DEF CheckPass, Listening
  <1>18. ASSUME NEW q \in Request, CheckFail(q)
        PROVE  TypeOK' /\ Shape'
    BY <1>18 DEF CheckFail, Fault
  <1>19. ASSUME NEW q \in Request, Evict(q)
        PROVE  TypeOK' /\ Shape'
    BY <1>19 DEF Evict, BeginCreate, DeleteHeld
  <1>20. ASSUME NEW q \in Request, Discard(q)
        PROVE  TypeOK' /\ Shape'
    BY <1>20 DEF Discard, DeleteHeld
  <1>21. ASSUME NEW q \in Request, Unbind(q)
        PROVE  TypeOK' /\ Shape'
    BY <1>21 DEF Unbind, DeleteHeld, Finish
  <1>22. ASSUME NEW q \in Request, DeleteRetried(q)
        PROVE  TypeOK' /\ Shape'
    BY <1>22 DEF DeleteRetried, Fault, DeleteHeld
  <1>23. ASSUME NEW q \in Request, Scan(q)
        PROVE  TypeOK' /\ Shape'
    BY RecordFields, <1>23 DEF Scan
  <1>24. ASSUME NEW q \in Request, ScanEnds(q)
        PROVE  TypeOK' /\ Shape'
    BY <1>24 DEF ScanEnds
  <1>25. ASSUME NEW q \in Request, Assign(q)
        PROVE  TypeOK' /\ Shape'
    BY RecordFields, <1>25 DEF Assign, Bind
  <1>26. ASSUME NEW q \in Request, AssignConflict(q)
        PROVE  TypeOK' /\ Shape'
    BY <1>26 DEF AssignConflict
  <1>27. ASSUME NEW q \in Request, AssignRetried(q)
        PROVE  TypeOK' /\ Shape'
    BY RecordFields, <1>27 DEF AssignRetried, Bind, Fault
  <1>28. ASSUME NEW q \in Request, Abort(q)
        PROVE  TypeOK' /\ Shape'
    BY RecordFields, <1>28 DEF Abort, Bind, DeleteHeld, Finish
  <1>29. ASSUME NEW q \in Request, Answer(q)
        PROVE  TypeOK' /\ Shape'
    BY <1>29 DEF Answer, Finish
  <1>30. ASSUME NEW q \in Request, LoseAnswer(q)
        PROVE  TypeOK' /\ Shape'
    BY <1>30 DEF LoseAnswer, Finish
  <1>31. CASE UNCHANGED vars
    BY <1>31 DEF vars
  <1> QED
    BY <1>1, <1>2, <1>3, <1>4, <1>5, <1>6, <1>7, <1>8, <1>9, <1>10, <1>11,
        <1>12, <1>13, <1>14, <1>15, <1>16, <1>17, <1>18, <1>19, <1>20, <1>21,
        <1>22, <1>23, <1>24, <1>25, <1>26, <1>27, <1>28, <1>29, <1>30, <1>31
    DEF Next, RunnerStep, StoreStep, Arrive, Progress, Disturbance


\* A delete, made or not, leaves every record as it was or absent.
LEMMA DeleteForm ==
    ASSUME TypeOK, NEW x,
           table' \in {table, [table EXCEPT ![x] = Absent]}
    PROVE  \A r \in Runner : table'[r] = table[r] \/ table'[r] = Absent
  BY DEF TypeOK

\* A session that some record carries has been minted.
LEMMA CarriedIsIssued ==
    ASSUME TypeOK, SessionsFresh, RecordOrigin,
           NEW r \in Runner, table[r].sid # NoSession
    PROVE  table[r].sid \in issued
  <1>1. table[r].state = "busy" /\ table[r].sid \in Session
    BY RecordFields DEF TypeOK
  <1> QED BY <1>1 DEF SessionsFresh, RecordOrigin

\* Nothing is forgotten: minted, received, assigned and registered ids only
\* grow.
LEMMA Monotone ==
    [Next]_vars => /\ issued \subseteq issued'
                   /\ known \subseteq known'
                   /\ bound \subseteq bound'
                   /\ ambiguous \subseteq ambiguous'
                   /\ abandoned \subseteq abandoned'
                   /\ joined \subseteq joined'
                   /\ renewed \subseteq renewed'
  BY DEF Next, RunnerStep, StoreStep, Arrive, Progress, Disturbance, Start,
      ReadRegisterAnswer, LoseRegister, RetryRegister, Terminate, Exit,
      Register, Deregister, PropagateState, PropagateSession, ResolveNew,
      ResolveKnown, Close, FindHit, FindMiss, CloseMiss, CheckPass, CheckFail,
      Evict, Discard, Unbind, DeleteRetried, Scan, ScanEnds, Assign,
      AssignConflict, AssignRetried, Abort, Answer, LoseAnswer, BeginCreate,
      Bind, vars, runnerVars, requestVars, historyVars

\* A session id being created stays the secret of its one request.
LEMMA SessionsFreshStep ==
    ASSUME TypeOK, Shape, SessionsFresh, [Next]_vars
    PROVE  SessionsFresh'
  <1> USE
      DEF TypeOK, Shape, SessionsFresh, Working, Creating, Resolving, Closing,
          Answered, runnerVars, requestVars, historyVars
  <1>1. ASSUME NEW r \in Runner,
               Start(r) \/ ReadRegisterAnswer(r) \/ LoseRegister(r)
                  \/ RetryRegister(r) \/ Terminate(r) \/ Exit(r)
                  \/ PropagateState(r) \/ PropagateSession(r) \/ Register(r)
                  \/ Deregister(r)
        PROVE  SessionsFresh'
    BY <1>1
        DEF Start, ReadRegisterAnswer, LoseRegister, RetryRegister, Terminate,
            Exit, PropagateState, PropagateSession, Register, Deregister
  <1>2. ASSUME NEW q \in Request, ResolveNew(q)
        PROVE  SessionsFresh'
    BY <1>2 DEF ResolveNew, BeginCreate
  <1>3. ASSUME NEW q \in Request, NEW s \in Session, ResolveKnown(q, s)
        PROVE  SessionsFresh'
    BY <1>3 DEF ResolveKnown
  <1>4. ASSUME NEW q \in Request, NEW s \in Session, Close(q, s)
        PROVE  SessionsFresh'
    BY <1>4 DEF Close
  <1>5. ASSUME NEW q \in Request, FindHit(q)
        PROVE  SessionsFresh'
    BY <1>5 DEF FindHit, Found, Absent
  <1>6. ASSUME NEW q \in Request, FindMiss(q)
        PROVE  SessionsFresh'
    BY <1>6 DEF FindMiss, BeginCreate
  <1>7. ASSUME NEW q \in Request, CloseMiss(q)
        PROVE  SessionsFresh'
    BY <1>7 DEF CloseMiss, Finish
  <1>8. ASSUME NEW q \in Request, CheckPass(q)
        PROVE  SessionsFresh'
    BY <1>8 DEF CheckPass, Listening
  <1>9. ASSUME NEW q \in Request, CheckFail(q)
        PROVE  SessionsFresh'
    BY <1>9 DEF CheckFail, Fault
  <1>10. ASSUME NEW q \in Request, Evict(q)
        PROVE  SessionsFresh'
    BY <1>10 DEF Evict, BeginCreate, DeleteHeld
  <1>11. ASSUME NEW q \in Request, Discard(q)
        PROVE  SessionsFresh'
    BY <1>11 DEF Discard, DeleteHeld
  <1>12. ASSUME NEW q \in Request, Unbind(q)
        PROVE  SessionsFresh'
    BY <1>12 DEF Unbind, DeleteHeld, Finish
  <1>13. ASSUME NEW q \in Request, DeleteRetried(q)
        PROVE  SessionsFresh'
    BY <1>13 DEF DeleteRetried, Fault, DeleteHeld
  <1>14. ASSUME NEW q \in Request, Scan(q)
        PROVE  SessionsFresh'
    BY <1>14 DEF Scan
  <1>15. ASSUME NEW q \in Request, ScanEnds(q)
        PROVE  SessionsFresh'
    BY <1>15 DEF ScanEnds
  <1>16. ASSUME NEW q \in Request, Assign(q)
        PROVE  SessionsFresh'
    BY <1>16 DEF Assign, Bind
  <1>17. ASSUME NEW q \in Request, AssignConflict(q)
        PROVE  SessionsFresh'
    BY <1>17 DEF AssignConflict
  <1>18. ASSUME NEW q \in Request, AssignRetried(q)
        PROVE  SessionsFresh'
    BY <1>18 DEF AssignRetried, Bind, Fault
  <1>19. ASSUME NEW q \in Request, Abort(q)
        PROVE  SessionsFresh'
    BY <1>19 DEF Abort, Bind, DeleteHeld, Finish
  <1>20. ASSUME NEW q \in Request, Answer(q)
        PROVE  SessionsFresh'
    BY <1>20 DEF Answer, Finish
  <1>21. ASSUME NEW q \in Request, LoseAnswer(q)
        PROVE  SessionsFresh'
    BY <1>21 DEF LoseAnswer, Finish
  <1>22. CASE UNCHANGED vars
    BY <1>22 DEF vars
  <1> QED
    BY <1>1, <1>2, <1>3, <1>4, <1>5, <1>6, <1>7, <1>8, <1>9, <1>10, <1>11,
        <1>12, <1>13, <1>14, <1>15, <1>16, <1>17, <1>18, <1>19, <1>20, <1>21,
        <1>22
    DEF Next, RunnerStep, StoreStep, Arrive, Progress, Disturbance

\* createSession enters its next attempt without a record of its session.
LEMMA OneHolderStep ==
    ASSUME TypeOK, Shape, SessionsFresh, RecordOrigin, OneHolder, [Next]_vars
    PROVE  OneHolder'
  <1> SUFFICES ASSUME NEW p \in Request, NEW k \in Runner,
                      pc'[p] \in Creating,
                      table'[k].sid = sid'[p],
                      sid'[p] \notin ambiguous'
               PROVE  pc'[p] \in {"verify", "discard"} /\ rid'[p].id = k
    BY DEF OneHolder
  <1>a. /\ sid'[p] \in Session
        /\ sid'[p] # NoSession
        /\ Absent.sid = NoSession
    BY TypeStep, SessionAssumption DEF Shape, Absent
  <1>b. /\ pc \in [Request -> {"free"} \cup Working \cup Answered]
        /\ sid \in [Request -> Session \cup {NoSession}]
        /\ rid \in [Request -> [id : Runner, host : Host] \cup {NoRunner}]
        /\ table \in [Runner -> Record]
    BY DEF TypeOK
  <1>c. pc[p] \in Creating /\ table[k].sid = sid[p] /\ sid[p] \notin ambiguous
           => pc[p] \in {"verify", "discard"} /\ rid[p].id = k
    BY DEF OneHolder
  <1>d. table[k].sid # NoSession => table[k].sid \in issued
    BY CarriedIsIssued
  <1> USE DEF Creating, runnerVars, requestVars, historyVars
  <1>1. ASSUME NEW r \in Runner,
               Start(r) \/ ReadRegisterAnswer(r) \/ LoseRegister(r)
                  \/ RetryRegister(r) \/ Terminate(r) \/ Exit(r)
                  \/ PropagateState(r) \/ PropagateSession(r)
        PROVE  pc'[p] \in {"verify", "discard"} /\ rid'[p].id = k
    BY <1>c, <1>1
        DEF Start, ReadRegisterAnswer, LoseRegister, RetryRegister, Terminate,
            Exit, PropagateState, PropagateSession
  <1>2. ASSUME NEW r \in Runner, Register(r)
        PROVE  pc'[p] \in {"verify", "discard"} /\ rid'[p].id = k
    BY <1>a, <1>b, <1>c, <1>2 DEF Register, Idle
  <1>3. ASSUME NEW r \in Runner, Deregister(r)
        PROVE  pc'[p] \in {"verify", "discard"} /\ rid'[p].id = k
    BY <1>a, <1>c, <1>3, DeleteForm DEF Deregister
  <1>4. ASSUME NEW q \in Request,
               ResolveNew(q) \/ FindMiss(q)
        PROVE  pc'[p] \in {"verify", "discard"} /\ rid'[p].id = k
    BY <1>a, <1>b, <1>c, <1>d, <1>4 DEF ResolveNew, FindMiss, BeginCreate
  <1>5. ASSUME NEW q \in Request, NEW s \in Session,
               ResolveKnown(q, s) \/ Close(q, s)
        PROVE  pc'[p] \in {"verify", "discard"} /\ rid'[p].id = k
    BY <1>b, <1>c, <1>5 DEF ResolveKnown, Close
  <1>6. ASSUME NEW q \in Request, FindHit(q)
        PROVE  pc'[p] \in {"verify", "discard"} /\ rid'[p].id = k
    BY <1>b, <1>c, <1>6 DEF FindHit
  <1>7. ASSUME NEW q \in Request,
               CloseMiss(q) \/ Answer(q) \/ LoseAnswer(q)
        PROVE  pc'[p] \in {"verify", "discard"} /\ rid'[p].id = k
    BY <1>b, <1>c, <1>7 DEF CloseMiss, Answer, LoseAnswer, Finish
  <1>8. ASSUME NEW q \in Request, CheckPass(q)
        PROVE  pc'[p] \in {"verify", "discard"} /\ rid'[p].id = k
    BY <1>b, <1>c, <1>8 DEF CheckPass
  <1>9. ASSUME NEW q \in Request, CheckFail(q)
        PROVE  pc'[p] \in {"verify", "discard"} /\ rid'[p].id = k
    BY <1>b, <1>c, <1>9 DEF CheckFail
  <1>10. ASSUME NEW q \in Request, Evict(q)
        PROVE  pc'[p] \in {"verify", "discard"} /\ rid'[p].id = k
    BY <1>a, <1>b, <1>c, <1>d, <1>10, DeleteForm
        DEF Evict, BeginCreate, DeleteHeld
  <1>11. ASSUME NEW q \in Request, Discard(q)
        PROVE  pc'[p] \in {"verify", "discard"} /\ rid'[p].id = k
    BY <1>a, <1>b, <1>c, <1>11, DeleteForm DEF Discard, DeleteHeld
  <1>12. ASSUME NEW q \in Request, Unbind(q)
        PROVE  pc'[p] \in {"verify", "discard"} /\ rid'[p].id = k
    BY <1>a, <1>b, <1>c, <1>12, DeleteForm DEF Unbind, Finish, DeleteHeld
  <1>13. ASSUME NEW q \in Request, DeleteRetried(q)
        PROVE  pc'[p] \in {"verify", "discard"} /\ rid'[p].id = k
    BY <1>a, <1>b, <1>c, <1>13, DeleteForm DEF DeleteRetried, DeleteHeld
  <1>14. ASSUME NEW q \in Request,
               Scan(q) \/ ScanEnds(q) \/ AssignConflict(q)
        PROVE  pc'[p] \in {"verify", "discard"} /\ rid'[p].id = k
    BY <1>b, <1>c, <1>14 DEF Scan, ScanEnds, AssignConflict
  <1>15. ASSUME NEW q \in Request, Assign(q)
        PROVE  pc'[p] \in {"verify", "discard"} /\ rid'[p].id = k
    BY <1>a, <1>b, <1>c, <1>15 DEF Assign, Bind, Busy, SessionsFresh
  <1>16. ASSUME NEW q \in Request, AssignRetried(q)
        PROVE  pc'[p] \in {"verify", "discard"} /\ rid'[p].id = k
    BY <1>a, <1>b, <1>c, <1>16 DEF AssignRetried, Bind, Busy, SessionsFresh
  <1>17. ASSUME NEW q \in Request, Abort(q)
        PROVE  pc'[p] \in {"verify", "discard"} /\ rid'[p].id = k
    BY <1>a, <1>b, <1>c, <1>17
        DEF Abort, Bind, Busy, DeleteHeld, Finish, SessionsFresh
  <1>18. CASE UNCHANGED vars
    BY <1>c, <1>18 DEF vars
  <1> QED
    BY <1>1, <1>2, <1>3, <1>4, <1>5, <1>6, <1>7, <1>8, <1>9, <1>10, <1>11,
        <1>12, <1>13, <1>14, <1>15, <1>16, <1>17, <1>18
    DEF Next, RunnerStep, StoreStep, Arrive, Progress, Disturbance


\* No step gives a session a second record, unless its assign was repeated.
LEMMA OneRunnerStep ==
    ASSUME TypeOK, Shape, OneHolder, OneRunnerPerSession, [Next]_vars
    PROVE  OneRunnerPerSession'
  <1> SUFFICES ASSUME NEW a \in Runner, NEW b \in Runner,
                      table'[a].state = "busy",
                      table'[a].sid = table'[b].sid,
                      table'[a].sid \notin ambiguous'
               PROVE  a = b
    BY DEF OneRunnerPerSession
  <1>a. /\ table \in [Runner -> Record]
        /\ table'[a].sid # NoSession
        /\ Absent.sid = NoSession /\ Absent.state = "absent"
    <2>1. table' \in [Runner -> Record]
      BY TypeStep DEF TypeOK
    <2> QED BY <2>1, RecordFields, SessionAssumption DEF TypeOK, Absent
  <1>b. /\ table[a].state = "busy"
        /\ table[a].sid = table[b].sid
        /\ table[a].sid \notin ambiguous
        => a = b
    BY DEF OneRunnerPerSession
  <1>c. ambiguous \subseteq ambiguous'
    BY Monotone
  <1>d. ASSUME table' = table PROVE a = b
    BY <1>b, <1>c, <1>d
  <1>e. ASSUME NEW x, table' \in {table, [table EXCEPT ![x] = Absent]}
        PROVE  a = b
    BY <1>a, <1>b, <1>c, <1>e, DeleteForm
  <1>f. ASSUME NEW q \in Request, pc[q] = "assign", Bind(q) PROVE a = b
    <2>1. \A r \in Runner : table[r].sid = sid[q] => sid[q] \in ambiguous
      BY <1>f DEF OneHolder, Creating
    <2> QED BY <1>a, <1>b, <1>c, <1>f, <2>1 DEF Bind, Busy
  <1> USE DEF historyVars
  <1>1. ASSUME NEW r \in Runner,
               Start(r) \/ ReadRegisterAnswer(r) \/ LoseRegister(r)
                  \/ RetryRegister(r) \/ Terminate(r) \/ Exit(r)
                  \/ PropagateState(r) \/ PropagateSession(r)
        PROVE  a = b
    BY <1>d, <1>1
        DEF Start, ReadRegisterAnswer, LoseRegister, RetryRegister, Terminate,
            Exit, PropagateState, PropagateSession
  <1>2. ASSUME NEW r \in Runner, Register(r)
        PROVE  a = b
    BY <1>a, <1>b, <1>c, <1>d, <1>2 DEF Register, Idle
  <1>3. ASSUME NEW r \in Runner, Deregister(r)
        PROVE  a = b
    BY <1>e, <1>3 DEF Deregister
  <1>4. ASSUME NEW q \in Request,
               ResolveNew(q) \/ FindMiss(q)
        PROVE  a = b
    BY <1>d, <1>4 DEF ResolveNew, FindMiss
  <1>5. ASSUME NEW q \in Request, NEW s \in Session,
               ResolveKnown(q, s) \/ Close(q, s)
        PROVE  a = b
    BY <1>d, <1>5 DEF ResolveKnown, Close
  <1>6. ASSUME NEW q \in Request,
               FindHit(q) \/ CloseMiss(q) \/ Answer(q) \/ LoseAnswer(q)
        PROVE  a = b
    BY <1>d, <1>6 DEF FindHit, CloseMiss, Answer, LoseAnswer
  <1>7. ASSUME NEW q \in Request,
               CheckPass(q) \/ CheckFail(q) \/ Scan(q) \/ ScanEnds(q)
                  \/ AssignConflict(q)
        PROVE  a = b
    BY <1>d, <1>7 DEF CheckPass, CheckFail, Scan, ScanEnds, AssignConflict
  <1>8. ASSUME NEW q \in Request,
               Evict(q) \/ Discard(q) \/ Unbind(q) \/ DeleteRetried(q)
        PROVE  a = b
    BY <1>e, <1>8 DEF Evict, Discard, Unbind, DeleteRetried, DeleteHeld
  <1>9. ASSUME NEW q \in Request,
               Assign(q) \/ AssignRetried(q)
        PROVE  a = b
    BY <1>f, <1>9 DEF Assign, AssignRetried
  <1>10. ASSUME NEW q \in Request, Abort(q)
        PROVE  a = b
    BY <1>d, <1>e, <1>f, <1>10 DEF Abort, DeleteHeld
  <1>11. CASE UNCHANGED vars
    BY <1>d, <1>11 DEF vars
  <1> QED
    BY <1>1, <1>2, <1>3, <1>4, <1>5, <1>6, <1>7, <1>8, <1>9, <1>10, <1>11
    DEF Next, RunnerStep, StoreStep, Arrive, Progress, Disturbance

\* Records and their copies in the indexes come from assignments.
LEMMA RecordOriginStep ==
    ASSUME TypeOK, Shape, RecordOrigin, [Next]_vars
    PROVE  RecordOrigin'
  <1> SUFFICES ASSUME NEW k \in Runner
               PROVE  /\ table'[k].state = "busy" =>
                            <<table'[k].sid, k>> \in bound'
                      /\ sessionIndex'[k].sid # NoSession =>
                            <<sessionIndex'[k].sid, k>> \in bound'
                      /\ table'[k] # Absent => table'[k].host = HostOf[k]
                      /\ idleIndex'[k] # Absent =>
                            idleIndex'[k].host = HostOf[k]
                      /\ sessionIndex'[k] # Absent =>
                            sessionIndex'[k].host = HostOf[k]
    BY DEF RecordOrigin
  <1> DEFINE G == /\ table'[k].state = "busy" =>
                        <<table'[k].sid, k>> \in bound'
                  /\ sessionIndex'[k].sid # NoSession =>
                        <<sessionIndex'[k].sid, k>> \in bound'
                  /\ table'[k] # Absent => table'[k].host = HostOf[k]
                  /\ idleIndex'[k] # Absent => idleIndex'[k].host = HostOf[k]
                  /\ sessionIndex'[k] # Absent =>
                        sessionIndex'[k].host = HostOf[k]
  <1> HIDE DEF G
  <1>a. /\ table \in [Runner -> Record]
        /\ idleIndex \in [Runner -> Record]
        /\ sessionIndex \in [Runner -> Record]
        /\ Absent.sid = NoSession /\ Absent.state = "absent"
    BY DEF TypeOK, Absent
  <1>b. /\ table[k].state = "busy" => <<table[k].sid, k>> \in bound
        /\ sessionIndex[k].sid # NoSession => <<sessionIndex[k].sid, k>> \in bound
        /\ table[k] # Absent => table[k].host = HostOf[k]
        /\ idleIndex[k] # Absent => idleIndex[k].host = HostOf[k]
        /\ sessionIndex[k] # Absent => sessionIndex[k].host = HostOf[k]
    BY DEF RecordOrigin
  <1>c. bound \subseteq bound'
    BY Monotone
  <1>d. ASSUME table' = table, idleIndex' = idleIndex,
               sessionIndex' = sessionIndex
        PROVE  G
    BY <1>b, <1>c, <1>d DEF G
  <1>e. ASSUME NEW x, table' \in {table, [table EXCEPT ![x] = Absent]},
               UNCHANGED <<idleIndex, sessionIndex>>
        PROVE  G
    <2>1. table'[k] = table[k] \/ table'[k] = Absent
      BY <1>e, DeleteForm
    <2> QED BY <1>a, <1>b, <1>c, <1>e, <2>1 DEF G
  <1>f. ASSUME NEW q \in Request, pc[q] = "assign", Bind(q),
               UNCHANGED <<idleIndex, sessionIndex>>
        PROVE  G
    <2>1. table[rid[q].id] # Absent
      BY <1>a, <1>f DEF Bind
    <2>2. CASE k = rid[q].id
      BY <1>a, <1>b, <1>c, <1>f, <2>1, <2>2 DEF G, Bind, Busy
    <2>3. CASE k # rid[q].id
      BY <1>a, <1>b, <1>c, <1>f, <2>3 DEF G, Bind
    <2> QED BY <2>2, <2>3
  <1>1. ASSUME NEW r \in Runner,
               Start(r) \/ ReadRegisterAnswer(r) \/ LoseRegister(r)
                  \/ RetryRegister(r) \/ Terminate(r) \/ Exit(r)
        PROVE  G
    BY <1>d, <1>1
        DEF Start, ReadRegisterAnswer, LoseRegister, RetryRegister, Terminate,
            Exit
  <1>2. ASSUME NEW r \in Runner, Register(r)
        PROVE  G
    BY <1>a, <1>b, <1>c, <1>2, HostAssumption DEF G, Register, Idle
  <1>3. ASSUME NEW r \in Runner, Deregister(r)
        PROVE  G
    BY <1>e, <1>3 DEF Deregister
  <1>4. ASSUME NEW r \in Runner, PropagateState(r)
        PROVE  G
    BY <1>a, <1>b, <1>c, <1>4 DEF G, PropagateState, ShownIdle
  <1>5. ASSUME NEW r \in Runner, PropagateSession(r)
        PROVE  G
    BY <1>a, <1>b, <1>c, <1>5 DEF G, PropagateSession, ShownBusy
  <1>6. ASSUME NEW q \in Request,
               ResolveNew(q) \/ FindMiss(q)
        PROVE  G
    BY <1>d, <1>6 DEF ResolveNew, FindMiss
  <1>7. ASSUME NEW q \in Request, NEW s \in Session,
               ResolveKnown(q, s) \/ Close(q, s)
        PROVE  G
    BY <1>d, <1>7 DEF ResolveKnown, Close
  <1>8. ASSUME NEW q \in Request,
               FindHit(q) \/ CloseMiss(q) \/ Answer(q) \/ LoseAnswer(q)
        PROVE  G
    BY <1>d, <1>8 DEF FindHit, CloseMiss, Answer, LoseAnswer
  <1>9. ASSUME NEW q \in Request,
               CheckPass(q) \/ CheckFail(q) \/ Scan(q) \/ ScanEnds(q)
                  \/ AssignConflict(q)
        PROVE  G
    BY <1>d, <1>9 DEF CheckPass, CheckFail, Scan, ScanEnds, AssignConflict
  <1>10. ASSUME NEW q \in Request,
               Evict(q) \/ Discard(q) \/ Unbind(q) \/ DeleteRetried(q)
        PROVE  G
    BY <1>e, <1>10 DEF Evict, Discard, Unbind, DeleteRetried, DeleteHeld
  <1>11. ASSUME NEW q \in Request,
               Assign(q) \/ AssignRetried(q)
        PROVE  G
    BY <1>f, <1>11 DEF Assign, AssignRetried
  <1>12. ASSUME NEW q \in Request, Abort(q)
        PROVE  G
    BY <1>d, <1>e, <1>f, <1>12 DEF Abort, DeleteHeld
  <1>13. CASE UNCHANGED vars
    BY <1>d, <1>13 DEF G, vars
  <1>q. G
    BY <1>1, <1>2, <1>3, <1>4, <1>5, <1>6, <1>7, <1>8, <1>9, <1>10, <1>11,
        <1>12, <1>13
    DEF G, Next, RunnerStep, StoreStep, Arrive, Progress, Disturbance
  <1> QED BY <1>q DEF G

\* What FindBySessionID returns was assigned to the session at some time.
LEMMA FoundForm ==
    ASSUME RecordOrigin, NEW s \in Session, NEW r \in Found(s)
    PROVE  /\ r \in Runner
           /\ <<s, r>> \in bound
           /\ sessionIndex[r].host = HostOf[r]
  <1>1. r \in Runner /\ sessionIndex[r].sid = s /\ s # NoSession
    BY SessionAssumption DEF Found
  <1>2. sessionIndex[r] # Absent
    BY <1>1 DEF Absent
  <1> QED BY <1>1, <1>2 DEF RecordOrigin

\* The record a request holds comes from an assignment to its session.
LEMMA HeldOriginStep ==
    ASSUME TypeOK, Shape, RecordOrigin, HeldOrigin, [Next]_vars
    PROVE  HeldOrigin'
  <1> DEFINE G(p) ==
         /\ rid'[p] # NoRunner => rid'[p].host = HostOf[rid'[p].id]
         /\ pc'[p] \in {"check", "evict", "unbind"} =>
               <<cookie'[p], rid'[p].id>> \in bound'
         /\ pc'[p] \in {"verify", "discard"} =>
               <<sid'[p], rid'[p].id>> \in bound'
  <1> SUFFICES ASSUME NEW p \in Request PROVE G(p)
    BY DEF HeldOrigin
  <1>a. /\ pc \in [Request -> {"free"} \cup Working \cup Answered]
        /\ sid \in [Request -> Session \cup {NoSession}]
        /\ cookie \in [Request -> Session \cup {NoSession}]
        /\ rid \in [Request -> [id : Runner, host : Host] \cup {NoRunner}]
    BY DEF TypeOK
  <1>b. /\ rid[p] # NoRunner => rid[p].host = HostOf[rid[p].id]
        /\ pc[p] \in {"check", "evict", "unbind"} =>
              <<cookie[p], rid[p].id>> \in bound
        /\ pc[p] \in {"verify", "discard"} => <<sid[p], rid[p].id>> \in bound
    BY DEF HeldOrigin
  <1>c. bound \subseteq bound'
    BY Monotone
  <1> USE DEF runnerVars, requestVars, historyVars
  <1>1. ASSUME NEW r \in Runner,
               Start(r) \/ ReadRegisterAnswer(r) \/ LoseRegister(r)
                  \/ RetryRegister(r) \/ Terminate(r) \/ Exit(r)
                  \/ PropagateState(r) \/ PropagateSession(r) \/ Register(r)
                  \/ Deregister(r)
        PROVE  G(p)
    BY <1>b, <1>c, <1>1
        DEF Start, ReadRegisterAnswer, LoseRegister, RetryRegister, Terminate,
            Exit, PropagateState, PropagateSession, Register, Deregister
  <1>2. ASSUME NEW q \in Request, ResolveNew(q)
        PROVE  G(p)
    BY <1>a, <1>b, <1>c, <1>2 DEF ResolveNew, BeginCreate
  <1>3. ASSUME NEW q \in Request, FindMiss(q)
        PROVE  G(p)
    BY <1>a, <1>b, <1>c, <1>3 DEF FindMiss, BeginCreate
  <1>4. ASSUME NEW q \in Request, NEW s \in Session,
               ResolveKnown(q, s) \/ Close(q, s)
        PROVE  G(p)
    BY <1>a, <1>b, <1>c, <1>4 DEF ResolveKnown, Close
  <1>5. ASSUME NEW q \in Request, FindHit(q)
        PROVE  G(p)
    <2>1. PICK r \in Found(cookie[q]) :
             rid' = [rid EXCEPT ![q] =
                       [id |-> r, host |-> sessionIndex[r].host]]
      BY <1>5 DEF FindHit
    <2>2. cookie[q] \in Session
      BY <1>5 DEF FindHit, Shape, Resolving, Closing
    <2>3. <<cookie[q], r>> \in bound /\ sessionIndex[r].host = HostOf[r]
      BY <2>1, <2>2, FoundForm
    <2> QED BY <1>a, <1>b, <1>c, <1>5, <2>1, <2>3 DEF FindHit
  <1>6. ASSUME NEW q \in Request,
               CloseMiss(q) \/ Answer(q) \/ LoseAnswer(q)
        PROVE  G(p)
    BY <1>a, <1>b, <1>c, <1>6 DEF CloseMiss, Answer, LoseAnswer, Finish
  <1>7. ASSUME NEW q \in Request, CheckPass(q)
        PROVE  G(p)
    BY <1>a, <1>b, <1>c, <1>7 DEF CheckPass
  <1>8. ASSUME NEW q \in Request, CheckFail(q)
        PROVE  G(p)
    BY <1>a, <1>b, <1>c, <1>8 DEF CheckFail
  <1>9. ASSUME NEW q \in Request, Evict(q)
        PROVE  G(p)
    BY <1>a, <1>b, <1>c, <1>9 DEF Evict, BeginCreate
  <1>10. ASSUME NEW q \in Request, Discard(q)
        PROVE  G(p)
    BY <1>a, <1>b, <1>c, <1>10 DEF Discard
  <1>11. ASSUME NEW q \in Request, Unbind(q)
        PROVE  G(p)
    BY <1>a, <1>b, <1>c, <1>11 DEF Unbind, Finish
  <1>12. ASSUME NEW q \in Request, DeleteRetried(q)
        PROVE  G(p)
    BY <1>a, <1>b, <1>c, <1>12 DEF DeleteRetried
  <1>13. ASSUME NEW q \in Request, Scan(q)
        PROVE  G(p)
    <2>1. PICK r \in left[q] :
             IF idleIndex[r] # Absent
               THEN /\ rid' = [rid EXCEPT ![q] =
                                 [id |-> r, host |-> idleIndex[r].host]]
                    /\ pc' = [pc EXCEPT ![q] = "assign"]
               ELSE UNCHANGED <<rid, pc>>
      BY <1>13 DEF Scan
    <2>2. idleIndex[r] # Absent => idleIndex[r].host = HostOf[r]
      BY DEF RecordOrigin, TypeOK
    <2> QED BY <1>a, <1>b, <1>c, <1>13, <2>1, <2>2 DEF Scan
  <1>14. ASSUME NEW q \in Request, ScanEnds(q)
        PROVE  G(p)
    BY <1>a, <1>b, <1>c, <1>14 DEF ScanEnds
  <1>15. ASSUME NEW q \in Request, AssignConflict(q)
        PROVE  G(p)
    BY <1>a, <1>b, <1>c, <1>15 DEF AssignConflict
  <1>16. ASSUME NEW q \in Request, Assign(q)
        PROVE  G(p)
    BY <1>a, <1>b, <1>c, <1>16 DEF Assign, Bind
  <1>17. ASSUME NEW q \in Request, AssignRetried(q)
        PROVE  G(p)
    BY <1>a, <1>b, <1>c, <1>17 DEF AssignRetried, Bind
  <1>18. ASSUME NEW q \in Request, Abort(q)
        PROVE  G(p)
    BY <1>a, <1>b, <1>c, <1>18 DEF Abort, Bind, Finish
  <1>19. CASE UNCHANGED vars
    BY <1>b, <1>c, <1>19 DEF vars
  <1> QED
    BY <1>1, <1>2, <1>3, <1>4, <1>5, <1>6, <1>7, <1>8, <1>9, <1>10, <1>11,
        <1>12, <1>13, <1>14, <1>15, <1>16, <1>17, <1>18, <1>19
    DEF Next, RunnerStep, StoreStep, Arrive, Progress, Disturbance


\* An answer names a host whose record was assigned to its session.
LEMMA AnswerOriginStep ==
    ASSUME TypeOK, Shape, HeldOrigin, AnswerOrigin, [Next]_vars
    PROVE  AnswerOrigin'
  <1>a. bound \subseteq bound'
    BY Monotone
  <1>b. ASSUME served' = served PROVE AnswerOrigin'
    BY <1>a, <1>b DEF AnswerOrigin
  <1> USE DEF historyVars
  <1>1. ASSUME NEW r \in Runner,
               Start(r) \/ ReadRegisterAnswer(r) \/ LoseRegister(r)
                  \/ RetryRegister(r) \/ Terminate(r) \/ Exit(r)
                  \/ Register(r) \/ Deregister(r) \/ PropagateState(r)
                  \/ PropagateSession(r)
        PROVE  AnswerOrigin'
    BY <1>b, <1>1
        DEF Start, ReadRegisterAnswer, LoseRegister, RetryRegister, Terminate,
            Exit, Register, Deregister, PropagateState, PropagateSession
  <1>2. ASSUME NEW q \in Request, NEW s \in Session,
               ResolveKnown(q, s) \/ Close(q, s)
        PROVE  AnswerOrigin'
    BY <1>b, <1>2 DEF ResolveKnown, Close
  <1>3. ASSUME NEW q \in Request,
               ResolveNew(q) \/ FindHit(q) \/ FindMiss(q) \/ CloseMiss(q)
                  \/ CheckFail(q) \/ Evict(q) \/ Discard(q) \/ Unbind(q)
                  \/ DeleteRetried(q) \/ Scan(q) \/ ScanEnds(q) \/ Assign(q)
                  \/ AssignConflict(q) \/ AssignRetried(q) \/ Abort(q)
                  \/ Answer(q) \/ LoseAnswer(q)
        PROVE  AnswerOrigin'
    BY <1>b, <1>3
        DEF ResolveNew, FindHit, FindMiss, CloseMiss, CheckFail, Evict,
            Discard, Unbind, DeleteRetried, Scan, ScanEnds, Assign,
            AssignConflict, AssignRetried, Abort, Answer, LoseAnswer
  <1>4. ASSUME NEW q \in Request, CheckPass(q)
        PROVE  AnswerOrigin'
    <2>1. PICK p \in Listening(rid[q].host) :
             served' = served \cup {<<sid'[q], p>>}
      BY <1>4 DEF CheckPass
    <2>2. <<sid'[q], rid[q].id>> \in bound
      BY <1>4 DEF CheckPass, HeldOrigin, TypeOK
    <2>3. rid[q].id \in Runner /\ rid[q] # NoRunner
      BY <1>4, RunnerAssumption DEF CheckPass, Shape, Deleting
    <2>4. p \in Runner /\ HostOf[p] = HostOf[rid[q].id]
      BY <2>1, <2>3 DEF Listening, HeldOrigin
    <2> QED BY <1>a, <2>1, <2>2, <2>3, <2>4 DEF AnswerOrigin
  <1>5. CASE UNCHANGED vars
    BY <1>b, <1>5 DEF vars
  <1> QED
    BY <1>1, <1>2, <1>3, <1>4, <1>5
    DEF Next, RunnerStep, StoreStep, Arrive, Progress, Disturbance

\* A runner registered once is assigned to one session at most.
LEMMA FirstRegistrationStep ==
    ASSUME TypeOK, Shape, FirstRegistration, [Next]_vars
    PROVE  FirstRegistration'
  <1> DEFINE G(k) ==
         /\ k \notin joined' =>
               table'[k] = Absent /\ \A s \in Session : <<s, k>> \notin bound'
         /\ k \notin renewed' =>
               /\ table'[k].state = "idle" =>
                     \A s \in Session : <<s, k>> \notin bound'
               /\ \A s, t \in Session :
                     <<s, k>> \in bound' /\ <<t, k>> \in bound' => s = t
  <1> SUFFICES ASSUME NEW k \in Runner PROVE G(k)
    BY DEF FirstRegistration
  <1>a. /\ k \notin joined =>
              table[k] = Absent /\ \A s \in Session : <<s, k>> \notin bound
        /\ k \notin renewed =>
              /\ table[k].state = "idle" =>
                    \A s \in Session : <<s, k>> \notin bound
              /\ \A s, t \in Session :
                    <<s, k>> \in bound /\ <<t, k>> \in bound => s = t
    BY DEF FirstRegistration
  <1>b. Absent.state = "absent"
    BY DEF Absent
  <1>c. ASSUME table' = table, bound' = bound,
               joined' = joined, renewed' = renewed
        PROVE  G(k)
    BY <1>a, <1>c
  <1>d. ASSUME NEW x, table' \in {table, [table EXCEPT ![x] = Absent]},
               bound' = bound, joined' = joined, renewed' = renewed
        PROVE  G(k)
    <2>1. table'[k] = table[k] \/ table'[k] = Absent
      BY <1>d, DeleteForm
    <2> QED BY <1>a, <1>b, <1>d, <2>1
  <1>e. ASSUME NEW q \in Request, pc[q] = "assign", Bind(q),
               joined' = joined, renewed' = renewed
        PROVE  G(k)
    <2>1. table \in [Runner -> Record]
      BY DEF TypeOK
    <2>2. CASE k = rid[q].id
      <3>1. /\ table[k].state = "idle"
            /\ table'[k].state = "busy"
            /\ bound' = bound \cup {<<sid[q], k>>}
        BY <1>e, <2>1, <2>2 DEF Bind, Busy
      <3> QED BY <1>a, <1>b, <1>e, <3>1
    <2>3. CASE k # rid[q].id
      <3>1. /\ table'[k] = table[k]
            /\ \A s \in Session : <<s, k>> \in bound' <=> <<s, k>> \in bound
        BY <1>e, <2>1, <2>3 DEF Bind
      <3> QED BY <1>a, <1>e, <3>1
    <2> QED BY <2>2, <2>3
  <1> USE DEF historyVars
  <1> HIDE DEF G
  <1>1. ASSUME NEW r \in Runner,
               Start(r) \/ ReadRegisterAnswer(r) \/ LoseRegister(r)
                  \/ RetryRegister(r) \/ Terminate(r) \/ Exit(r)
                  \/ PropagateState(r) \/ PropagateSession(r)
        PROVE  G(k)
    BY <1>c, <1>1
        DEF Start, ReadRegisterAnswer, LoseRegister, RetryRegister, Terminate,
            Exit, PropagateState, PropagateSession
  <1>2. ASSUME NEW r \in Runner, Register(r)
        PROVE  G(k)
    <2>1. table \in [Runner -> Record]
      BY DEF TypeOK
    <2>2. CASE r = k /\ table[k] = Absent
      <3>1. /\ joined' = joined \cup {k}
            /\ renewed' = renewed \cup ({k} \cap joined)
            /\ bound' = bound
        BY <1>2, <2>2 DEF Register
      <3> QED BY <1>a, <2>2, <3>1 DEF G
    <2>3. CASE ~(r = k /\ table[k] = Absent)
      <3>1. /\ table'[k] = table[k]
            /\ k \in joined' <=> k \in joined
            /\ k \in renewed' <=> k \in renewed
            /\ bound' = bound
        BY <1>2, <2>1, <2>3 DEF Register
      <3> QED BY <1>a, <3>1 DEF G
    <2> QED BY <2>2, <2>3
  <1>3. ASSUME NEW r \in Runner, Deregister(r)
        PROVE  G(k)
    BY <1>d, <1>3 DEF Deregister
  <1>4. ASSUME NEW q \in Request,
               ResolveNew(q) \/ FindMiss(q)
        PROVE  G(k)
    BY <1>c, <1>4 DEF ResolveNew, FindMiss
  <1>5. ASSUME NEW q \in Request, NEW s \in Session,
               ResolveKnown(q, s) \/ Close(q, s)
        PROVE  G(k)
    BY <1>c, <1>5 DEF ResolveKnown, Close
  <1>6. ASSUME NEW q \in Request,
               FindHit(q) \/ CloseMiss(q) \/ CheckPass(q) \/ CheckFail(q)
                  \/ Scan(q) \/ ScanEnds(q) \/ AssignConflict(q)
                  \/ Answer(q) \/ LoseAnswer(q)
        PROVE  G(k)
    BY <1>c, <1>6
        DEF FindHit, CloseMiss, CheckPass, CheckFail, Scan, ScanEnds,
            AssignConflict, Answer, LoseAnswer
  <1>7. ASSUME NEW q \in Request,
               Evict(q) \/ Discard(q) \/ Unbind(q) \/ DeleteRetried(q)
        PROVE  G(k)
    BY <1>d, <1>7 DEF Evict, Discard, Unbind, DeleteRetried, DeleteHeld
  <1>8. ASSUME NEW q \in Request,
               Assign(q) \/ AssignRetried(q)
        PROVE  G(k)
    BY <1>e, <1>8 DEF Assign, AssignRetried
  <1>9. ASSUME NEW q \in Request, Abort(q)
        PROVE  G(k)
    BY <1>c, <1>d, <1>e, <1>9 DEF Abort, DeleteHeld
  <1>10. CASE UNCHANGED vars
    BY <1>c, <1>10 DEF G, vars
  <1> QED
    BY <1>1, <1>2, <1>3, <1>4, <1>5, <1>6, <1>7, <1>8, <1>9, <1>10
    DEF G, Next, RunnerStep, StoreStep, Arrive, Progress, Disturbance

\* No step leaves a busy record that nobody accounts for.
LEMMA AccountedStep ==
    ASSUME TypeOK, Shape, OneHolder, BusyIsAccountedFor, [Next]_vars
    PROVE  BusyIsAccountedFor'
  <1> DEFINE
      G(k) == \/ table'[k].sid \in known' \cup abandoned' \cup ambiguous'
              \/ \E p \in Request : /\ pc'[p] \in Creating \cup {"ok"}
                                    /\ sid'[p] = table'[k].sid
  <1> SUFFICES ASSUME NEW k \in Runner, table'[k].state = "busy"
               PROVE  G(k)
    BY DEF BusyIsAccountedFor
  <1>a. /\ known \subseteq known'
        /\ abandoned \subseteq abandoned'
        /\ ambiguous \subseteq ambiguous'
    BY Monotone
  <1>b. /\ pc \in [Request -> {"free"} \cup Working \cup Answered]
        /\ sid \in [Request -> Session \cup {NoSession}]
        /\ table \in [Runner -> Record]
        /\ Absent.state = "absent"
    BY DEF TypeOK, Absent
  \* The record was busy for the same session before the step.
  <1>c. ASSUME table'[k] = table[k],
               \A p \in Request :
                  pc[p] \in Creating \cup {"ok"} =>
                     \/ pc'[p] \in Creating \cup {"ok"} /\ sid'[p] = sid[p]
                     \/ sid[p] \in known' \cup abandoned' \cup ambiguous'
                     \/ sid[p] # table[k].sid
        PROVE  G(k)
    BY <1>a, <1>c DEF BusyIsAccountedFor
  <1>d. ASSUME NEW x, table' \in {table, [table EXCEPT ![x] = Absent]}
        PROVE  table'[k] = table[k]
    BY <1>b, <1>d, DeleteForm
  <1> HIDE DEF G
  <1> USE DEF Creating, runnerVars, requestVars, historyVars
  <1>1. ASSUME NEW r \in Runner,
               Start(r) \/ ReadRegisterAnswer(r) \/ LoseRegister(r)
                  \/ RetryRegister(r) \/ Terminate(r) \/ Exit(r)
                  \/ PropagateState(r) \/ PropagateSession(r)
        PROVE  G(k)
    BY <1>c, <1>1
        DEF Start, ReadRegisterAnswer, LoseRegister, RetryRegister, Terminate,
            Exit, PropagateState, PropagateSession
  <1>2. ASSUME NEW r \in Runner, Register(r)
        PROVE  G(k)
    BY <1>b, <1>c, <1>2 DEF Register, Idle
  <1>3. ASSUME NEW r \in Runner, Deregister(r)
        PROVE  G(k)
    BY <1>c, <1>d, <1>3 DEF Deregister
  <1>4. ASSUME NEW q \in Request,
               ResolveNew(q) \/ FindMiss(q)
        PROVE  G(k)
    BY <1>b, <1>c, <1>4 DEF ResolveNew, FindMiss, BeginCreate
  <1>5. ASSUME NEW q \in Request, NEW s \in Session,
               ResolveKnown(q, s) \/ Close(q, s)
        PROVE  G(k)
    BY <1>b, <1>c, <1>5 DEF ResolveKnown, Close
  <1>6. ASSUME NEW q \in Request, FindHit(q)
        PROVE  G(k)
    BY <1>b, <1>c, <1>6 DEF FindHit
  <1>7. ASSUME NEW q \in Request, CloseMiss(q)
        PROVE  G(k)
    BY <1>b, <1>c, <1>7 DEF CloseMiss, Finish
  <1>8. ASSUME NEW q \in Request,
               CheckPass(q) \/ CheckFail(q)
        PROVE  G(k)
    BY <1>b, <1>c, <1>8 DEF CheckPass, CheckFail
  <1>9. ASSUME NEW q \in Request, Scan(q)
        PROVE  G(k)
    BY <1>b, <1>c, <1>9 DEF Scan
  <1>10. ASSUME NEW q \in Request, ScanEnds(q)
        PROVE  G(k)
    <2>1. table[k].sid = sid[q] => sid[q] \in ambiguous
      BY <1>10 DEF OneHolder, ScanEnds
    <2> QED BY <1>a, <1>b, <1>c, <1>10, <2>1 DEF ScanEnds
  <1>11. ASSUME NEW q \in Request, AssignConflict(q)
        PROVE  G(k)
    BY <1>b, <1>c, <1>11 DEF AssignConflict
  <1>12. ASSUME NEW q \in Request,
               Answer(q) \/ LoseAnswer(q)
        PROVE  G(k)
    <2>1. \A p \in Request : p # q => pc'[p] = pc[p] /\ sid'[p] = sid[p]
      BY <1>b, <1>12 DEF Answer, LoseAnswer, Finish
    <2>2. pc[q] \in Creating \cup {"ok"} => sid[q] \in known' \cup abandoned'
      BY <1>a, <1>12 DEF Answer, LoseAnswer, Answered
    <2>3. table' = table
      BY <1>12 DEF Answer, LoseAnswer
    <2> QED BY <1>c, <2>1, <2>2, <2>3
  <1>13. ASSUME NEW q \in Request, Evict(q)
        PROVE  G(k)
    BY <1>b, <1>c, <1>d, <1>13 DEF Evict, BeginCreate, DeleteHeld
  <1>14. ASSUME NEW q \in Request, Discard(q)
        PROVE  G(k)
    BY <1>b, <1>c, <1>d, <1>14 DEF Discard, DeleteHeld
  <1>15. ASSUME NEW q \in Request, Unbind(q)
        PROVE  G(k)
    BY <1>b, <1>c, <1>d, <1>15 DEF Unbind, Finish, DeleteHeld
  <1>16. ASSUME NEW q \in Request, DeleteRetried(q)
        PROVE  G(k)
    BY <1>b, <1>c, <1>d, <1>16 DEF DeleteRetried, DeleteHeld
  <1>17. ASSUME NEW q \in Request, Assign(q)
        PROVE  G(k)
    <2>1. CASE k = rid[q].id
      <3>1. table'[k].sid = sid[q] /\ pc'[q] = "verify" /\ sid' = sid
        BY <1>b, <1>17, <2>1 DEF Assign, Bind, Busy
      <3> QED BY <3>1 DEF G
    <2>2. CASE k # rid[q].id
      BY <1>b, <1>c, <1>17, <2>2 DEF Assign, Bind
    <2> QED BY <2>1, <2>2
  <1>18. ASSUME NEW q \in Request, AssignRetried(q)
        PROVE  G(k)
    <2>1. CASE k = rid[q].id
      <3>1. table'[k].sid \in ambiguous'
        BY <1>b, <1>18, <2>1 DEF AssignRetried, Bind, Busy
      <3> QED BY <3>1 DEF G
    <2>2. CASE k # rid[q].id
      BY <1>b, <1>c, <1>18, <2>2 DEF AssignRetried, Bind
    <2> QED BY <2>1, <2>2
  <1>19. ASSUME NEW q \in Request, Abort(q)
        PROVE  G(k)
    <2>1. \A p \in Request : p # q => pc'[p] = pc[p] /\ sid'[p] = sid[p]
      BY <1>b, <1>19 DEF Abort, Finish
    <2>2. pc[q] \in Creating \cup {"ok"} => sid[q] \in abandoned'
      BY <1>19 DEF Abort, Working, Resolving, Closing
    <2>3. CASE table'[k] = table[k]
      BY <1>c, <2>1, <2>2, <2>3
    <2>4. CASE table'[k] # table[k]
      <3>1. pc[q] = "assign" /\ Bind(q)
        BY <1>d, <1>19, <2>4 DEF Abort, DeleteHeld
      <3>2. table'[k].sid = sid[q]
        BY <1>b, <2>4, <3>1 DEF Bind, Busy
      <3> QED BY <2>2, <3>1, <3>2 DEF G
    <2> QED BY <2>3, <2>4
  <1>20. CASE UNCHANGED vars
    BY <1>c, <1>20 DEF G, vars
  <1> QED
    BY <1>1, <1>2, <1>3, <1>4, <1>5, <1>6, <1>7, <1>8, <1>9, <1>10, <1>11,
        <1>12, <1>13, <1>14, <1>15, <1>16, <1>17, <1>18, <1>19, <1>20
    DEF G, Next, RunnerStep, StoreStep, Arrive, Progress, Disturbance


-----------------------------------------------------------------------------
(* The inductive invariant and what follows from it *)

\* The invariant holds at the start.
LEMMA InvInit == Init => IInv
  <1> SUFFICES ASSUME Init PROVE IInv
    OBVIOUS
  <1>1. TypeOK /\ Shape
    BY TypeInit
  <1>2. SessionsFresh /\ OneHolder
    BY DEF Init, SessionsFresh, OneHolder, Creating, Resolving, Closing
  <1>3. OneRunnerPerSession /\ BusyIsAccountedFor
    BY DEF Init, OneRunnerPerSession, BusyIsAccountedFor, Absent
  <1>4. RecordOrigin /\ HeldOrigin /\ AnswerOrigin
    BY DEF Init, RecordOrigin, HeldOrigin, AnswerOrigin, Absent
  <1>5. FirstRegistration
    BY DEF Init, FirstRegistration, Absent
  <1> QED BY <1>1, <1>2, <1>3, <1>4, <1>5 DEF IInv

\* The invariant is inductive.
LEMMA InvStep == IInv /\ [Next]_vars => IInv'
  BY TypeStep, SessionsFreshStep, OneHolderStep, OneRunnerStep,
     RecordOriginStep, HeldOriginStep, AnswerOriginStep,
     FirstRegistrationStep, AccountedStep
  DEF IInv

\* IInv holds in every state of every behaviour, whatever the numbers of
\* runners, hosts, sessions and requests and the bound on faults.
THEOREM Invariance == Spec => []IInv
  BY InvInit, InvStep, PTL DEF Spec

\* Every variable keeps its type.
THEOREM TypeCorrect == Spec => []TypeOK
  BY Invariance, PTL DEF IInv

\* createSession binds its session id to one runner at a time, unless the SDK
\* repeated a committed assign.
THEOREM SessionHasOneRunner == Spec => []OneRunnerPerSession
  BY Invariance, PTL DEF IInv

\* createSession loses no runner by itself.
THEOREM NoRunnerIsLost == Spec => []BusyIsAccountedFor
  BY Invariance, PTL DEF IInv

\* Exclusive runners follow from the origins of answers and FirstRegistration.
LEMMA ExclusiveFromInv == IInv => ExclusiveRunner
  <1> SUFFICES ASSUME IInv,
                      NEW p \in Runner, NEW s \in Session, NEW t \in Session,
                      <<s, p>> \in served, <<t, p>> \in served,
                      p \notin renewed,
                      \A r \in Runner : HostOf[r] = HostOf[p] => r = p
               PROVE  s = t
    BY DEF ExclusiveRunner
  <1>1. <<s, p>> \in bound /\ <<t, p>> \in bound
    BY DEF IInv, AnswerOrigin
  <1> QED BY <1>1 DEF IInv, FirstRegistration

\* No two sessions are answered with the same runner process, if its host is
\* its own and it was registered once.
THEOREM RunnerIsExclusive == Spec => []ExclusiveRunner
  BY Invariance, ExclusiveFromInv, PTL

\* Aimed deletes follow from the origin of the held record.
LEMMA AimedFromInv == IInv => AimedDelete
  <1> SUFFICES ASSUME IInv, NEW q \in Request, pc[q] \in Deleting,
                      rid[q].id \notin renewed
               PROVE  table[rid[q].id] \in
                        {Absent,
                         Busy(IF pc[q] = "discard" THEN sid[q] ELSE cookie[q],
                              rid[q].host)}
    BY DEF AimedDelete
  <1> DEFINE r == rid[q].id
             s == IF pc[q] = "discard" THEN sid[q] ELSE cookie[q]
  <1>1. r \in Runner /\ rid[q].host = HostOf[r]
    BY RunnerAssumption DEF IInv, Shape, HeldOrigin
  <1>2. s \in Session /\ <<s, r>> \in bound
    BY DEF IInv, Shape, HeldOrigin, Deleting, Creating, Resolving, Closing
  <1>3. table[r] \in Record
    BY <1>1 DEF IInv, TypeOK
  <1>4. table[r].state # "idle"
    BY <1>1, <1>2 DEF IInv, FirstRegistration
  <1>5. ASSUME table[r].state = "busy" PROVE table[r].sid = s
    <2>1. table[r].sid \in Session /\ <<table[r].sid, r>> \in bound
      BY <1>1, <1>3, <1>5, RecordFields DEF IInv, RecordOrigin
    <2> QED BY <1>1, <1>2, <2>1 DEF IInv, FirstRegistration
  <1>6. table[r] # Absent => table[r].host = HostOf[r]
    BY <1>1 DEF IInv, RecordOrigin
  <1> QED BY <1>1, <1>3, <1>4, <1>5, <1>6, RecordFields

\* A pending delete can hit only the session it is meant for, if the runner
\* was registered once.
THEOREM DeletesAreAimed == Spec => []AimedDelete
  BY Invariance, AimedFromInv, PTL

-----------------------------------------------------------------------------
(* Refinement of RunnerPool *)

\* The initial table is an empty pool.
LEMMA PoolInit == Init => Pool!Init
  BY DEF Init, Pool!Init, Pool!Out, Absent

\* Every step of the broker is a step of the pool or leaves the pool alone.
LEMMA PoolStep == IInv /\ [Next]_vars => [Pool!Next]_Pool!vars
  <1> SUFFICES ASSUME IInv, [Next]_vars
               PROVE  [Pool!Next]_Pool!vars
    OBVIOUS
  <1> DEFINE pool == [r \in Runner |->
                        [state |-> table[r].state, sid |-> table[r].sid]]
  <1>a. ASSUME table' = table, known' = known
        PROVE  [Pool!Next]_Pool!vars
    BY <1>a DEF Pool!vars
  <1>b. ASSUME NEW r \in Runner, table' = [table EXCEPT ![r] = Absent],
               known' = known
        PROVE  [Pool!Next]_Pool!vars
    <2>1. Pool!Leave(r)
      BY <1>b DEF Pool!Leave, Pool!Out, IInv, TypeOK, Absent
    <2> QED BY <2>1 DEF Pool!Next
  <1>c. ASSUME NEW q \in Request, pc[q] = "assign", Bind(q), known' = known
        PROVE  [Pool!Next]_Pool!vars
    <2> DEFINE r == rid[q].id
    <2>1. r \in Runner /\ sid[q] \in Session /\ sid[q] \notin known
      BY <1>c DEF IInv, Shape, SessionsFresh, Creating
    <2>2. table[r].state = "idle" /\ table[r].sid = NoSession
      BY <1>c, <2>1, RecordFields DEF Bind, IInv, TypeOK
    <2>3. \A x \in Runner :
             table'[x] = IF x = r THEN Busy(sid[q], table[r].host) ELSE table[x]
      BY <1>c, <2>1 DEF Bind, IInv, TypeOK
    <2>4. pool' = [pool EXCEPT ![r] = Pool!LeasedTo(sid[q])]
      <3>1. \A x \in Runner : pool'[x] = IF x = r THEN Pool!LeasedTo(sid[q])
                                                ELSE pool[x]
        BY <2>3 DEF Pool!LeasedTo, Busy
      <3> QED BY <3>1
    <2>5. PICK x \in Runner, s \in Session : x = r /\ s = sid[q]
      BY <2>1
    <2>6. Pool!Lease(x, s)
      BY <1>c, <2>1, <2>2, <2>4, <2>5 DEF Pool!Lease, Pool!Free
    <2> QED BY <2>6 DEF Pool!Next
  <1>h. ASSUME NEW q \in Request, pc[q] \in Deleting PROVE rid[q].id \in Runner
    BY <1>h DEF IInv, Shape
  <1> USE DEF historyVars
  <1> HIDE DEF IInv
  <1>1. ASSUME NEW r \in Runner,
               Start(r) \/ ReadRegisterAnswer(r) \/ LoseRegister(r)
                  \/ RetryRegister(r) \/ Terminate(r) \/ Exit(r)
                  \/ PropagateState(r) \/ PropagateSession(r)
        PROVE  [Pool!Next]_Pool!vars
    BY <1>a, <1>1
        DEF Start, ReadRegisterAnswer, LoseRegister, RetryRegister, Terminate,
            Exit, PropagateState, PropagateSession
  <1>2. ASSUME NEW r \in Runner, Register(r)
        PROVE  [Pool!Next]_Pool!vars
    <2>1. CASE table[r] = Absent
      <3>1. \A x \in Runner :
               table'[x] = IF x = r THEN Idle(HostOf[r]) ELSE table[x]
        BY <1>2, <2>1 DEF Register, IInv, TypeOK
      <3>2. pool' = [pool EXCEPT ![r] = Pool!Free]
        <4>1. \A x \in Runner :
                 pool'[x] = IF x = r THEN Pool!Free ELSE pool[x]
          BY <3>1 DEF Pool!Free, Idle
        <4> QED BY <4>1
      <3>3. Pool!Join(r)
        BY <1>2, <2>1, <3>2 DEF Register, Pool!Join, Pool!Out, Absent
      <3> QED BY <3>3 DEF Pool!Next
    <2>2. CASE table[r] # Absent
      BY <1>a, <1>2, <2>2 DEF Register
    <2> QED BY <2>1, <2>2
  <1>3. ASSUME NEW r \in Runner, Deregister(r)
        PROVE  [Pool!Next]_Pool!vars
    BY <1>a, <1>b, <1>3 DEF Deregister
  <1>4. ASSUME NEW q \in Request,
               ResolveNew(q) \/ FindMiss(q)
        PROVE  [Pool!Next]_Pool!vars
    BY <1>a, <1>4 DEF ResolveNew, FindMiss
  <1>5. ASSUME NEW q \in Request, NEW s \in Session,
               ResolveKnown(q, s) \/ Close(q, s)
        PROVE  [Pool!Next]_Pool!vars
    BY <1>a, <1>5 DEF ResolveKnown, Close
  <1>6. ASSUME NEW q \in Request,
               FindHit(q) \/ CloseMiss(q) \/ CheckPass(q) \/ CheckFail(q)
                  \/ Scan(q) \/ ScanEnds(q) \/ AssignConflict(q)
                  \/ LoseAnswer(q)
        PROVE  [Pool!Next]_Pool!vars
    BY <1>a, <1>6
        DEF FindHit, CloseMiss, CheckPass, CheckFail, Scan, ScanEnds,
            AssignConflict, LoseAnswer
  <1>7. ASSUME NEW q \in Request, Answer(q)
        PROVE  [Pool!Next]_Pool!vars
    <2>1. CASE pc[q] = "ok"
      <3>1. sid[q] \in Session
        BY <2>1 DEF IInv, Shape
      <3>2. Pool!Settle(sid[q])
        BY <1>7, <2>1 DEF Answer, Pool!Settle
      <3> QED BY <3>1, <3>2 DEF Pool!Next
    <2>2. CASE pc[q] # "ok"
      BY <1>a, <1>7, <2>2 DEF Answer
    <2> QED BY <2>1, <2>2
  <1>8. ASSUME NEW q \in Request,
               Evict(q) \/ Discard(q) \/ Unbind(q) \/ DeleteRetried(q)
        PROVE  [Pool!Next]_Pool!vars
    BY <1>b, <1>h, <1>8
        DEF Evict, Discard, Unbind, DeleteRetried, DeleteHeld, Deleting
  <1>9. ASSUME NEW q \in Request,
               Assign(q) \/ AssignRetried(q)
        PROVE  [Pool!Next]_Pool!vars
    BY <1>c, <1>9 DEF Assign, AssignRetried
  <1>10. ASSUME NEW q \in Request, Abort(q)
        PROVE  [Pool!Next]_Pool!vars
    BY <1>a, <1>b, <1>c, <1>h, <1>10 DEF Abort, DeleteHeld
  <1>11. CASE UNCHANGED vars
    BY <1>a, <1>11 DEF vars
  <1> QED
    BY <1>1, <1>2, <1>3, <1>4, <1>5, <1>6, <1>7, <1>8, <1>9, <1>10, <1>11
    DEF Next, RunnerStep, StoreStep, Arrive, Progress, Disturbance

\* Broker implements RunnerPool: leases go from idle to one session, settled
\* sessions are not leased again.
THEOREM BrokerImplementsPool == Spec => PoolSpec
  <1>1. Init => Pool!Init
    BY PoolInit
  <1>2. IInv /\ [Next]_vars => [Pool!Next]_Pool!vars
    BY PoolStep
  <1> QED BY <1>1, <1>2, Invariance, PTL DEF Spec, PoolSpec, Pool!Spec

=============================================================================
