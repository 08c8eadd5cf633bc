------------------------------- MODULE Broker -------------------------------
(***************************************************************************)
(* One stack's broker: concurrent HTTP requests that create, resolve and   *)
(* close sessions over a DynamoDB table with two eventually consistent     *)
(* indexes, and the runner processes that register with it, serve, and     *)
(* leave.  Every store call and every health check of a request is a step  *)
(* of its own, so requests interleave exactly where the Go code waits.     *)
(*                                                                         *)
(* AcquireIdle is the set of record ids its scan has still to look at; the *)
(* order of the scan is the subject of the module AcquireIdle.             *)
(***************************************************************************)
EXTENDS Naturals, FiniteSets

CONSTANTS
    Runner,       \* runner ids: each is drawn once, by one process
    Host,         \* private hosts
    HostOf,       \* the host a runner's process listens on
    Session,      \* session ids the broker can mint
    Request,      \* slots of requests the broker serves at the same time
    NoRunner, NoSession, NoHost,   \* stand for none
    MaxFaults     \* bound on lost answers and false health check failures

ASSUME RunnerAssumption == NoRunner \notin [id : Runner, host : Host]
ASSUME SessionAssumption == NoSession \notin Session
ASSUME HostAssumption == NoHost \notin Host /\ HostOf \in [Runner -> Host]
ASSUME BoundAssumption == MaxFaults \in Nat

VARIABLES
    table,         \* the DynamoDB table: runner id -> record
    idleIndex,     \* the idle partition of the index on state
    sessionIndex,  \* the index on currentSessionId
    proc,          \* the runner process that drew the id
    wire,          \* its call to the broker: sent, or answered and not read
    pc,            \* where a request is in its handler
    cookie,        \* the session id the request came with
    sid,           \* the session id a request creates or answers with
    rid,           \* the record a request holds (its id and its host)
    left,          \* the ids the request's AcquireIdle has not looked at
    faults,        \* faults so far, at most MaxFaults
    \* history
    issued,        \* session ids minted so far
    known,         \* session ids some client received
    bound,         \* <<s, r>>: session s was assigned to record r
    served,        \* <<s, p>>: p answered the health check of s's answer
    joined,        \* runners registered at least once
    renewed,       \* runners registered more than once
    ambiguous,     \* sessions whose assign was committed and retried
    abandoned      \* sessions whose request failed or whose only answer was lost

runnerVars == <<proc, wire>>
requestVars == <<pc, cookie, sid, rid, left>>
historyVars == <<issued, known, bound, served, joined, renewed, ambiguous,
                 abandoned>>
vars == <<table, idleIndex, sessionIndex, runnerVars, requestVars, faults,
          historyVars>>

-----------------------------------------------------------------------------
(* Records *)

Absent == [state |-> "absent", sid |-> NoSession, host |-> NoHost]
Idle(h) == [state |-> "idle", sid |-> NoSession, host |-> h]
Busy(s, h) == [state |-> "busy", sid |-> s, host |-> h]

Record == {Absent} \cup {Idle(h) : h \in Host}
            \cup {Busy(s, h) : s \in Session, h \in Host}

Creating == {"scan", "assign", "verify", "discard"}
Resolving == {"find", "check", "evict"}
Closing == {"lookup", "unbind"}
Answered == {"ok", "noIdle"}
Deleting == {"evict", "discard", "unbind"}
Working == Creating \cup Resolving \cup Closing

TypeOK ==
    /\ table \in [Runner -> Record]
    /\ idleIndex \in [Runner -> Record]
    /\ sessionIndex \in [Runner -> Record]
    /\ proc \in [Runner ->
                   {"unstarted", "registering", "serving", "stopping", "gone"}]
    /\ wire \in [Runner ->
                   {"none", "register", "created", "conflict", "deregister"}]
    /\ pc \in [Request -> {"free"} \cup Working \cup Answered]
    /\ cookie \in [Request -> Session \cup {NoSession}]
    /\ sid \in [Request -> Session \cup {NoSession}]
    /\ rid \in [Request -> [id : Runner, host : Host] \cup {NoRunner}]
    /\ left \in [Request -> SUBSET Runner]
    /\ faults \in 0..MaxFaults
    /\ issued \subseteq Session
    /\ known \subseteq Session
    /\ bound \subseteq Session \X Runner
    /\ served \subseteq Session \X Runner
    /\ joined \subseteq Runner
    /\ renewed \subseteq Runner
    /\ ambiguous \subseteq Session
    /\ abandoned \subseteq Session

Init ==
    /\ table = [r \in Runner |-> Absent]
    /\ idleIndex = table
    /\ sessionIndex = table
    /\ proc = [r \in Runner |-> "unstarted"]
    /\ wire = [r \in Runner |-> "none"]
    /\ pc = [q \in Request |-> "free"]
    /\ cookie = [q \in Request |-> NoSession]
    /\ sid = cookie
    /\ rid = [q \in Request |-> NoRunner]
    /\ left = [q \in Request |-> {}]
    /\ faults = 0
    /\ issued = {} /\ known = {} /\ bound = {} /\ served = {}
    /\ joined = {} /\ renewed = {} /\ ambiguous = {} /\ abandoned = {}

Fault == faults < MaxFaults /\ faults' = faults + 1

-----------------------------------------------------------------------------
(* The runner process *)

\* A process comes up on its host, draws its id and sends its first
\* registration.  A host is used again once its last process is gone.
Start(r) ==
    /\ proc[r] = "unstarted"
    /\ \A p \in Runner :
          HostOf[p] = HostOf[r] => proc[p] \in {"unstarted", "gone"}
    /\ proc' = [proc EXCEPT ![r] = "registering"]
    /\ wire' = [wire EXCEPT ![r] = "register"]
    /\ UNCHANGED <<table, idleIndex, sessionIndex, requestVars, faults,
                   historyVars>>

\* register: 201 ends the loop and the server starts; 409 waits for the retry.
ReadRegisterAnswer(r) ==
    /\ proc[r] = "registering"
    /\ wire[r] \in {"created", "conflict"}
    /\ proc' = [proc EXCEPT ![r] =
                  IF wire[r] = "created" THEN "serving" ELSE @]
    /\ wire' = [wire EXCEPT ![r] = "none"]
    /\ UNCHANGED <<table, idleIndex, sessionIndex, requestVars, faults,
                   historyVars>>

\* The call fails in transport, before or after the broker acted on it.
LoseRegister(r) ==
    /\ wire[r] \in {"register", "created"}
    /\ Fault
    /\ wire' = [wire EXCEPT ![r] = "none"]
    /\ UNCHANGED <<table, idleIndex, sessionIndex, proc, requestVars,
                   historyVars>>

RetryRegister(r) ==
    /\ proc[r] = "registering"
    /\ wire[r] = "none"
    /\ wire' = [wire EXCEPT ![r] = "register"]
    /\ UNCHANGED <<table, idleIndex, sessionIndex, proc, requestVars, faults,
                   historyVars>>

\* SIGTERM while serving: the runner asks to be taken out of the pool first.
Terminate(r) ==
    /\ proc[r] = "serving"
    /\ proc' = [proc EXCEPT ![r] = "stopping"]
    /\ wire' = [wire EXCEPT ![r] = "deregister"]
    /\ UNCHANGED <<table, idleIndex, sessionIndex, requestVars, faults,
                   historyVars>>

\* The process ends: the end of a shutdown, whatever became of the deregister
\* call; SIGTERM during registration, which does not deregister; or a crash.  What
\* it has sent is still on its way; an answer is read by nobody.
Exit(r) ==
    /\ proc[r] \in {"registering", "serving", "stopping"}
    /\ proc' = [proc EXCEPT ![r] = "gone"]
    /\ wire' = [wire EXCEPT ![r] =
                  IF @ \in {"created", "conflict"} THEN "none" ELSE @]
    /\ UNCHANGED <<table, idleIndex, sessionIndex, requestVars, faults,
                   historyVars>>

\* GET /health answers 200: a process listens on the host and its server runs.
Listening(h) ==
    {p \in Runner : HostOf[p] = h /\ proc[p] \in {"serving", "stopping"}}

-----------------------------------------------------------------------------
(* The broker: registration *)

\* Mutant of Register: a put without attribute_not_exists.
RegisterOverwrites(r) ==
    /\ wire[r] = "register"
    /\ table' = [table EXCEPT ![r] = Idle(HostOf[r])]
    /\ wire' = [wire EXCEPT ![r] = "created"]
    /\ joined' = joined \cup {r}
    /\ renewed' = renewed \cup ({r} \cap joined)
    /\ UNCHANGED <<idleIndex, sessionIndex, proc, requestVars, faults, issued,
                   known, bound, served, ambiguous, abandoned>>

\* PostRegister: the record is put only where there is none.
Register(r) ==
    /\ wire[r] = "register"
    /\ IF table[r] = Absent
          THEN /\ table' = [table EXCEPT ![r] = Idle(HostOf[r])]
               /\ wire' = [wire EXCEPT ![r] = "created"]
               /\ joined' = joined \cup {r}
               /\ renewed' = renewed \cup ({r} \cap joined)
          ELSE /\ wire' = [wire EXCEPT ![r] = "conflict"]
               /\ UNCHANGED <<table, joined, renewed>>
    /\ UNCHANGED <<idleIndex, sessionIndex, proc, requestVars, faults, issued,
                   known, bound, served, ambiguous, abandoned>>

\* DeleteRunner, whatever the record holds; the call may also fail.
Deregister(r) ==
    /\ wire[r] = "deregister"
    /\ table' \in {table, [table EXCEPT ![r] = Absent]}
    /\ wire' = [wire EXCEPT ![r] = "none"]
    /\ UNCHANGED <<idleIndex, sessionIndex, proc, requestVars, faults,
                   historyVars>>

\* DynamoDB brings an index up to date with the table, one record at a time.
\* An index holds a record only while the record has the indexed attribute: an
\* idle record has no currentSessionId, and a busy one is in another partition
\* of the index on state.
ShownIdle(r) == IF table[r].state = "idle" THEN table[r] ELSE Absent
ShownBusy(r) == IF table[r].state = "busy" THEN table[r] ELSE Absent

PropagateState(r) ==
    /\ idleIndex[r] # ShownIdle(r)
    /\ idleIndex' = [idleIndex EXCEPT ![r] = ShownIdle(r)]
    /\ UNCHANGED <<table, sessionIndex, runnerVars, requestVars, faults,
                   historyVars>>

PropagateSession(r) ==
    /\ sessionIndex[r] # ShownBusy(r)
    /\ sessionIndex' = [sessionIndex EXCEPT ![r] = ShownBusy(r)]
    /\ UNCHANGED <<table, idleIndex, runnerVars, requestVars, faults,
                   historyVars>>

-----------------------------------------------------------------------------
(* The broker: requests *)

\* Mutants of BeginCreate: the cookie's session id is used again; session ids
\* are drawn without enough randomness.
BeginCreateKeepsCookie(q) ==
    /\ pc' = [pc EXCEPT ![q] = "scan"]
    /\ cookie' = [cookie EXCEPT ![q] = NoSession]
    /\ rid' = [rid EXCEPT ![q] = NoRunner]
    /\ left' = [left EXCEPT ![q] = Runner]
    /\ \E s \in IF cookie[q] = NoSession THEN Session \ issued ELSE {cookie[q]} :
          /\ sid' = [sid EXCEPT ![q] = s]
          /\ issued' = issued \cup {s}

BeginCreateRepeats(q) ==
    /\ pc' = [pc EXCEPT ![q] = "scan"]
    /\ cookie' = [cookie EXCEPT ![q] = NoSession]
    /\ rid' = [rid EXCEPT ![q] = NoRunner]
    /\ left' = [left EXCEPT ![q] = Runner]
    /\ \E s \in Session :
          /\ sid' = [sid EXCEPT ![q] = s]
          /\ issued' = issued \cup {s}

\* createSession mints the id it keeps for all its attempts, and AcquireIdle
\* starts with every id still to look at.  The cookie is not read again.
BeginCreate(q) ==
    /\ pc' = [pc EXCEPT ![q] = "scan"]
    /\ cookie' = [cookie EXCEPT ![q] = NoSession]
    /\ rid' = [rid EXCEPT ![q] = NoRunner]
    /\ left' = [left EXCEPT ![q] = Runner]
    /\ \E s \in Session \ issued :
          /\ sid' = [sid EXCEPT ![q] = s]
          /\ issued' = issued \cup {s}

\* The handler returns and its slot is free for another request.
Finish(q) ==
    /\ pc' = [pc EXCEPT ![q] = "free"]
    /\ cookie' = [cookie EXCEPT ![q] = NoSession]
    /\ sid' = [sid EXCEPT ![q] = NoSession]
    /\ rid' = [rid EXCEPT ![q] = NoRunner]
    /\ left' = [left EXCEPT ![q] = {}]

\* Bound of the model: a request is admitted while the finite set Session has
\* an id for it and for each request that may still mint one.
SessionToSpare ==
    Cardinality(Session \ issued) > Cardinality({p \in Request : pc[p] \in Resolving})

\* GET /resolve with no cookie creates a session.
ResolveNew(q) ==
    /\ pc[q] = "free"
    /\ SessionToSpare
    /\ BeginCreate(q)
    /\ UNCHANGED <<table, idleIndex, sessionIndex, runnerVars, faults,
                   known, bound, served, joined, renewed, ambiguous, abandoned>>

\* GET /resolve with a cookie looks the session up; DELETE /sessions/:id
\* looks it up to delete its record.
ResolveKnown(q, s) ==
    /\ pc[q] = "free"
    /\ SessionToSpare
    /\ s \in known
    /\ pc' = [pc EXCEPT ![q] = "find"]
    /\ cookie' = [cookie EXCEPT ![q] = s]
    /\ UNCHANGED <<table, idleIndex, sessionIndex, runnerVars, sid, rid, left,
                   faults, historyVars>>

Close(q, s) ==
    /\ pc[q] = "free"
    /\ s \in known
    /\ pc' = [pc EXCEPT ![q] = "lookup"]
    /\ cookie' = [cookie EXCEPT ![q] = s]
    /\ UNCHANGED <<table, idleIndex, sessionIndex, runnerVars, sid, rid, left,
                   faults, historyVars>>

\* Mutant of Found: the key condition on the session is lost.
FoundAny(s) == {r \in Runner : sessionIndex[r] # Absent}

\* FindBySessionID: what the index shows for a session, the first item of it.
Found(s) == {r \in Runner : sessionIndex[r].sid = s}

FindHit(q) ==
    /\ pc[q] \in {"find", "lookup"}
    /\ \E r \in Found(cookie[q]) :
          rid' = [rid EXCEPT ![q] = [id |-> r, host |-> sessionIndex[r].host]]
    /\ pc' = [pc EXCEPT ![q] = IF @ = "find" THEN "check" ELSE "unbind"]
    /\ UNCHANGED <<table, idleIndex, sessionIndex, runnerVars, cookie, sid,
                   left, faults, historyVars>>

FindMiss(q) ==
    /\ pc[q] = "find"
    /\ Found(cookie[q]) = {}
    /\ BeginCreate(q)
    /\ UNCHANGED <<table, idleIndex, sessionIndex, runnerVars, faults,
                   known, bound, served, joined, renewed, ambiguous, abandoned>>

CloseMiss(q) ==
    /\ pc[q] = "lookup"
    /\ Found(cookie[q]) = {}
    /\ Finish(q)
    /\ UNCHANGED <<table, idleIndex, sessionIndex, runnerVars, faults,
                   historyVars>>

\* The health check of a found or of an acquired runner.  It passes when some
\* process answers on the record's host, whichever process that is.
CheckPass(q) ==
    /\ pc[q] \in {"check", "verify"}
    /\ \E p \in Listening(rid[q].host) :
          /\ pc' = [pc EXCEPT ![q] = "ok"]
          /\ sid' = [sid EXCEPT ![q] = IF pc[q] = "check" THEN cookie[q] ELSE @]
          /\ served' = served \cup {<<sid'[q], p>>}
    /\ UNCHANGED <<table, idleIndex, sessionIndex, runnerVars, cookie, rid,
                   left, faults, issued, known, bound, joined, renewed,
                   ambiguous, abandoned>>

\* Mutant of CheckFail: an unhealthy acquired runner ends the request at once.
CheckFailGivesUp(q) ==
    /\ pc[q] \in {"check", "verify"}
    /\ \/ Listening(rid[q].host) = {} /\ UNCHANGED faults
       \/ Listening(rid[q].host) # {} /\ Fault
    /\ pc' = [pc EXCEPT ![q] = IF @ = "check" THEN "evict" ELSE "noIdle"]
    /\ UNCHANGED <<table, idleIndex, sessionIndex, runnerVars, cookie, sid,
                   rid, left, historyVars>>

\* It fails when none does, or by the 3 s timeout although one does.
CheckFail(q) ==
    /\ pc[q] \in {"check", "verify"}
    /\ \/ Listening(rid[q].host) = {} /\ UNCHANGED faults
       \/ Listening(rid[q].host) # {} /\ Fault
    /\ pc' = [pc EXCEPT ![q] = IF @ = "check" THEN "evict" ELSE "discard"]
    /\ UNCHANGED <<table, idleIndex, sessionIndex, runnerVars, cookie, sid,
                   rid, left, historyVars>>

\* Delete of a record by its id, without any condition on what it now holds.
DeleteHeld(q) == table' = [table EXCEPT ![rid[q].id] = Absent]

\* The unhealthy runner of a found session is deleted; a new session follows.
Evict(q) ==
    /\ pc[q] = "evict"
    /\ DeleteHeld(q)
    /\ BeginCreate(q)
    /\ UNCHANGED <<idleIndex, sessionIndex, runnerVars, faults, known,
                   bound, served, joined, renewed, ambiguous, abandoned>>

\* Mutant of Discard: the loop goes on without the delete.
DiscardKeeps(q) ==
    /\ pc[q] = "discard"
    /\ pc' = [pc EXCEPT ![q] = "scan"]
    /\ rid' = [rid EXCEPT ![q] = NoRunner]
    /\ left' = [left EXCEPT ![q] = Runner]
    /\ UNCHANGED <<table, idleIndex, sessionIndex, runnerVars, cookie, sid,
                   faults, historyVars>>

\* The unhealthy runner just acquired is deleted and the loop acquires again,
\* for the same session id.
Discard(q) ==
    /\ pc[q] = "discard"
    /\ DeleteHeld(q)
    /\ pc' = [pc EXCEPT ![q] = "scan"]
    /\ rid' = [rid EXCEPT ![q] = NoRunner]
    /\ left' = [left EXCEPT ![q] = Runner]
    /\ UNCHANGED <<idleIndex, sessionIndex, runnerVars, cookie, sid, faults,
                   historyVars>>

\* CloseSession deletes the record it found.
Unbind(q) ==
    /\ pc[q] = "unbind"
    /\ DeleteHeld(q)
    /\ Finish(q)
    /\ UNCHANGED <<idleIndex, sessionIndex, runnerVars, faults, historyVars>>

\* The delete takes effect, its answer is lost, and the SDK will send it again.
DeleteRetried(q) ==
    /\ pc[q] \in Deleting
    /\ Fault
    /\ DeleteHeld(q)
    /\ UNCHANGED <<idleIndex, sessionIndex, runnerVars, requestVars,
                   historyVars>>

\* AcquireIdle reads the next id of the index: one shown idle is a candidate.
Scan(q) ==
    /\ pc[q] = "scan"
    /\ \E r \in left[q] :
          /\ left' = [left EXCEPT ![q] = @ \ {r}]
          /\ IF idleIndex[r] # Absent
               THEN /\ rid' = [rid EXCEPT ![q] =
                               [id |-> r, host |-> idleIndex[r].host]]
                    /\ pc' = [pc EXCEPT ![q] = "assign"]
               ELSE UNCHANGED <<rid, pc>>
    /\ UNCHANGED <<table, idleIndex, sessionIndex, runnerVars, cookie, sid,
                   faults, historyVars>>

ScanEnds(q) ==
    /\ pc[q] = "scan"
    /\ left[q] = {}
    /\ pc' = [pc EXCEPT ![q] = "noIdle"]
    /\ UNCHANGED <<table, idleIndex, sessionIndex, runnerVars, cookie, sid,
                   rid, left, faults, historyVars>>

\* Mutants of Bind: the condition on the state is lost; the record is put anew
\* instead of updated, and loses its host.
BindUnconditional(q) ==
    LET r == rid[q].id IN
    /\ table[r] # Absent
    /\ table' = [table EXCEPT ![r] = Busy(sid[q], @.host)]
    /\ bound' = bound \cup {<<sid[q], r>>}

BindLosesHost(q) ==
    LET r == rid[q].id IN
    /\ table[r].state = "idle"
    /\ table' = [table EXCEPT ![r] = Busy(sid[q], NoHost)]
    /\ bound' = bound \cup {<<sid[q], r>>}

\* assignSession's update of the table, made only if the record is idle.
Bind(q) ==
    LET r == rid[q].id IN
    /\ table[r].state = "idle"
    /\ table' = [table EXCEPT ![r] = Busy(sid[q], @.host)]
    /\ bound' = bound \cup {<<sid[q], r>>}

Assign(q) ==
    /\ pc[q] = "assign"
    /\ Bind(q)
    /\ pc' = [pc EXCEPT ![q] = "verify"]
    /\ UNCHANGED <<idleIndex, sessionIndex, runnerVars, cookie, sid, rid,
                   left, faults, issued, known, served, joined, renewed,
                   ambiguous, abandoned>>

\* Mutant of AssignConflict: the candidate is not put among the tried ones.
AssignConflictUntried(q) ==
    /\ pc[q] = "assign"
    /\ table[rid[q].id].state # "idle"
    /\ pc' = [pc EXCEPT ![q] = "scan"]
    /\ rid' = [rid EXCEPT ![q] = NoRunner]
    /\ left' = [left EXCEPT ![q] = @ \cup {rid[q].id}]
    /\ UNCHANGED <<table, idleIndex, sessionIndex, runnerVars, cookie, sid,
                   faults, historyVars>>

\* Another request was faster: the candidate is tried, the scan goes on.
AssignConflict(q) ==
    /\ pc[q] = "assign"
    /\ table[rid[q].id].state # "idle"
    /\ pc' = [pc EXCEPT ![q] = "scan"]
    /\ rid' = [rid EXCEPT ![q] = NoRunner]
    /\ UNCHANGED <<table, idleIndex, sessionIndex, runnerVars, cookie, sid,
                   left, faults, historyVars>>

\* The update is committed, its answer is lost, the SDK sends it again and is
\* told the condition failed: the scan goes on as if the runner were taken.
AssignRetried(q) ==
    /\ pc[q] = "assign"
    /\ Fault
    /\ Bind(q)
    /\ ambiguous' = ambiguous \cup {sid[q]}
    /\ pc' = [pc EXCEPT ![q] = "scan"]
    /\ rid' = [rid EXCEPT ![q] = NoRunner]
    /\ UNCHANGED <<idleIndex, sessionIndex, runnerVars, cookie, sid, left,
                   issued, known, served, joined, renewed, abandoned>>

\* The context is cancelled, or a store call fails, at any point: the handler
\* returns an error.  The write it was waiting for may have been committed.
Abort(q) ==
    /\ pc[q] \in Working
    /\ \/ UNCHANGED <<table, bound>>
       \/ pc[q] \in Deleting /\ DeleteHeld(q) /\ UNCHANGED bound
       \/ pc[q] = "assign" /\ Bind(q)
    /\ abandoned' = abandoned \cup
                      (IF pc[q] \in Creating THEN {sid[q]} ELSE {})
    /\ Finish(q)
    /\ UNCHANGED <<idleIndex, sessionIndex, runnerVars, faults, issued, known,
                   served, joined, renewed, ambiguous>>

\* The answer reaches its client, or the client is no longer there.
Answer(q) ==
    /\ pc[q] \in Answered
    /\ known' = known \cup (IF pc[q] = "ok" THEN {sid[q]} ELSE {})
    /\ Finish(q)
    /\ UNCHANGED <<table, idleIndex, sessionIndex, runnerVars, faults, issued,
                   bound, served, joined, renewed, ambiguous, abandoned>>

LoseAnswer(q) ==
    /\ pc[q] = "ok"
    /\ abandoned' = abandoned \cup ({sid[q]} \ known)
    /\ Finish(q)
    /\ UNCHANGED <<table, idleIndex, sessionIndex, runnerVars, faults, issued,
                   known, bound, served, joined, renewed, ambiguous>>

-----------------------------------------------------------------------------
RunnerStep(r) ==
    \/ Start(r) \/ ReadRegisterAnswer(r) \/ LoseRegister(r)
    \/ RetryRegister(r) \/ Terminate(r) \/ Exit(r)

StoreStep(r) ==
    Register(r) \/ Deregister(r) \/ PropagateState(r) \/ PropagateSession(r)

Arrive(q) ==
    ResolveNew(q) \/ \E s \in Session : ResolveKnown(q, s) \/ Close(q, s)

\* What a handler does next by itself, once its pending call returns.
Progress(q) ==
    \/ FindHit(q) \/ FindMiss(q) \/ CloseMiss(q)
    \/ CheckPass(q) \/ CheckFail(q)
    \/ Evict(q) \/ Discard(q) \/ Unbind(q)
    \/ Scan(q) \/ ScanEnds(q) \/ Assign(q) \/ AssignConflict(q)

Disturbance(q) == DeleteRetried(q) \/ AssignRetried(q) \/ Abort(q)

Next ==
    \/ \E r \in Runner : RunnerStep(r) \/ StoreStep(r)
    \/ \E q \in Request :
          Arrive(q) \/ Progress(q) \/ Disturbance(q) \/ Answer(q)
            \/ LoseAnswer(q)

Spec == Init /\ [][Next]_vars

\* Store calls and health checks return, at the latest by the SDK's and the
\* health client's time limits, and gin runs every handler to its end.
Fairness ==
    \A q \in Request : WF_vars(Progress(q)) /\ WF_vars(Answer(q))

FairSpec == Spec /\ Fairness

-----------------------------------------------------------------------------
(* Properties *)

\* A session never has two records, however its creation was interrupted,
\* retried on another runner or raced, except when an assign was committed,
\* its answer lost, and repeated by the SDK (createSession, AcquireIdle).
OneRunnerPerSession ==
    \A r1, r2 \in Runner :
        /\ table[r1].state = "busy"
        /\ table[r1].sid = table[r2].sid
        /\ table[r1].sid \notin ambiguous
        => r1 = r2

\* Two sessions are never answered with the same runner process, although the
\* health check looks only at the host and deletes are unconditional: this
\* needs a host that no other id was registered with, and that the process was
\* registered once (ResolveSession, Delete, Register).
ExclusiveRunner ==
    \A p \in Runner, s, t \in Session :
        /\ <<s, p>> \in served
        /\ <<t, p>> \in served
        /\ p \notin renewed
        /\ \A r \in Runner : HostOf[r] = HostOf[p] => r = p
        => s = t

\* The unconditional deletes hit only the session they are meant for: while a
\* request is about to delete a record, after an index read and a health
\* check that may be long past, the record has not passed to another session
\* nor back to the pool, unless its runner was registered again.
AimedDelete ==
    \A q \in Request :
        /\ pc[q] \in Deleting
        /\ rid[q].id \notin renewed
        => table[rid[q].id] \in
             {Absent,
              Busy(IF pc[q] = "discard" THEN sid[q] ELSE cookie[q],
                   rid[q].host)}

\* A runner is held only for somebody: the session of a busy record is known
\* to a client or is being created, or its request was cut short (cancelled,
\* failed, answer lost, assign repeated): createSession loses no runner by
\* itself, whatever it meets on its way.
BusyIsAccountedFor ==
    \A r \in Runner : table[r].state = "busy" =>
        \/ table[r].sid \in known \cup abandoned \cup ambiguous
        \/ \E q \in Request : pc[q] \in Creating \cup {"ok"}
                              /\ sid[q] = table[r].sid

\* Every request is answered: the acquire loop, which starts again after each
\* unhealthy runner, and its scan over a stale index both come to an end.
RequestsEnd == \A q \in Request : pc[q] # "free" ~> pc[q] = "free"

\* The pool as its users see it.
Pool == INSTANCE RunnerPool WITH
    pool <- [r \in Runner |-> [state |-> table[r].state, sid |-> table[r].sid]],
    settled <- known

\* The broker keeps the promises of RunnerPool: in particular no two requests
\* that saw the same runner idle in the lagging index both get it, and the
\* session id that createSession reuses for every attempt is not bound again
\* once a client has it.
PoolSpec == Pool!Spec

\* The wording of ErrConflict, CodeRunnerConflict and of the 409's message: a
\* registration is refused when the id is registered with other attributes.
ConflictOnlyForOtherAttributes ==
    [][\A r \in Runner :
          wire[r] # "conflict" /\ wire'[r] = "conflict"
          => table[r].host # HostOf[r]]_vars

=============================================================================
