---------------------------- MODULE AcquireIdle -----------------------------
(***************************************************************************)
(* The scan by which AcquireIdle looks for an idle runner: from a random   *)
(* place in the order of runner ids to the end, then from the first id to  *)
(* that place, in pages read from the lagging index on state, trying the   *)
(* candidates of a page one by one with a conditional update.  Scans run   *)
(* concurrently with each other and with runners that come and go.         *)
(***************************************************************************)
EXTENDS Naturals, FiniteSets

CONSTANTS
    Runner,      \* runner ids; their order is the order of the hex strings
    Start,       \* the random positions a scan can start from
    PageLimit,   \* acquireQueryLimit
    Request      \* concurrent calls of AcquireIdle

ASSUME RunnerAssumption == Runner \subseteq Nat \ {0}
ASSUME StartAssumption == Start \subseteq Nat
ASSUME PageAssumption == PageLimit \in Nat \ {0}

VARIABLES
    state,    \* runner id -> state of its record in the table
    shown,    \* ids the index shows in its idle partition
    phase,    \* where a call is
    start,    \* the place its scan started from
    seg,      \* the segment it reads, 1 or 2
    from,     \* ExclusiveStartKey of its next page; 0 is none
    more,     \* the last page had a LastEvaluatedKey
    page,     \* candidates of the last page still to try
    tried,    \* candidates whose update failed
    got,      \* the runner it acquired, or 0
    steady    \* history: ids idle and shown ever since the scan began

tableVars == <<state, shown>>
scanVars == <<phase, start, seg, from, more, page, tried, got>>
vars == <<tableVars, scanVars, steady>>

TypeOK ==
    /\ state \in [Runner -> {"absent", "idle", "busy"}]
    /\ shown \subseteq Runner
    /\ phase \in [Request -> {"free", "query", "assign", "got", "noIdle"}]
    /\ start \in [Request -> Start \cup {0}]
    /\ seg \in [Request -> {1, 2}]
    /\ from \in [Request -> Runner \cup {0}]
    /\ more \in [Request -> BOOLEAN]
    /\ page \in [Request -> SUBSET Runner]
    /\ tried \in [Request -> SUBSET Runner]
    /\ got \in [Request -> Runner \cup {0}]
    /\ steady \in [Request -> SUBSET Runner]

Init ==
    /\ state \in [Runner -> {"absent", "idle"}]
    /\ shown = {r \in Runner : state[r] = "idle"}
    /\ phase = [q \in Request |-> "free"]
    /\ start = [q \in Request |-> 0]
    /\ seg = [q \in Request |-> 1]
    /\ from = start
    /\ more = [q \in Request |-> FALSE]
    /\ page = [q \in Request |-> {}]
    /\ tried = page
    /\ got = start
    /\ steady = page

-----------------------------------------------------------------------------
(* The table and its index *)

NoLongerSteady(r) == steady' = [q \in Request |-> steady[q] \ {r}]

\* Register and Delete, called by runners and by other requests.
Register(r) ==
    /\ state[r] = "absent"
    /\ state' = [state EXCEPT ![r] = "idle"]
    /\ UNCHANGED <<shown, scanVars, steady>>

Delete(r) ==
    /\ state[r] # "absent"
    /\ state' = [state EXCEPT ![r] = "absent"]
    /\ NoLongerSteady(r)
    /\ UNCHANGED <<shown, scanVars>>

\* The index catches up with a record.
Propagate(r) ==
    /\ shown' = IF state[r] = "idle" THEN shown \cup {r} ELSE shown \ {r}
    /\ shown' # shown
    /\ UNCHANGED <<state, scanVars, steady>>

-----------------------------------------------------------------------------
(* The scan *)

Begin(q) ==
    /\ phase[q] = "free"
    /\ phase' = [phase EXCEPT ![q] = "query"]
    /\ start' \in {[start EXCEPT ![q] = v] : v \in Start}
    /\ steady' = [steady EXCEPT ![q] = {r \in shown : state[r] = "idle"}]
    /\ UNCHANGED <<tableVars, seg, from, more, page, tried, got>>

\* Mutant of InSegment: the start belongs to both segments.
InSegmentClosed(q, r) == IF seg[q] = 1 THEN r >= start[q] ELSE r <= start[q]

\* The ids a segment covers, and those of it the pages read so far have left.
InSegment(q, r) == IF seg[q] = 1 THEN r > start[q] ELSE r <= start[q]
Ahead(q) == {r \in Runner : InSegment(q, r) /\ r > from[q]}

\* Mutant of HasNext: LastEvaluatedKey is not looked at.
HasNextNever(p) == FALSE

\* A page that reaches the limit carries the key of its last item.
HasNext(p) == Cardinality(p) = PageLimit

\* queryIdlePage: the first PageLimit items, in order, of those shown ahead.
Query(q) ==
    /\ phase[q] = "query"
    /\ \E p \in SUBSET (Ahead(q) \cap shown) :
          /\ \A x \in p : \A y \in (Ahead(q) \cap shown) \ p : x < y
          /\ Cardinality(p) <= PageLimit
          /\ p # Ahead(q) \cap shown => Cardinality(p) = PageLimit
          /\ page' = [page EXCEPT ![q] = p]
          /\ IF HasNext(p)
               THEN \E last \in p :
                      /\ \A x \in p : x <= last
                      /\ from' = [from EXCEPT ![q] = last]
                      /\ more' = [more EXCEPT ![q] = TRUE]
               ELSE /\ more' = [more EXCEPT ![q] = FALSE]
                    /\ UNCHANGED from
    /\ phase' = [phase EXCEPT ![q] = "assign"]
    /\ UNCHANGED <<tableVars, start, seg, tried, got, steady>>

Candidate(q, r) ==
    /\ phase[q] = "assign"
    /\ r \in page[q]
    /\ \A x \in page[q] : r <= x

\* assignSession succeeds: the update's condition is evaluated on the table.
Assign(q) ==
    /\ \E r \in page[q] \ tried[q] :
          /\ Candidate(q, r)
          /\ state[r] = "idle"
          /\ state' = [state EXCEPT ![r] = "busy"]
          /\ got' = [got EXCEPT ![q] = r]
          /\ NoLongerSteady(r)
    /\ phase' = [phase EXCEPT ![q] = "got"]
    /\ UNCHANGED <<shown, start, seg, from, more, page, tried>>

\* The candidate was tried before, or its record is no longer idle.
Skip(q) ==
    /\ \E r \in page[q] :
          /\ Candidate(q, r)
          /\ r \in tried[q] \/ state[r] # "idle"
          /\ page' = [page EXCEPT ![q] = @ \ {r}]
          /\ tried' = [tried EXCEPT ![q] = @ \cup {r}]
    /\ UNCHANGED <<tableVars, phase, start, seg, from, more, got, steady>>

\* Mutant of NextPage: the page is read without ExclusiveStartKey.
NextPageRestarts(q) ==
    /\ phase[q] = "assign"
    /\ page[q] = {}
    /\ more[q]
    /\ from' = [from EXCEPT ![q] = 0]
    /\ phase' = [phase EXCEPT ![q] = "query"]
    /\ UNCHANGED <<tableVars, start, seg, more, page, tried, got, steady>>

\* The page is used up: the next page, the second segment, or ErrNoIdleRunner.
NextPage(q) ==
    /\ phase[q] = "assign"
    /\ page[q] = {}
    /\ more[q]
    /\ phase' = [phase EXCEPT ![q] = "query"]
    /\ UNCHANGED <<tableVars, start, seg, from, more, page, tried, got, steady>>

\* Mutant of NextSegment: the segments are not counted.
NextSegmentUncounted(q) ==
    /\ phase[q] = "assign"
    /\ page[q] = {}
    /\ ~more[q]
    /\ seg' = [seg EXCEPT ![q] = @ + 1]
    /\ from' = [from EXCEPT ![q] = 0]
    /\ phase' = [phase EXCEPT ![q] = "query"]
    /\ UNCHANGED <<tableVars, start, more, page, tried, got, steady>>

NextSegment(q) ==
    /\ phase[q] = "assign"
    /\ page[q] = {}
    /\ ~more[q]
    /\ seg[q] = 1
    /\ seg' = [seg EXCEPT ![q] = 2]
    /\ from' = [from EXCEPT ![q] = 0]
    /\ phase' = [phase EXCEPT ![q] = "query"]
    /\ UNCHANGED <<tableVars, start, more, page, tried, got, steady>>

GiveUp(q) ==
    /\ phase[q] = "assign"
    /\ page[q] = {}
    /\ ~more[q]
    /\ seg[q] = 2
    /\ phase' = [phase EXCEPT ![q] = "noIdle"]
    /\ UNCHANGED <<tableVars, start, seg, from, more, page, tried, got, steady>>

\* The call returns, with its result or with the error of a store call, and
\* its variables are gone.
Return(q) ==
    /\ phase[q] # "free"
    /\ phase' = [phase EXCEPT ![q] = "free"]
    /\ start' = [start EXCEPT ![q] = 0]
    /\ seg' = [seg EXCEPT ![q] = 1]
    /\ from' = [from EXCEPT ![q] = 0]
    /\ more' = [more EXCEPT ![q] = FALSE]
    /\ page' = [page EXCEPT ![q] = {}]
    /\ tried' = [tried EXCEPT ![q] = {}]
    /\ got' = [got EXCEPT ![q] = 0]
    /\ steady' = [steady EXCEPT ![q] = {}]
    /\ UNCHANGED tableVars

Progress(q) ==
    Query(q) \/ Assign(q) \/ Skip(q) \/ NextPage(q) \/ NextSegment(q) \/ GiveUp(q)

Next ==
    \/ \E r \in Runner : Register(r) \/ Delete(r) \/ Propagate(r)
    \/ \E q \in Request : Begin(q) \/ Progress(q) \/ Return(q)

Spec == Init /\ [][Next]_vars

\* Store calls return and the loop runs on.
FairSpec == Spec /\ \A q \in Request : WF_vars(Progress(q))

-----------------------------------------------------------------------------
(* Properties *)

\* ErrNoIdleRunner is truthful: whatever pages, segments, other scans and
\* runners that come and go do, no runner has been idle, and shown so by the
\* index, from the beginning of the scan to its end.
NoneMissed == \A q \in Request : phase[q] = "noIdle" => steady[q] = {}

\* A scan never meets an id twice, so that tried never suppresses a candidate
\* that has become idle again: cursor and segments cover each id once.
MetOnce == \A q \in Request : page[q] \cap tried[q] = {}

\* A scan ends, however the index lags and whatever others take before it.
ScanEnds == \A q \in Request :
    phase[q] \in {"query", "assign"} ~> phase[q] \in {"got", "noIdle", "free"}

=============================================================================
