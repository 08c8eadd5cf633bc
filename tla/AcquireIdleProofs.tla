------------------------- MODULE AcquireIdleProofs --------------------------
(***************************************************************************)
(* For every set of ids, start position and page size: a scan that gives   *)
(* up has missed no runner that was there all along, and meets no id       *)
(* twice.  The invariant says which ids the pages read so far cover.       *)
(***************************************************************************)
EXTENDS AcquireIdle, TLAPS

\* The pages up to the cursor, and the earlier segment, cover the id.
Behind(q, r) ==
    IF seg[q] = 1 THEN r > start[q] /\ r <= from[q]
                  ELSE r > start[q] \/ r <= from[q]

\* A last page, not cut by the limit, covers the rest of its segment.
Covered(q, r) ==
    \/ Behind(q, r)
    \/ phase[q] = "assign" /\ ~more[q] /\ InSegment(q, r)

Scanning(q) == phase[q] \in {"query", "assign"}

Reset ==
    \A q \in Request :
        /\ phase[q] = "free" => seg[q] = 1 /\ from[q] = 0 /\ tried[q] = {}
        /\ phase[q] \in {"free", "query"} => page[q] = {}

\* A candidate in hand or already tried is covered, and none is both.
Cursor ==
    \A q \in Request :
        /\ page[q] \cap tried[q] = {}
        /\ Scanning(q) => \A r \in page[q] \cup tried[q] : Covered(q, r)

\* A runner idle and shown all along is a candidate in hand or still ahead.
Steadfast ==
    \A q \in Request : Scanning(q) => \A r \in steady[q] :
        /\ state[r] = "idle" /\ r \in shown /\ r \notin tried[q]
        /\ Covered(q, r) => r \in page[q]

IInv == TypeOK /\ Reset /\ Cursor /\ Steadfast /\ NoneMissed

-----------------------------------------------------------------------------
\* The variables are well typed at the start.
LEMMA TypeInit == Init => TypeOK
  BY DEF Init, TypeOK

\* Every step of the scan and of the table keeps the types.
LEMMA TypeStep == TypeOK /\ [Next]_vars => TypeOK'
  <1> SUFFICES ASSUME TypeOK, [Next]_vars PROVE TypeOK'
    OBVIOUS
  <1> USE DEF TypeOK, tableVars, scanVars
  <1>1. ASSUME NEW r \in Runner, Register(r) \/ Delete(r) \/ Propagate(r)
        PROVE  TypeOK'
    BY <1>1 DEF Register, Delete, Propagate, NoLongerSteady
  <1>2. ASSUME NEW q \in Request, Begin(q) PROVE TypeOK'
    BY <1>2 DEF Begin
  <1>3. ASSUME NEW q \in Request, Query(q) PROVE TypeOK'
    <2>1. PICK p \in SUBSET Runner :
            /\ page' = [page EXCEPT ![q] = p]
            /\ \/ \E last \in p : /\ from' = [from EXCEPT ![q] = last]
                                 /\ more' = [more EXCEPT ![q] = TRUE]
               \/ more' = [more EXCEPT ![q] = FALSE] /\ from' = from
      BY <1>3 DEF Query, Ahead
    <2>2. /\ phase' = [phase EXCEPT ![q] = "assign"]
          /\ UNCHANGED <<tableVars, start, seg, tried, got, steady>>
      BY <1>3 DEF Query
    <2> QED BY <2>1, <2>2
  <1>4. ASSUME NEW q \in Request, Assign(q) PROVE TypeOK'
    BY <1>4 DEF Assign, NoLongerSteady
  <1>5. ASSUME NEW q \in Request, Skip(q) PROVE TypeOK'
    BY <1>5 DEF Skip
  <1>6. ASSUME NEW q \in Request, NextPage(q) \/ NextSegment(q) \/ GiveUp(q)
        PROVE  TypeOK'
    BY <1>6 DEF NextPage, NextSegment, GiveUp
  <1>7. ASSUME NEW q \in Request, Return(q) PROVE TypeOK'
    BY <1>7 DEF Return
  <1>8. CASE UNCHANGED vars
    BY <1>8 DEF vars
  <1> QED BY <1>1, <1>2, <1>3, <1>4, <1>5, <1>6, <1>7, <1>8 DEF Next, Progress

\* The types the arithmetic of a cursor needs.
LEMMA Numbers ==
    ASSUME TypeOK, NEW q \in Request
    PROVE  /\ Runner \subseteq Nat
           /\ \A r \in Runner : r > 0
           /\ start[q] \in Nat /\ from[q] \in Nat
           /\ page[q] \subseteq Runner /\ tried[q] \subseteq Runner
           /\ steady[q] \subseteq Runner /\ shown \subseteq Runner
  <1>1. \A r \in Runner : r \in Nat /\ r > 0
    <2> SUFFICES ASSUME NEW r \in Runner PROVE r \in Nat /\ r > 0
      OBVIOUS
    <2>1. r \in Nat /\ r # 0
      BY RunnerAssumption
    <2> QED BY <2>1
  <1>2. start[q] \in Start \cup {0} /\ from[q] \in Runner \cup {0}
    BY DEF TypeOK
  <1>3. start[q] \in Nat
    <2>1. Start \cup {0} \subseteq Nat
      BY StartAssumption
    <2> QED BY <1>2, <2>1
  <1>4. from[q] \in Nat
    BY <1>1, <1>2
  <1>5. Runner \subseteq Nat
    BY <1>1
  <1>6. /\ page[q] \subseteq Runner /\ tried[q] \subseteq Runner
        /\ steady[q] \subseteq Runner /\ shown \subseteq Runner
    BY DEF TypeOK
  <1> QED BY <1>1, <1>3, <1>4, <1>5, <1>6

\* What one page covers: Query of a request seen from an id.
LEMMA PageCovers ==
    ASSUME TypeOK, NEW q \in Request, Query(q), NEW r \in Runner
    PROVE  /\ r \in page'[q] => ~Behind(q, r) /\ Covered(q, r)'
           /\ Behind(q, r) => Covered(q, r)'
           /\ r \in shown /\ ~Behind(q, r) /\ Covered(q, r)' => r \in page'[q]
  <1>1. PICK p \in SUBSET (Ahead(q) \cap shown) :
          /\ \A x \in p : \A y \in (Ahead(q) \cap shown) \ p : x < y
          /\ Cardinality(p) <= PageLimit
          /\ p # Ahead(q) \cap shown => Cardinality(p) = PageLimit
          /\ page' = [page EXCEPT ![q] = p]
          /\ IF Cardinality(p) = PageLimit
               THEN \E last \in p :
                      /\ \A x \in p : x <= last
                      /\ from' = [from EXCEPT ![q] = last]
                      /\ more' = [more EXCEPT ![q] = TRUE]
               ELSE /\ more' = [more EXCEPT ![q] = FALSE]
                    /\ UNCHANGED from
    BY DEF Query, HasNext
  <1>2. /\ page'[q] = p /\ phase'[q] = "assign"
        /\ start' = start /\ seg' = seg /\ seg[q] \in {1, 2}
    BY <1>1 DEF Query, TypeOK
  <1>3. CASE Cardinality(p) = PageLimit
    <2>1. PICK last \in p : /\ \A x \in p : x <= last
                            /\ from'[q] = last
                            /\ more'[q] = TRUE
      BY <1>1, <1>3 DEF TypeOK
    <2>2. last \in Runner /\ InSegment(q, last) /\ last > from[q]
      BY <1>1, <2>1 DEF Ahead
    <2> QED
      BY <1>1, <1>2, <2>1, <2>2, Numbers
      DEF Ahead, Behind, Covered, InSegment
  <1>4. CASE Cardinality(p) # PageLimit
    <2>1. p = Ahead(q) \cap shown /\ from'[q] = from[q] /\ more'[q] = FALSE
      BY <1>1, <1>4 DEF TypeOK
    <2> QED
      BY <1>1, <1>2, <2>1, Numbers DEF Ahead, Behind, Covered, InSegment
  <1> QED BY <1>3, <1>4

-----------------------------------------------------------------------------
(* The invariant, one part at a time.  A request that does not step sees     *)
(* only the table, the index and its steady set change.                      *)

\* A call that is over left no cursor behind, and a page is only in hand while
\* its candidates are being tried: kept by every step.
LEMMA ResetStep == TypeOK /\ Reset /\ [Next]_vars => Reset'
  <1> SUFFICES ASSUME TypeOK, Reset, [Next]_vars PROVE Reset'
    OBVIOUS
  <1> USE DEF TypeOK, Reset, scanVars
  <1>1. ASSUME NEW r \in Runner, Register(r) \/ Delete(r) \/ Propagate(r)
        PROVE  Reset'
    BY <1>1 DEF Register, Delete, Propagate
  <1>2. ASSUME NEW q \in Request, Begin(q) \/ Query(q) PROVE Reset'
    BY <1>2 DEF Begin, Query
  <1>3. ASSUME NEW q \in Request, Assign(q) \/ Skip(q) PROVE Reset'
    BY <1>3 DEF Assign, Skip, Candidate
  <1>4. ASSUME NEW q \in Request, NextPage(q) \/ NextSegment(q) \/ GiveUp(q)
        PROVE  Reset'
    BY <1>4 DEF NextPage, NextSegment, GiveUp
  <1>5. ASSUME NEW q \in Request, Return(q) PROVE Reset'
    BY <1>5 DEF Return
  <1>6. CASE UNCHANGED vars
    BY <1>6 DEF vars
  <1> QED BY <1>1, <1>2, <1>3, <1>4, <1>5, <1>6 DEF Next, Progress

\* Reading a page covers exactly the ids it brings, so that no candidate in
\* hand was tried before: kept by every step.
LEMMA CursorStep == TypeOK /\ Reset /\ Cursor /\ [Next]_vars => Cursor'
  <1> SUFFICES ASSUME TypeOK, Reset, Cursor, [Next]_vars, NEW p \in Request
               PROVE  /\ page'[p] \cap tried'[p] = {}
                      /\ Scanning(p)' =>
                           \A r \in page'[p] \cup tried'[p] : Covered(p, r)'
    BY DEF Cursor
  <1> DEFINE G == /\ page'[p] \cap tried'[p] = {}
                  /\ Scanning(p)' =>
                       \A r \in page'[p] \cup tried'[p] : Covered(p, r)'
  <1>a. /\ page[p] \cap tried[p] = {}
        /\ Scanning(p) => \A r \in page[p] \cup tried[p] : Covered(p, r)
    BY DEF Cursor
  <1>b. ASSUME phase'[p] = phase[p], seg'[p] = seg[p], start'[p] = start[p],
               from'[p] = from[p], more'[p] = more[p], page'[p] = page[p],
               tried'[p] = tried[p]
        PROVE  G
    BY <1>a, <1>b DEF Scanning, Covered, Behind, InSegment
  <1>c. ASSUME NEW r \in Runner, Register(r) \/ Delete(r) \/ Propagate(r)
        PROVE  G
    BY <1>b, <1>c DEF Register, Delete, Propagate, scanVars
  <1>d. ASSUME NEW q \in Request, q # p, Begin(q) \/ Progress(q) \/ Return(q)
        PROVE  G
    BY <1>b, <1>d
    DEF TypeOK, Begin, Progress, Query, Assign, Skip, NextPage, NextSegment,
        GiveUp, Return
  <1>1. ASSUME Begin(p) PROVE G
    BY <1>1 DEF TypeOK, Begin, Reset, Scanning
  <1>2. ASSUME Query(p) PROVE G
    <2>1. /\ phase[p] = "query" /\ page[p] = {} /\ page'[p] \subseteq Runner
          /\ tried'[p] = tried[p] /\ tried[p] \subseteq Runner
      BY <1>2, TypeStep DEF Query, Reset, TypeOK
    <2>2. \A r \in tried[p] : Behind(p, r)
      BY <1>a, <2>1 DEF Scanning, Covered
    <2> QED BY <1>2, <2>1, <2>2, PageCovers
  <1>3. ASSUME Assign(p) PROVE G
    BY <1>a, <1>3 DEF TypeOK, Assign, Scanning
  <1>4. ASSUME Skip(p) PROVE G
    <2>1. PICK r \in page[p] :
            /\ page' = [page EXCEPT ![p] = @ \ {r}]
            /\ tried' = [tried EXCEPT ![p] = @ \cup {r}]
      BY <1>4 DEF Skip
    <2>2. /\ page'[p] = page[p] \ {r}
          /\ tried'[p] = tried[p] \cup {r}
      BY <2>1 DEF TypeOK
    <2>3. /\ Scanning(p)' <=> Scanning(p)
          /\ \A x \in Runner : Covered(p, x)' <=> Covered(p, x)
      BY <1>4 DEF Skip, Scanning, Covered, Behind, InSegment
    <2>4. page[p] \subseteq Runner /\ tried[p] \subseteq Runner
      BY DEF TypeOK
    <2> QED BY <1>a, <2>1, <2>2, <2>3, <2>4
  <1>5. ASSUME NextPage(p) PROVE G
    BY <1>a, <1>5 DEF TypeOK, NextPage, Scanning, Covered, Behind, InSegment
  <1>6. ASSUME NextSegment(p) PROVE G
    BY <1>a, <1>6, Numbers
    DEF TypeOK, NextSegment, Scanning, Covered, Behind, InSegment
  <1>7. ASSUME GiveUp(p) PROVE G
    BY <1>a, <1>7 DEF TypeOK, GiveUp, Scanning
  <1>8. ASSUME Return(p) PROVE G
    BY <1>8 DEF TypeOK, Return, Scanning
  <1>9. CASE UNCHANGED vars
    BY <1>b, <1>9 DEF vars, scanVars
  <1> QED
    BY <1>c, <1>d, <1>1, <1>2, <1>3, <1>4, <1>5, <1>6, <1>7, <1>8, <1>9
    DEF Next, Progress

\* No page, segment or failed candidate passes over a runner that stayed idle
\* and shown: kept by every step.
LEMMA SteadfastStep ==
    TypeOK /\ Reset /\ Steadfast /\ [Next]_vars => Steadfast'
  <1> SUFFICES ASSUME TypeOK, Reset, Steadfast, [Next]_vars,
                      NEW p \in Request, Scanning(p)', NEW k \in steady'[p]
               PROVE  /\ state'[k] = "idle" /\ k \in shown' /\ k \notin tried'[p]
                      /\ Covered(p, k)' => k \in page'[p]
    BY DEF Steadfast
  <1> DEFINE G == /\ state'[k] = "idle" /\ k \in shown' /\ k \notin tried'[p]
                  /\ Covered(p, k)' => k \in page'[p]
  <1>a. k \in Runner
    BY TypeStep DEF TypeOK
  <1>b. Scanning(p) /\ k \in steady[p] =>
           /\ state[k] = "idle" /\ k \in shown /\ k \notin tried[p]
           /\ Covered(p, k) => k \in page[p]
    BY DEF Steadfast
  <1>c. ASSUME state'[k] = state[k], k \in shown => k \in shown',
               k \in steady[p],
               phase'[p] = phase[p], seg'[p] = seg[p], start'[p] = start[p],
               from'[p] = from[p], more'[p] = more[p], page'[p] = page[p],
               tried'[p] = tried[p]
        PROVE  G
    BY <1>b, <1>c DEF Scanning, Covered, Behind, InSegment
  <1>d. ASSUME NEW r \in Runner, Register(r) PROVE G
    BY <1>a, <1>b, <1>c, <1>d DEF TypeOK, Register, scanVars, Scanning
  <1>e. ASSUME NEW r \in Runner, Delete(r) PROVE G
    BY <1>a, <1>c, <1>e DEF TypeOK, Delete, NoLongerSteady, scanVars
  <1>f. ASSUME NEW r \in Runner, Propagate(r) PROVE G
    BY <1>a, <1>b, <1>c, <1>f DEF Propagate, scanVars, Scanning
  <1>g. ASSUME NEW q \in Request, q # p, Assign(q) PROVE G
    <2>1. PICK r \in page[q] : /\ state' = [state EXCEPT ![r] = "busy"]
                               /\ NoLongerSteady(r)
      BY <1>g DEF Assign
    <2>2. k # r /\ k \in steady[p] /\ state'[k] = state[k]
      BY <1>a, <2>1 DEF TypeOK, NoLongerSteady
    <2> QED BY <1>c, <1>g, <2>2 DEF TypeOK, Assign
  <1>h. ASSUME NEW q \in Request, q # p,
               \/ Begin(q) \/ Query(q) \/ Skip(q) \/ NextPage(q)
               \/ NextSegment(q) \/ GiveUp(q) \/ Return(q)
        PROVE  G
    BY <1>c, <1>h
    DEF TypeOK, Begin, Query, Skip, NextPage, NextSegment, GiveUp, Return,
        tableVars
  <1>1. ASSUME Begin(p) PROVE G
    <2>1. /\ seg[p] = 1 /\ from[p] = 0 /\ tried[p] = {}
          /\ phase'[p] = "query"
          /\ UNCHANGED <<tableVars, seg, from, tried>>
          /\ steady'[p] = {r \in shown : state[r] = "idle"}
      BY <1>1 DEF Begin, Reset, TypeOK
    <2>2. ~Behind(p, k)'
      BY <1>a, <2>1, Numbers DEF Behind
    <2> QED BY <2>1, <2>2 DEF Covered, tableVars
  <1>2. ASSUME Query(p) PROVE G
    <2>1. /\ phase[p] = "query" /\ page[p] = {}
          /\ UNCHANGED <<tableVars, tried, steady>>
      BY <1>2 DEF Query, Reset
    <2>2. k \in shown /\ ~Behind(p, k)
      BY <1>b, <2>1 DEF Scanning, Covered
    <2> QED BY <1>a, <1>b, <1>2, <2>1, <2>2, PageCovers DEF Scanning, tableVars
  <1>3. ASSUME Assign(p) PROVE G
    BY <1>3 DEF Assign, TypeOK, Scanning
  <1>4. ASSUME Skip(p) PROVE G
    <2>1. PICK r \in page[p] :
            /\ r \in tried[p] \/ state[r] # "idle"
            /\ page' = [page EXCEPT ![p] = @ \ {r}]
            /\ tried' = [tried EXCEPT ![p] = @ \cup {r}]
      BY <1>4 DEF Skip
    <2>2. /\ page'[p] = page[p] \ {r}
          /\ tried'[p] = tried[p] \cup {r}
      BY <2>1 DEF TypeOK
    <2>3. /\ Scanning(p)
          /\ Covered(p, k)' <=> Covered(p, k)
          /\ UNCHANGED <<tableVars, steady>>
      BY <1>4 DEF Skip, Candidate, Scanning, Covered, Behind, InSegment
    <2> QED BY <1>b, <2>1, <2>2, <2>3 DEF tableVars
  <1>5. ASSUME NextPage(p) PROVE G
    BY <1>b, <1>5
    DEF TypeOK, NextPage, Scanning, Covered, Behind, InSegment, tableVars
  <1>6. ASSUME NextSegment(p) PROVE G
    <2>1. /\ phase[p] = "assign" /\ page[p] = {} /\ ~more[p] /\ seg[p] = 1
          /\ seg'[p] = 2 /\ from'[p] = 0 /\ phase'[p] = "query"
          /\ UNCHANGED <<tableVars, start, tried, steady>>
      BY <1>6 DEF NextSegment, TypeOK
    <2>2. ~(k > start[p])
      BY <1>b, <2>1 DEF Scanning, Covered, InSegment
    <2>3. ~Covered(p, k)'
      BY <1>a, <2>1, <2>2, Numbers DEF Covered, Behind
    <2> QED BY <1>b, <2>1, <2>3 DEF Scanning, tableVars
  <1>7. ASSUME GiveUp(p) PROVE G
    BY <1>7 DEF TypeOK, GiveUp, Scanning
  <1>8. ASSUME Return(p) PROVE G
    BY <1>8 DEF TypeOK, Return, Scanning
  <1>9. CASE UNCHANGED vars
    BY <1>c, <1>9 DEF vars, tableVars, scanVars
  <1> QED
    BY <1>d, <1>e, <1>f, <1>g, <1>h,
       <1>1, <1>2, <1>3, <1>4, <1>5, <1>6, <1>7, <1>8, <1>9
    DEF Next, Progress

\* Giving up: both segments are covered and no candidate is left, so whoever
\* was steadfast would still be in hand.
LEMMA NoneMissedStep ==
    TypeOK /\ Steadfast /\ NoneMissed /\ [Next]_vars => NoneMissed'
  <1> SUFFICES ASSUME TypeOK, Steadfast, NoneMissed, [Next]_vars,
                      NEW p \in Request, phase'[p] = "noIdle"
               PROVE  steady'[p] = {}
    BY DEF NoneMissed
  <1>1. CASE phase[p] = "noIdle"
    <2>1. steady[p] = {}
      BY <1>1 DEF NoneMissed
    <2>2. steady'[p] \subseteq steady[p]
      BY <1>1
      DEF Next, vars, tableVars, scanVars, TypeOK, Register, Delete, Propagate,
          NoLongerSteady, Begin, Progress, Query, Assign, Skip, Candidate,
          NextPage, NextSegment, GiveUp, Return
    <2> QED BY <2>1, <2>2
  <1>2. CASE phase[p] # "noIdle"
    <2>1. GiveUp(p)
      BY <1>2
      DEF Next, vars, tableVars, scanVars, TypeOK, Register, Delete, Propagate,
          Begin, Progress, Query, Assign, Skip, NextPage, NextSegment, GiveUp,
          Return
    <2>2. /\ phase[p] = "assign" /\ page[p] = {} /\ ~more[p] /\ seg[p] = 2
          /\ steady' = steady
      BY <2>1 DEF GiveUp
    <2>3. ASSUME NEW k \in steady[p] PROVE FALSE
      <3>1. k \in Runner
        BY DEF TypeOK
      <3>2. Covered(p, k)
        BY <2>2, <3>1, Numbers DEF Covered, Behind, InSegment
      <3> QED BY <2>2, <3>2 DEF Steadfast, Scanning
    <2> QED BY <2>2, <2>3
  <1> QED BY <1>1, <1>2

-----------------------------------------------------------------------------
\* The invariant holds before the first call.
LEMMA InvInit == Init => IInv
  BY TypeInit DEF Init, IInv, Reset, Cursor, Steadfast, NoneMissed, Scanning

\* The inductive invariant of the scan holds in every reachable state.
THEOREM Invariance == Spec => []IInv
  <1>1. IInv /\ [Next]_vars => IInv'
    BY TypeStep, ResetStep, CursorStep, SteadfastStep, NoneMissedStep DEF IInv
  <1> QED BY <1>1, InvInit, PTL DEF Spec

\* Every variable keeps its type.
THEOREM ScanTypes == Spec => []TypeOK
  BY Invariance, PTL DEF IInv

\* AcquireIdle answers that no runner is idle only if none was all along.
THEOREM ScanMissesNone == Spec => []NoneMissed
  BY Invariance, PTL DEF IInv

\* A scan never meets an id twice.
THEOREM ScanMeetsOnce == Spec => []MetOnce
  <1>1. IInv => MetOnce
    BY DEF IInv, Cursor, MetOnce
  <1> QED BY <1>1, Invariance, PTL

=============================================================================
