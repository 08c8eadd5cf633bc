------------------------------ MODULE Routing -------------------------------
(***************************************************************************)
(* How the nginx of each stack routes one client's requests under /api/:   *)
(* to the stack its session cookie names, to the runner that the stack's   *)
(* broker resolves, to the next stack when a stack has no idle runner, and *)
(* to a new session when the owning stack cannot be reached.               *)
(*                                                                         *)
(* A request is one leg that moves from stack to stack; the hops behind it *)
(* only relay its answer.  The one hop that does not is @forward_owner: it *)
(* turns 502 and 504 into a second leg, @reassign_session, while the first *)
(* may still be under way.  What a broker answers is open: see Broker.     *)
(***************************************************************************)
EXTENDS Naturals, Sequences

CONSTANTS
    Stack,         \* stack names
    Order,         \* BUNSHIN_STACKS, the same list everywhere
    Strange,       \* a stack that is not in the list
    NoStack,
    MaxRequests    \* bound on the requests of the client

Elements(list) == {list[i] : i \in DOMAIN list}

ASSUME StackAssumption == NoStack \notin Stack /\ Strange \notin Stack \cup {NoStack}
ASSUME OrderAssumption ==
    /\ Order \in Seq(Stack)
    /\ Elements(Order) = Stack
    /\ \A i, j \in DOMAIN Order : Order[i] = Order[j] => i = j
ASSUME BoundAssumption == MaxRequests \in Nat

VARIABLES
    jar,       \* the client's session_id cookie
    live,      \* sessions that have a record in their stack's table
    minted,    \* sessions created so far
    sent,      \* requests sent so far
    entry,     \* the public stack of the current request
    owner,     \* the stack its @forward_owner was sent to, or NoStack
    leg,       \* the first leg of the request, and the one that reassigns
    answer     \* what the client got, or "waiting"

vars == <<jar, live, minted, sent, entry, owner, leg, answer>>

\* A session id: the stack that prefixes it, and which session it is.
Cookie == [home : Stack \cup {Strange, NoStack}, no : Nat]
NoCookie == [home |-> NoStack, no |-> 0]

Leg == {"first", "again"}
NoLeg == [step |-> "none", at |-> NoStack, public |-> FALSE,
          cookie |-> NoCookie, fb |-> NoStack, rem |-> <<>>, asked |-> {},
          session |-> NoCookie, set |-> NoCookie, told |-> FALSE,
          status |-> "none"]
NoAnswer == [status |-> "none", leg |-> "first", before |-> NoCookie,
             session |-> NoCookie, told |-> FALSE, asked |-> {}]

Status == {"served", "noIdle", "gateway", "error"}

TypeOK ==
    /\ jar \in Cookie
    /\ live \subseteq Cookie
    /\ minted \in Nat
    /\ sent \in 0..MaxRequests
    /\ entry \in Stack \cup {NoStack}
    /\ owner \in Stack \cup {NoStack}
    /\ leg \in [Leg ->
          [step : {"none", "arrive", "resolve", "run", "done"},
           at : Stack \cup {NoStack}, public : BOOLEAN, cookie : Cookie,
           fb : Stack \cup {NoStack}, rem : Seq(Stack), asked : SUBSET Stack,
           session : Cookie, set : Cookie, told : BOOLEAN,
           status : Status \cup {"none"}]]
    /\ answer \in
          [status : Status \cup {"none", "waiting"}, leg : Leg,
           before : Cookie, session : Cookie, told : BOOLEAN,
           asked : SUBSET Stack]

\* The client may come with no cookie, or with the cookie of an earlier visit.
Init ==
    /\ jar \in {NoCookie} \cup [home : Stack \cup {Strange}, no : {0}]
    /\ live \in SUBSET {c \in {jar} : c.home \in Stack}
    /\ minted = 0 /\ sent = 0
    /\ entry = NoStack /\ owner = NoStack
    /\ leg = [l \in Leg |-> NoLeg]
    /\ answer = NoAnswer

-----------------------------------------------------------------------------
(* The client *)

\* The client sends a request to some stack.  What is left of the last one has
\* come to its end.  X-Fallback-Stack is whatever the client sends.
Send(s) ==
    /\ sent < MaxRequests
    /\ answer.status # "waiting"
    /\ \A l \in Leg : leg[l].step = "none"
    /\ sent' = sent + 1
    /\ entry' = s
    /\ owner' = NoStack
    /\ \E h \in {NoStack, s} :
          leg' = [leg EXCEPT !["first"] =
                    [NoLeg EXCEPT !.step = "arrive", !.at = s, !.public = TRUE,
                                  !.cookie = jar, !.fb = h]]
    /\ answer' = [NoAnswer EXCEPT !.status = "waiting", !.before = jar]
    /\ UNCHANGED <<jar, live, minted>>

\* A session ends: it is closed, or its runner leaves or is evicted.
SessionEnds(c) ==
    /\ live' = live \ {c}
    /\ UNCHANGED <<jar, minted, sent, entry, owner, leg, answer>>

-----------------------------------------------------------------------------
(* A leg arrives at a stack: resolve.lua *)

Finish(l, status) ==
    leg' = [leg EXCEPT ![l].step = "done", ![l].status = status]

\* relay_if_internal: the header counts only on the internal host.
Relayed(l) == IF leg[l].public THEN NoStack ELSE leg[l].fb

\* Mutant of ArriveHere: the cookie's stack is not looked at.
ArriveAnywhere(l) ==
    /\ leg[l].step = "arrive"
    /\ leg' = [leg EXCEPT ![l].step = "resolve", ![l].fb = Relayed(l)]
    /\ UNCHANGED <<jar, live, minted, sent, entry, owner, answer>>

\* decide_arrival
ArriveHere(l) ==
    /\ leg[l].step = "arrive"
    /\ IF Relayed(l) # NoStack THEN Relayed(l) = leg[l].at
                               ELSE leg[l].cookie.home \in {NoStack, leg[l].at}
    /\ leg' = [leg EXCEPT ![l].step = "resolve", ![l].fb = Relayed(l)]
    /\ UNCHANGED <<jar, live, minted, sent, entry, owner, answer>>

Reject(l) ==
    /\ leg[l].step = "arrive"
    /\ IF Relayed(l) # NoStack THEN Relayed(l) # leg[l].at
                               ELSE leg[l].cookie.home = Strange
    /\ Finish(l, "error")
    /\ UNCHANGED <<jar, live, minted, sent, entry, owner, answer>>

\* Mutant of ForwardOwner: the cookie's stack is not checked against the list.
ForwardOwnerUnlisted(l) ==
    /\ leg[l].step = "arrive"
    /\ Relayed(l) = NoStack
    /\ leg[l].cookie.home \notin {NoStack, leg[l].at}
    /\ owner' = leg[l].cookie.home
    /\ leg' = [leg EXCEPT ![l].at = owner', ![l].public = FALSE,
                          ![l].fb = NoStack]
    /\ UNCHANGED <<jar, live, minted, sent, entry, answer>>

\* @forward_owner clears the fallback headers and keeps the cookie.
ForwardOwner(l) ==
    /\ leg[l].step = "arrive"
    /\ Relayed(l) = NoStack
    /\ leg[l].cookie.home \in Stack \ {leg[l].at}
    /\ owner' = leg[l].cookie.home
    /\ leg' = [leg EXCEPT ![l].at = owner', ![l].public = FALSE,
                          ![l].fb = NoStack]
    /\ UNCHANGED <<jar, live, minted, sent, entry, answer>>

\* The forwarding nginx gets no connection to the next stack: 502 or 504.
Unreachable(l) ==
    /\ leg[l].step = "arrive"
    /\ ~leg[l].public
    /\ Finish(l, "gateway")
    /\ UNCHANGED <<jar, live, minted, sent, entry, owner, answer>>

-----------------------------------------------------------------------------
(* The stack's broker resolves the session: /_resolve, resolve_core.decide *)

\* The broker has a record for the cookie, and finds it.
Recorded(l) == leg[l].cookie.home = leg[l].at /\ leg[l].cookie \in live

\* It may also miss it in the lagging index, or evict it as unhealthy.
Evicted(l) == {{}} \cup (IF Recorded(l) THEN {{leg[l].cookie}} ELSE {})

ResolveFound(l) ==
    /\ leg[l].step = "resolve"
    /\ Recorded(l)
    /\ leg' = [leg EXCEPT ![l].step = "run", ![l].session = leg[l].cookie]
    /\ UNCHANGED <<jar, live, minted, sent, entry, owner, answer>>

\* Mutant of ResolveCreated: Set-Cookie only for a client without a cookie.
ResolveCreatedUnset(l) ==
    /\ leg[l].step = "resolve"
    /\ \E e \in Evicted(l), c \in [home : {leg[l].at}, no : {minted + 1}] :
          /\ live' = (live \ e) \cup {c}
          /\ leg' = [leg EXCEPT ![l].step = "run", ![l].session = c,
                                ![l].set = IF jar = NoCookie THEN c ELSE @,
                                ![l].told = @ \/ e # {}
                                              \/ (l = "again" /\ leg[l].at = entry)]
    /\ minted' = minted + 1
    /\ UNCHANGED <<jar, sent, entry, owner, answer>>

\* A new session, with Set-Cookie; the signal follows an eviction, and every
\* session that @reassign_session creates.
ResolveCreated(l) ==
    /\ leg[l].step = "resolve"
    /\ \E e \in Evicted(l), c \in [home : {leg[l].at}, no : {minted + 1}] :
          /\ live' = (live \ e) \cup {c}
          /\ leg' = [leg EXCEPT ![l].step = "run", ![l].session = c,
                                ![l].set = c,
                                ![l].told = @ \/ e # {}
                                                \/ (l = "again" /\ leg[l].at = entry)]
    /\ minted' = minted + 1
    /\ UNCHANGED <<jar, sent, entry, owner, answer>>

\* Mutant of fallbackStacks: the list is not walked around its end.
fallbackStacksAhead(self) ==
    LET pivot == CHOOSE i \in DOMAIN Order : Order[i] = self
    IN  SubSeq(Order, pivot + 1, Len(Order))

\* stacklist.Parse: the other stacks, in turn from the one after self.
fallbackStacks(self) ==
    LET pivot == CHOOSE i \in DOMAIN Order : Order[i] = self
    IN  SubSeq(Order, pivot + 1, Len(Order)) \o SubSeq(Order, 1, pivot - 1)

\* Mutant of signalFallback: every stack starts the list anew.
signalFallbackAnew(l) == fallbackStacks(leg[l].at)

\* signalFallback: a forwarded request goes on with the stacks that remain.
signalFallback(l) ==
    IF leg[l].fb # NoStack THEN leg[l].rem ELSE fallbackStacks(leg[l].at)

\* Mutant of ResolveNoIdle: reassign.lua forwards without mark_reassigned.
ResolveNoIdleUnmarked(l) ==
    /\ leg[l].step = "resolve"
    /\ \E e \in Evicted(l) : live' = live \ e
    /\ LET pool == signalFallback(l)
           asked == leg[l].asked \cup {leg[l].at}
       IN  leg' = IF pool = <<>>
                    THEN [leg EXCEPT ![l].step = "done", ![l].status = "noIdle",
                                     ![l].asked = asked]
                    ELSE [leg EXCEPT ![l].step = "arrive", ![l].at = Head(pool),
                                     ![l].public = FALSE,
                                     ![l].fb = Head(pool), ![l].rem = Tail(pool),
                                     ![l].asked = asked]
    /\ UNCHANGED <<jar, minted, sent, entry, owner, answer>>

\* No idle runner: 503, with the next stack if there is one, which gets the
\* cookie unless it was cleared, and the stacks that remain after it.
ResolveNoIdle(l) ==
    /\ leg[l].step = "resolve"
    /\ \E e \in Evicted(l) : live' = live \ e
    /\ LET pool == signalFallback(l)
           asked == leg[l].asked \cup {leg[l].at}
       IN  leg' = IF pool = <<>>
                    THEN [leg EXCEPT ![l].step = "done", ![l].status = "noIdle",
                                     ![l].asked = asked]
                    ELSE [leg EXCEPT ![l].step = "arrive", ![l].at = Head(pool),
                                     ![l].public = FALSE,
                                     ![l].fb = Head(pool), ![l].rem = Tail(pool),
                                     ![l].asked = asked,
                                     ![l].told = @ \/ l = "again"]
    /\ UNCHANGED <<jar, minted, sent, entry, owner, answer>>

\* The broker fails (500), or the subrequest does (502, 504).  A session it may
\* have created is in nobody's jar and plays no part here.
ResolveFails(l) ==
    /\ leg[l].step = "resolve"
    /\ \E e \in Evicted(l) : live' = live \ e
    /\ \E status \in {"gateway", "error"} : Finish(l, status)
    /\ UNCHANGED <<jar, minted, sent, entry, owner, answer>>

-----------------------------------------------------------------------------
(* The runner *)

\* Whatever the runner answers is passed on.
Served(l) ==
    /\ leg[l].step = "run"
    /\ Finish(l, "served")
    /\ UNCHANGED <<jar, live, minted, sent, entry, owner, answer>>

\* The runner gives no answer: 502 or 504.  The error page of /api/ has none of
\* the headers; that of @reassign_session has those set in it.
RunFails(l) ==
    /\ leg[l].step = "run"
    /\ leg' = [leg EXCEPT ![l].step = "done", ![l].status = "gateway",
                          ![l].told = l = "again",
                          ![l].set = IF l = "again" /\ leg[l].at = entry
                                       THEN @ ELSE NoCookie]
    /\ UNCHANGED <<jar, live, minted, sent, entry, owner, answer>>

-----------------------------------------------------------------------------
(* The answer reaches the entry stack *)

\* @forward_owner has got 502 or 504, or its own connection breaks or times out
\* while the owner is at work: /_resolve_reassigned without the cookie.  A
\* subrequest has variables of its own, so that $fwd_fallback_stack and
\* $fwd_fallback_remaining are empty in it and no header is sent.
Reassign ==
    /\ answer.status = "waiting"
    /\ owner # NoStack
    /\ leg["again"].step = "none"
    /\ leg["first"].step = "done" => leg["first"].status = "gateway"
    /\ leg' = [leg EXCEPT !["again"] =
                 [NoLeg EXCEPT !.step = "resolve", !.at = entry]]
    /\ UNCHANGED <<jar, live, minted, sent, entry, owner, answer>>

\* The client gets the answer of a leg and keeps the cookie set with it.
Deliver(l) ==
    /\ answer.status = "waiting"
    /\ leg[l].step = "done"
    /\ l = "first" => /\ leg["again"].step = "none"
                      /\ owner = NoStack \/ leg[l].status # "gateway"
    /\ jar' = IF leg[l].set # NoCookie THEN leg[l].set ELSE jar
    /\ answer' = [answer EXCEPT !.status = leg[l].status, !.leg = l,
                                !.session = leg[l].session,
                                !.told = leg[l].told, !.asked = leg[l].asked]
    /\ leg' = [leg EXCEPT ![l] = NoLeg]
    /\ UNCHANGED <<live, minted, sent, entry, owner>>

\* A first leg that nobody waits for any more ends.
Forget ==
    /\ leg["first"].step = "done"
    /\ answer.status # "waiting" \/ leg["again"].step # "none"
    /\ leg' = [leg EXCEPT !["first"] = NoLeg]
    /\ UNCHANGED <<jar, live, minted, sent, entry, owner, answer>>

-----------------------------------------------------------------------------
Move(l) ==
    \/ ArriveHere(l) \/ Reject(l) \/ ForwardOwner(l) \/ Unreachable(l)
    \/ ResolveFound(l) \/ ResolveCreated(l) \/ ResolveNoIdle(l)
    \/ ResolveFails(l) \/ Served(l) \/ RunFails(l)

Next ==
    \/ \E s \in Stack : Send(s)
    \/ \E c \in live : SessionEnds(c)
    \/ \E l \in Leg : Move(l) \/ Deliver(l)
    \/ Reassign
    \/ Forget

Spec == Init /\ [][Next]_vars

\* nginx has a time limit on every connection and proxied call.
Fairness ==
    /\ \A l \in Leg : WF_vars(Move(l)) /\ WF_vars(Deliver(l))
    /\ WF_vars(Reassign)

FairSpec == Spec /\ Fairness

-----------------------------------------------------------------------------
(* Properties *)

\* Going from stack to stack, a leg never comes back to a broker that had no
\* idle runner: X-Fallback-Remaining only shrinks (signalFallback).
AskedOnce ==
    \A l \in Leg : leg[l].step = "resolve" => leg[l].at \notin leg[l].asked

\* A client is told that there is no idle runner only after the broker of every
\* stack has said so for its request, wherever the request entered, and through
\* owners, reassignment and X-Fallback headers of its own.  After a reassignment it
\* holds because the owner is asked again (OwnerNotTriedAgain): with the owner left
\* out, as resolve.lua intends, the 503 would come without the owner's broker.
NoIdleIsTruthful == answer.status = "noIdle" => answer.asked = Stack

\* The answer of a runner leaves the client with the cookie of the session that
\* the runner serves, over however many stacks it was relayed.
JarNamesServer == answer.status = "served" => jar = answer.session

\* A request is served outside the stack of its session only if that stack's
\* broker was asked first and had no idle runner, or if the client is told.
SessionKeepsStack ==
    /\ answer.status = "served"
    /\ answer.before.home \in Stack
    /\ answer.session.home # answer.before.home
    => answer.told \/ answer.before.home \in answer.asked

\* X-Session-Reassigned: a client that is moved because its stack did not answer
\* is told so, and nobody is told so who keeps a session or had none.
ReassignIsTold ==
    answer.status = "served" =>
        /\ answer.leg = "again" => answer.told
        /\ answer.told => answer.before # NoCookie /\ answer.session # answer.before

\* Every request is answered.
Answered == answer.status = "waiting" ~> answer.status # "waiting"

\* Once it did not answer, the owner is left out of the stacks that are asked
\* instead of it (fallback_remaining_excluding).
OwnerNotTriedAgain == leg["again"].step # "none" => leg["again"].at # owner

=============================================================================
