--------------------------- MODULE RoutingProofs ----------------------------
(***************************************************************************)
(* For any number of stacks and of requests: the safety properties of      *)
(* Routing.  The invariant says what a leg knows at each step: which       *)
(* stacks were asked and which remain, whose session serves it, and what   *)
(* the client is to be told.                                               *)
(***************************************************************************)
EXTENDS Routing, SequenceTheorems, TLAPS

Once(list) == \A i, j \in DOMAIN list : list[i] = list[j] => i = j

\* A leg that a runner serves, or has served.
Serving(g) == g.step = "run" \/ (g.step = "done" /\ g.status = "served")

\* A leg on its way between the stacks, or with a broker.
Inside(g) == g.step = "resolve" \/ (g.step = "arrive" /\ ~g.public)

\* The stacks asked, the one being asked and those that remain part Stack.
Chain(l) ==
    LET g == leg[l] IN
    /\ g.step \in {"arrive", "resolve", "run"} => g.at \in Stack
    /\ Inside(g) /\ g.fb # NoStack =>
          /\ g.at \notin g.asked
          /\ Once(g.rem)
          /\ Elements(g.rem) = Stack \ (g.asked \cup {g.at})
    /\ g.step = "arrive" /\ g.public => g.asked = {}
    /\ g.step \in {"arrive", "resolve"} /\ g.fb = NoStack => g.asked = {}
    /\ g.step = "done" /\ g.status = "noIdle" => g.asked = Stack

\* The first leg carries the client's cookie, the other one none; who is served
\* without Set-Cookie is served under the cookie of the request.
Carried(l) ==
    LET g == leg[l] IN
    /\ l = "again" => g.cookie = NoCookie
    /\ l = "first" /\ g.step # "none" /\ answer.status = "waiting" =>
          g.cookie = answer.before
    /\ g.step \in {"arrive", "resolve"} => g.set = NoCookie
    /\ g.set.no <= minted
    /\ Serving(g) =>
          /\ g.session.home = g.at /\ g.at \in Stack
          /\ g.set = g.session \/ (g.set = NoCookie /\ g.session = g.cookie)

\* Past the entry, the first leg is at the stack of its session or has asked it.
Kept(l) ==
    LET g == leg[l] IN
    /\ l = "first"
    /\ Inside(g) \/ Serving(g)
    /\ g.cookie.home \in Stack
    => g.at = g.cookie.home \/ g.cookie.home \in g.asked

\* The signal is for a client that had a session and is given another one.
Told(l) ==
    LET g == leg[l] IN
    /\ l = "again" =>
          /\ g.step \in {"arrive", "resolve"} => g.told \/ g.at = entry
          /\ Serving(g) => g.told
          /\ g.step # "none" /\ answer.status = "waiting" => answer.before # NoCookie
    /\ l = "first" =>
          /\ g.step \in {"arrive", "resolve"} => ~g.told
          /\ Serving(g) /\ g.told => g.cookie # NoCookie
    /\ Serving(g) /\ g.told /\ answer.status = "waiting" =>
          g.session # answer.before

LegInv(l) == Chain(l) /\ Carried(l) /\ Kept(l) /\ Told(l)

\* What the client has and has had.
Client ==
    /\ answer.status = "waiting" => jar = answer.before /\ entry \in Stack
    /\ jar.no <= minted /\ answer.before.no <= minted
    /\ answer.status = "waiting" /\ owner # NoStack => answer.before # NoCookie

Safe == NoIdleIsTruthful /\ JarNamesServer /\ SessionKeepsStack /\ ReassignIsTold

IInv == TypeOK /\ (\A l \in Leg : LegInv(l)) /\ Client /\ Safe

-----------------------------------------------------------------------------
(* Lists of stacks *)

\* What is left of a list after its first stack.
LEMMA TailOfList ==
    ASSUME NEW s \in Seq(Stack), s # <<>>, Once(s)
    PROVE  /\ Head(s) \in Stack /\ Tail(s) \in Seq(Stack)
           /\ Once(Tail(s))
           /\ Elements(Tail(s)) = Elements(s) \ {Head(s)}
<1>1. /\ Len(s) \in Nat \ {0} /\ DOMAIN s = 1..Len(s)
      /\ Head(s) = s[1]
      /\ Tail(s) \in Seq(Stack)
      /\ Len(Tail(s)) = Len(s) - 1
      /\ DOMAIN Tail(s) = 1..Len(s) - 1
      /\ \A i \in 1..Len(s) - 1 : Tail(s)[i] = s[i + 1]
  OBVIOUS
<1>2. \A i \in 1..Len(s) - 1 : i + 1 \in 1..Len(s) /\ i + 1 # 1
  BY <1>1
<1>3. Once(Tail(s))
  <2> SUFFICES ASSUME NEW i \in 1..Len(s) - 1, NEW j \in 1..Len(s) - 1,
                      Tail(s)[i] = Tail(s)[j]
               PROVE  i = j
    BY <1>1 DEF Once
  <2>1. s[i + 1] = s[j + 1]
    BY <1>1
  <2>2. i + 1 = j + 1
    BY <1>1, <1>2, <2>1 DEF Once
  <2> QED
    BY <1>1, <2>2
<1>4. Elements(Tail(s)) \subseteq Elements(s) \ {Head(s)}
  <2> SUFFICES ASSUME NEW i \in 1..Len(s) - 1
               PROVE  s[i + 1] \in Elements(s) \ {s[1]}
    BY <1>1 DEF Elements
  <2> QED
    BY <1>1, <1>2 DEF Elements, Once
<1>5. Elements(s) \ {Head(s)} \subseteq Elements(Tail(s))
  <2> SUFFICES ASSUME NEW i \in 1..Len(s), s[i] # s[1]
               PROVE  s[i] \in Elements(Tail(s))
    BY <1>1 DEF Elements
  <2>1. i - 1 \in 1..Len(s) - 1 /\ (i - 1) + 1 = i
    BY <1>1
  <2>2. Tail(s)[i - 1] = s[i]
    BY <1>1, <2>1
  <2> QED
    BY <1>1, <2>1, <2>2 DEF Elements
<1>6. Head(s) \in Stack
  BY <1>1
<1> QED
  BY <1>1, <1>3, <1>4, <1>5, <1>6

\* fallbackStacks gives each other stack once.
LEMMA OtherStacks ==
    ASSUME NEW self \in Stack
    PROVE  /\ fallbackStacks(self) \in Seq(Stack)
           /\ Once(fallbackStacks(self))
           /\ Elements(fallbackStacks(self)) = Stack \ {self}
<1> DEFINE n == Len(Order)
           p == CHOOSE i \in DOMAIN Order : Order[i] = self
           a == SubSeq(Order, p + 1, n)
           b == SubSeq(Order, 1, p - 1)
           at(i) == IF i <= n - p THEN p + i ELSE i - (n - p)
<1>1. /\ Order \in Seq(Stack) /\ n \in Nat /\ DOMAIN Order = 1..n
      /\ Elements(Order) = Stack /\ Once(Order)
  BY OrderAssumption DEF Once
<1>2. p \in 1..n /\ Order[p] = self
  BY <1>1 DEF Elements
<1> HIDE DEF n, p
<1>3. /\ a \in Seq(Stack) /\ Len(a) = n - p
      /\ \A i \in 1..n - p : a[i] = Order[p + i]
  <2>1. /\ p + 1 \in Int /\ n \in Int
        /\ \A i \in p + 1..n : Order[i] \in Stack
    BY <1>1, <1>2
  <2>2. /\ a \in Seq(Stack)
        /\ Len(a) = IF p + 1 <= n THEN n - (p + 1) + 1 ELSE 0
        /\ \A i \in 1..n - (p + 1) + 1 : a[i] = Order[(p + 1) + i - 1]
    BY <2>1, SubSeqProperties
  <2>3. /\ n - (p + 1) + 1 = n - p
        /\ ~(p + 1 <= n) => n - p = 0
        /\ \A i \in 1..n - p : (p + 1) + i - 1 = p + i
    BY <1>1, <1>2
  <2> HIDE DEF a
  <2> QED
    BY <2>2, <2>3
<1>4. /\ b \in Seq(Stack) /\ Len(b) = p - 1
      /\ \A i \in 1..p - 1 : b[i] = Order[i]
  BY <1>1, <1>2
<1> DEFINE f == a \o b
<1>5. fallbackStacks(self) = f
  BY DEF fallbackStacks, n, p
<1> HIDE DEF a, b
<1>6. /\ f \in Seq(Stack) /\ Len(f) = n - 1 /\ DOMAIN f = 1..n - 1
      /\ \A i \in 1..n - 1 : f[i] = Order[at(i)]
  <2>1. f \in Seq(Stack) /\ Len(f) = n - 1 /\ DOMAIN f = 1..n - 1
    <3>1. f \in Seq(Stack) /\ Len(f) = Len(a) + Len(b)
      BY <1>3, <1>4
    <3>2. Len(f) = n - 1 /\ n - 1 \in Nat
      BY <1>1, <1>2, <1>3, <1>4, <3>1
    <3> QED
      BY <3>1, <3>2
  <2>2. ASSUME NEW i \in 1..n - 1, i <= n - p
        PROVE  f[i] = Order[p + i]
    BY <1>1, <1>2, <1>3, <1>4, <2>2
  <2>3. ASSUME NEW i \in 1..n - 1, ~(i <= n - p)
        PROVE  f[i] = Order[i - (n - p)]
    BY <1>1, <1>2, <1>3, <1>4, <2>3
  <2> QED
    BY <2>1, <2>2, <2>3
<1> HIDE DEF f
<1>7. \A i \in 1..n - 1 : at(i) \in 1..n /\ at(i) # p
  BY <1>1, <1>2
<1>8. Once(f)
  <2> SUFFICES ASSUME NEW i \in 1..n - 1, NEW j \in 1..n - 1, f[i] = f[j]
               PROVE  i = j
    BY <1>6 DEF Once
  <2>1. at(i) = at(j)
    BY <1>1, <1>6, <1>7 DEF Once
  <2> QED
    BY <1>1, <1>2, <2>1
<1>9. Elements(f) \subseteq Stack \ {self}
  <2> SUFFICES ASSUME NEW i \in 1..n - 1 PROVE Order[at(i)] \in Stack \ {self}
    BY <1>6 DEF Elements
  <2> QED
    BY <1>1, <1>2, <1>7 DEF Once
<1>10. Stack \ {self} \subseteq Elements(f)
  <2> SUFFICES ASSUME NEW s \in Stack, s # self PROVE s \in Elements(f)
    OBVIOUS
  <2>1. PICK k \in 1..n : Order[k] = s
    BY <1>1 DEF Elements
  <2>2. PICK i \in 1..n - 1 : at(i) = k
    <3>1. k # p
      BY <1>2, <2>1
    <3>2. CASE k < p
      <4>1. k + (n - p) \in 1..n - 1 /\ at(k + (n - p)) = k
        BY <1>1, <1>2, <3>2
      <4> QED
        BY <4>1
    <3>3. CASE k > p
      <4>1. k - p \in 1..n - 1 /\ at(k - p) = k
        BY <1>1, <1>2, <3>3
      <4> QED
        BY <4>1
    <3> QED
      BY <1>1, <1>2, <3>1, <3>2, <3>3
  <2> QED
    BY <1>6, <2>1, <2>2 DEF Elements
<1> QED
  BY <1>5, <1>6, <1>8, <1>9, <1>10

-----------------------------------------------------------------------------
(* Types *)

LegType ==
    [step : {"none", "arrive", "resolve", "run", "done"},
     at : Stack \cup {NoStack}, public : BOOLEAN, cookie : Cookie,
     fb : Stack \cup {NoStack}, rem : Seq(Stack), asked : SUBSET Stack,
     session : Cookie, set : Cookie, told : BOOLEAN,
     status : Status \cup {"none"}]

\* The null values are of the types of what they stand for.
LEMMA NullTypes ==
    /\ NoCookie \in Cookie
    /\ NoLeg \in LegType
  BY DEF NoCookie, Cookie, NoLeg, LegType

\* A leg gets another record, the other one keeps its own.
LEMMA LegUpdate ==
    ASSUME TypeOK, NEW l \in Leg, NEW h \in LegType, leg' = [leg EXCEPT ![l] = h]
    PROVE  /\ leg' \in [Leg -> LegType]
           /\ leg'[l] = h
           /\ \A k \in Leg : k # l => leg'[k] = leg[k]
  BY DEF TypeOK, LegType

\* A leg moves and the client notices nothing.
LEMMA MoveFrame ==
    ASSUME IInv, NEW l \in Leg, NEW h \in LegType, leg' = [leg EXCEPT ![l] = h],
           UNCHANGED <<jar, sent, entry, answer>>,
           live' \subseteq Cookie, owner' \in Stack \cup {NoStack},
           minted' \in {minted, minted + 1},
           owner' # owner /\ answer.status = "waiting" => answer.before # NoCookie,
           LegInv(l)'
    PROVE  IInv'
<1>1. /\ leg' \in [Leg -> LegType]
      /\ \A k \in Leg : k # l => leg'[k] = leg[k]
  BY LegUpdate DEF IInv
<1>0. minted \in Nat /\ minted' \in Nat /\ minted' >= minted
  BY DEF IInv, TypeOK
<1>2. TypeOK'
  BY <1>0, <1>1 DEF IInv, TypeOK, LegType
<1>3. ASSUME NEW k \in Leg, k # l PROVE LegInv(k)'
  <2>1. LegInv(k) /\ leg'[k] = leg[k]
    BY <1>1, <1>3 DEF IInv
  <2>2. leg[k].set.no <= minted'
    <3>1. leg[k].set.no \in Nat
      BY DEF IInv, TypeOK, Cookie
    <3> QED
      BY <1>0, <2>1, <3>1 DEF LegInv, Carried
  <2> QED
    BY <2>1, <2>2 DEF LegInv, Chain, Carried, Kept, Told, Inside, Serving
<1>4. Client'
  <2>1. jar.no \in Nat /\ answer.before.no \in Nat
    BY DEF IInv, TypeOK, Cookie
  <2> QED
    BY <1>0, <2>1 DEF IInv, Client
<1>5. Safe'
  BY DEF IInv, Safe, NoIdleIsTruthful, JarNamesServer, SessionKeepsStack,
     ReassignIsTold
<1> QED
  BY <1>2, <1>3, <1>4, <1>5 DEF IInv

-----------------------------------------------------------------------------
(* A leg at a stack *)

\* The leg goes to the stack's broker.
LEMMA ArriveHereHolds ==
    ASSUME IInv, NEW l \in Leg, ArriveHere(l)
    PROVE  IInv'
<1> DEFINE g == leg[l]
           h == [g EXCEPT !.step = "resolve", !.fb = Relayed(l)]
<1>1. g \in LegType /\ LegInv(l)
  BY DEF IInv, TypeOK, LegType
<1>2. /\ leg' = [leg EXCEPT ![l] = h]
      /\ UNCHANGED <<jar, live, minted, sent, entry, owner, answer>>
      /\ g.step = "arrive"
      /\ Relayed(l) = NoStack => g.cookie.home \in {NoStack, g.at}
  BY DEF ArriveHere
<1>3. Relayed(l) \in Stack \cup {NoStack} /\ Relayed(l) = IF g.public THEN NoStack ELSE g.fb
  BY <1>1 DEF Relayed, LegType
<1> HIDE DEF h
<1>4. /\ h \in LegType
      /\ h.step = "resolve" /\ h.fb = Relayed(l)
      /\ h.at = g.at /\ h.public = g.public /\ h.cookie = g.cookie
      /\ h.rem = g.rem /\ h.asked = g.asked /\ h.session = g.session
      /\ h.set = g.set /\ h.told = g.told /\ h.status = g.status
  BY <1>1, <1>3 DEF LegType, h
<1>5. leg'[l] = h
  BY <1>2, <1>4, LegUpdate DEF IInv
<1>6. LegInv(l)'
  <2>1. Chain(l)'
    BY <1>1, <1>2, <1>3, <1>4, <1>5 DEF LegInv, Chain, Inside, LegType
  <2>2. Carried(l)'
    BY <1>1, <1>2, <1>4, <1>5 DEF LegInv, Carried, Serving
  <2>3. Kept(l)'
    BY <1>1, <1>2, <1>3, <1>4, <1>5, StackAssumption DEF LegInv, Kept, Serving, Inside,
       LegType
  <2>4. Told(l)'
    BY <1>1, <1>2, <1>4, <1>5 DEF LegInv, Told, Serving
  <2> QED
    BY <2>1, <2>2, <2>3, <2>4 DEF LegInv
<1> QED
  BY <1>2, <1>4, <1>6, MoveFrame DEF IInv, TypeOK

\* The leg ends without having been served, and not for want of idle runners.
LEMMA FailHolds ==
    ASSUME IInv, NEW l \in Leg, NEW h \in LegType, leg' = [leg EXCEPT ![l] = h],
           UNCHANGED <<jar, minted, sent, entry, owner, answer>>,
           live' \subseteq Cookie,
           leg[l].step # "none",
           h.step = "done", h.status \in {"gateway", "error"},
           h.cookie = leg[l].cookie,
           h.set \in {leg[l].set, NoCookie}
    PROVE  IInv'
<1>1. leg'[l] = h /\ LegInv(l)
  BY LegUpdate DEF IInv
<1>2. h.set.no <= minted
  <2>1. NoCookie.no <= minted
    BY DEF NoCookie, IInv, TypeOK
  <2> QED
    BY <1>1, <2>1 DEF LegInv, Carried
<1>3. LegInv(l)'
  BY <1>1, <1>2 DEF LegInv, Chain, Carried, Kept, Told, Inside, Serving
<1> QED
  BY <1>3, MoveFrame DEF IInv, TypeOK

\* 500, 502 or 504 before any runner was reached.
LEMMA RejectHolds ==
    ASSUME IInv, NEW l \in Leg, Reject(l) \/ Unreachable(l) \/ ResolveFails(l)
    PROVE  IInv'
<1> DEFINE h(status) == [leg[l] EXCEPT !.step = "done", !.status = status]
<1>1. leg[l] \in LegType
  BY DEF IInv, TypeOK, LegType
<1>2. PICK status \in {"gateway", "error"} : leg' = [leg EXCEPT ![l] = h(status)]
  BY DEF Reject, Unreachable, ResolveFails, Finish
<1>3. /\ h(status) \in LegType
      /\ h(status).step = "done" /\ h(status).status = status
      /\ h(status).cookie = leg[l].cookie /\ h(status).set = leg[l].set
  BY <1>1 DEF LegType, Status
<1>4. /\ UNCHANGED <<jar, minted, sent, entry, owner, answer>>
      /\ live' \subseteq live
      /\ leg[l].step # "none"
  BY DEF Reject, Unreachable, ResolveFails
<1> HIDE DEF h
<1>5. live' \subseteq Cookie
  BY <1>4 DEF IInv, TypeOK
<1> QED
  BY <1>2, <1>3, <1>4, <1>5, FailHolds

\* The leg goes to the stack that its cookie names.
LEMMA ForwardOwnerHolds ==
    ASSUME IInv, NEW l \in Leg, ForwardOwner(l)
    PROVE  IInv'
<1> DEFINE g == leg[l]
           h == [g EXCEPT !.at = g.cookie.home, !.public = FALSE, !.fb = NoStack]
<1>1. g \in LegType /\ LegInv(l)
  BY DEF IInv, TypeOK, LegType
<1>2. /\ leg' = [leg EXCEPT ![l] = h]
      /\ UNCHANGED <<jar, live, minted, sent, entry, answer>>
      /\ g.step = "arrive" /\ Relayed(l) = NoStack
      /\ owner' = g.cookie.home /\ g.cookie.home \in Stack \ {g.at}
  BY DEF ForwardOwner
<1> HIDE DEF h
<1>3. /\ h \in LegType
      /\ h.step = "arrive" /\ h.fb = NoStack
      /\ h.at = g.cookie.home /\ ~h.public /\ h.cookie = g.cookie
      /\ h.rem = g.rem /\ h.asked = g.asked /\ h.session = g.session
      /\ h.set = g.set /\ h.told = g.told /\ h.status = g.status
  BY <1>1, <1>2 DEF LegType, h
<1>4. leg'[l] = h
  BY <1>2, <1>3, LegUpdate DEF IInv
<1>5. l = "first"
  BY <1>1, <1>2, StackAssumption DEF LegInv, Carried, NoCookie, Leg
<1>6. LegInv(l)'
  <2>1. Chain(l)'
    BY <1>1, <1>2, <1>3, <1>4 DEF LegInv, Chain, Relayed, Inside
  <2>2. Carried(l)'
    BY <1>1, <1>2, <1>3, <1>4 DEF LegInv, Carried, Serving
  <2>3. Kept(l)'
    BY <1>3, <1>4 DEF Kept
  <2>4. Told(l)'
    BY <1>1, <1>2, <1>3, <1>4, <1>5 DEF LegInv, Told, Serving
  <2> QED
    BY <2>1, <2>2, <2>3, <2>4 DEF LegInv
<1>7. answer.status = "waiting" => answer.before # NoCookie
  BY <1>1, <1>2, <1>5, StackAssumption DEF LegInv, Carried, NoCookie
<1> QED
  BY <1>2, <1>3, <1>6, <1>7, MoveFrame DEF IInv, TypeOK

-----------------------------------------------------------------------------
(* A leg with a broker *)

\* The broker finds the session of the cookie.
LEMMA ResolveFoundHolds ==
    ASSUME IInv, NEW l \in Leg, ResolveFound(l)
    PROVE  IInv'
<1> DEFINE g == leg[l]
           h == [g EXCEPT !.step = "run", !.session = g.cookie]
<1>1. g \in LegType /\ LegInv(l)
  BY DEF IInv, TypeOK, LegType
<1>2. /\ leg' = [leg EXCEPT ![l] = h]
      /\ UNCHANGED <<jar, live, minted, sent, entry, owner, answer>>
      /\ g.step = "resolve" /\ g.cookie.home = g.at
  BY DEF ResolveFound, Recorded
<1> HIDE DEF h
<1>3. /\ h \in LegType
      /\ h.step = "run" /\ h.fb = g.fb
      /\ h.at = g.at /\ h.public = g.public /\ h.cookie = g.cookie
      /\ h.rem = g.rem /\ h.asked = g.asked /\ h.session = g.cookie
      /\ h.set = g.set /\ h.told = g.told /\ h.status = g.status
  BY <1>1 DEF LegType, h
<1>4. leg'[l] = h
  BY <1>2, <1>3, LegUpdate DEF IInv
<1>5. g.at \in Stack
  BY <1>1, <1>2 DEF LegInv, Chain
<1>6. l = "first"
  BY <1>1, <1>2, <1>5, StackAssumption DEF LegInv, Carried, NoCookie, Leg
<1>7. LegInv(l)'
  <2>1. Chain(l)'
    BY <1>3, <1>4, <1>5 DEF Chain, Inside
  <2>2. Carried(l)'
    BY <1>1, <1>2, <1>3, <1>4, <1>5 DEF LegInv, Carried, Serving
  <2>3. Kept(l)'
    BY <1>2, <1>3, <1>4 DEF Kept
  <2>4. Told(l)'
    BY <1>1, <1>2, <1>3, <1>4, <1>6 DEF LegInv, Told, Serving
  <2> QED
    BY <2>1, <2>2, <2>3, <2>4 DEF LegInv
<1> QED
  BY <1>2, <1>3, <1>7, MoveFrame DEF IInv, TypeOK

\* The broker creates a session, which no client has had before.
LEMMA ResolveCreatedHolds ==
    ASSUME IInv, NEW l \in Leg, ResolveCreated(l)
    PROVE  IInv'
<1> DEFINE g == leg[l]
           c == [home |-> g.at, no |-> minted + 1]
           told(e) == g.told \/ e # {} \/ (l = "again" /\ g.at = entry)
           h(e) == [g EXCEPT !.step = "run", !.session = c, !.set = c, !.told = told(e)]
<1>1. g \in LegType /\ LegInv(l) /\ Client
  BY DEF IInv, TypeOK, LegType
<1>2. PICK e \in Evicted(l) :
          /\ leg' = [leg EXCEPT ![l] = h(e)]
          /\ live' = (live \ e) \cup {c}
  <2>1. PICK e \in Evicted(l), d \in [home : {leg[l].at}, no : {minted + 1}] :
            /\ live' = (live \ e) \cup {d}
            /\ leg' = [leg EXCEPT ![l].step = "run", ![l].session = d, ![l].set = d,
                          ![l].told = @ \/ e # {} \/ (l = "again" /\ leg[l].at = entry)]
    BY DEF ResolveCreated
  <2>2. d = c
    OBVIOUS
  <2> HIDE DEF c
  <2> QED
    BY <2>1, <2>2
<1>3. /\ UNCHANGED <<jar, sent, entry, owner, answer>>
      /\ minted' = minted + 1
      /\ g.step = "resolve"
  BY DEF ResolveCreated
<1>4. e # {} => g.cookie.home = g.at
  BY DEF Evicted, Recorded
<1>5. g.at \in Stack
  BY <1>1, <1>3 DEF LegInv, Chain
<1>6. minted \in Nat /\ c \in Cookie /\ c.home = g.at /\ c.no = minted + 1
  BY <1>5 DEF IInv, TypeOK, Cookie
<1>7. c # answer.before /\ c # NoCookie
  <2>1. answer.before.no <= minted /\ answer.before.no \in Nat
    BY <1>1 DEF Client, IInv, TypeOK, Cookie
  <2> QED
    BY <1>6, <2>1 DEF NoCookie
<1> HIDE DEF c, h
<1>8. /\ h(e) \in LegType
      /\ h(e).step = "run" /\ h(e).fb = g.fb
      /\ h(e).at = g.at /\ h(e).public = g.public /\ h(e).cookie = g.cookie
      /\ h(e).rem = g.rem /\ h(e).asked = g.asked /\ h(e).session = c
      /\ h(e).set = c /\ h(e).told = told(e) /\ h(e).status = g.status
  BY <1>1, <1>6 DEF LegType, h
<1>9. leg'[l] = h(e)
  BY <1>2, <1>8, LegUpdate DEF IInv
<1>10. LegInv(l)'
  <2>1. Chain(l)'
    BY <1>5, <1>8, <1>9 DEF Chain, Inside
  <2>2. Carried(l)'
    BY <1>1, <1>3, <1>5, <1>6, <1>8, <1>9 DEF LegInv, Carried, Serving
  <2>3. Kept(l)'
    BY <1>1, <1>3, <1>8, <1>9 DEF LegInv, Kept, Inside
  <2>4. Told(l)'
    <3>1. l = "again" => told(e)
      BY <1>1, <1>3 DEF LegInv, Told
    <3>2. l = "first" /\ told(e) => g.cookie # NoCookie
      BY <1>1, <1>3, <1>4, <1>5, StackAssumption DEF LegInv, Told, NoCookie
    <3> HIDE DEF told
    <3> QED
      BY <1>1, <1>3, <1>7, <1>8, <1>9, <3>1, <3>2 DEF LegInv, Told, Serving
  <2> QED
    BY <2>1, <2>2, <2>3, <2>4 DEF LegInv
<1>11. live' \subseteq Cookie
  BY <1>2, <1>6 DEF IInv, TypeOK
<1> QED
  BY <1>2, <1>3, <1>8, <1>10, <1>11, MoveFrame DEF IInv, TypeOK

\* The stacks that remain are those that were not asked, each once.
LEMMA Pool ==
    ASSUME IInv, NEW l \in Leg, leg[l].step = "resolve"
    PROVE  /\ leg[l].at \in Stack \ leg[l].asked
           /\ signalFallback(l) \in Seq(Stack)
           /\ Once(signalFallback(l))
           /\ Elements(signalFallback(l)) = Stack \ (leg[l].asked \cup {leg[l].at})
<1>1. leg[l] \in LegType /\ Chain(l)
  BY DEF IInv, TypeOK, LegType, LegInv
<1>2. leg[l].at \in Stack
  BY <1>1 DEF Chain
<1>3. CASE leg[l].fb # NoStack
  BY <1>1, <1>2, <1>3 DEF Chain, Inside, signalFallback, LegType
<1>4. CASE leg[l].fb = NoStack
  BY <1>1, <1>2, <1>4, OtherStacks DEF Chain, signalFallback
<1> QED
  BY <1>3, <1>4

\* The broker has no idle runner: the leg goes to the next stack, or ends after all.
LEMMA ResolveNoIdleHolds ==
    ASSUME IInv, NEW l \in Leg, ResolveNoIdle(l)
    PROVE  IInv'
<1> DEFINE g == leg[l]
           pool == signalFallback(l)
           asked == g.asked \cup {g.at}
           last == [g EXCEPT !.step = "done", !.status = "noIdle", !.asked = asked]
           next == [g EXCEPT !.step = "arrive", !.at = Head(pool), !.public = FALSE,
                             !.fb = Head(pool), !.rem = Tail(pool), !.asked = asked,
                             !.told = @ \/ l = "again"]
<1>1. g \in LegType /\ LegInv(l)
  BY DEF IInv, TypeOK, LegType
<1>2. /\ UNCHANGED <<jar, minted, sent, entry, owner, answer>>
      /\ g.step = "resolve"
      /\ live' \subseteq live
      /\ leg' = IF pool = <<>> THEN [leg EXCEPT ![l] = last]
                               ELSE [leg EXCEPT ![l] = next]
  BY DEF ResolveNoIdle
<1>3. live' \subseteq Cookie
  BY <1>2 DEF IInv, TypeOK
<1>4. /\ g.at \in Stack \ g.asked
      /\ pool \in Seq(Stack) /\ Once(pool)
      /\ Elements(pool) = Stack \ asked
  BY <1>2, Pool
<1>5. asked \subseteq Stack
  BY <1>1, <1>4 DEF LegType
<1> HIDE DEF pool, last, next
<1>6. CASE pool = <<>>
  <2>1. /\ last \in LegType
        /\ last.step = "done" /\ last.status = "noIdle" /\ last.asked = asked
        /\ last.cookie = g.cookie /\ last.set = g.set
    BY <1>1, <1>5 DEF LegType, Status, last
  <2>2. leg' = [leg EXCEPT ![l] = last] /\ leg'[l] = last
    BY <1>2, <1>6, <2>1, LegUpdate DEF IInv
  <2>3. asked = Stack
    BY <1>4, <1>5, <1>6 DEF Elements
  <2>4. LegInv(l)'
    <3>1. Chain(l)' /\ Kept(l)'
      BY <2>1, <2>2, <2>3 DEF Chain, Kept, Inside, Serving
    <3>2. Carried(l)'
      BY <1>1, <1>2, <2>1, <2>2 DEF LegInv, Carried, Serving
    <3>3. Told(l)'
      BY <1>1, <1>2, <2>1, <2>2 DEF LegInv, Told, Serving
    <3> QED
      BY <3>1, <3>2, <3>3 DEF LegInv
  <2> QED
    BY <1>2, <1>3, <2>1, <2>2, <2>4, MoveFrame DEF IInv, TypeOK
<1>7. CASE pool # <<>>
  <2>1. /\ Head(pool) \in Stack /\ Tail(pool) \in Seq(Stack) /\ Once(Tail(pool))
        /\ Elements(Tail(pool)) = Elements(pool) \ {Head(pool)}
    BY <1>4, <1>7, TailOfList
  <2>2. Head(pool) \in Elements(pool)
    BY <1>4, <1>7 DEF Elements
  <2>3. /\ next \in LegType
        /\ next.step = "arrive" /\ next.at = Head(pool) /\ ~next.public
        /\ next.fb = Head(pool) /\ next.rem = Tail(pool) /\ next.asked = asked
        /\ next.cookie = g.cookie /\ next.set = g.set
        /\ next.told = (g.told \/ l = "again")
    BY <1>1, <1>5, <2>1 DEF LegType, next
  <2>4. leg' = [leg EXCEPT ![l] = next] /\ leg'[l] = next
    BY <1>2, <1>7, <2>3, LegUpdate DEF IInv
  <2>5. LegInv(l)'
    <3>1. Chain(l)'
      BY <1>4, <2>1, <2>2, <2>3, <2>4, StackAssumption DEF Chain, Inside
    <3>2. Carried(l)'
      BY <1>1, <1>2, <2>3, <2>4 DEF LegInv, Carried, Serving
    <3>3. Kept(l)'
      <4>1. g.cookie.home \in Stack /\ l = "first" =>
                g.at = g.cookie.home \/ g.cookie.home \in g.asked
        BY <1>1, <1>2 DEF LegInv, Kept, Inside
      <4> QED
        BY <2>3, <2>4, <4>1 DEF Kept
    <3>4. Told(l)'
      BY <1>1, <1>2, <2>3, <2>4 DEF LegInv, Told, Serving, Leg
    <3> QED
      BY <3>1, <3>2, <3>3, <3>4 DEF LegInv
  <2> QED
    BY <1>2, <1>3, <2>3, <2>4, <2>5, MoveFrame DEF IInv, TypeOK
<1> QED
  BY <1>6, <1>7

-----------------------------------------------------------------------------
(* The runner and the client *)

\* The runner answers.
LEMMA ServedHolds ==
    ASSUME IInv, NEW l \in Leg, Served(l)
    PROVE  IInv'
<1> DEFINE g == leg[l]
           h == [g EXCEPT !.step = "done", !.status = "served"]
<1>1. g \in LegType /\ LegInv(l)
  BY DEF IInv, TypeOK, LegType
<1>2. /\ leg' = [leg EXCEPT ![l] = h]
      /\ UNCHANGED <<jar, live, minted, sent, entry, owner, answer>>
      /\ g.step = "run"
  BY DEF Served, Finish
<1> HIDE DEF h
<1>3. /\ h \in LegType
      /\ h.step = "done" /\ h.status = "served" /\ h.fb = g.fb
      /\ h.at = g.at /\ h.public = g.public /\ h.cookie = g.cookie
      /\ h.rem = g.rem /\ h.asked = g.asked /\ h.session = g.session
      /\ h.set = g.set /\ h.told = g.told
  BY <1>1 DEF LegType, Status, h
<1>4. leg'[l] = h
  BY <1>2, <1>3, LegUpdate DEF IInv
<1>5. LegInv(l)'
  <2>1. Chain(l)'
    BY <1>3, <1>4 DEF Chain, Inside
  <2>2. Carried(l)'
    BY <1>1, <1>2, <1>3, <1>4 DEF LegInv, Carried, Serving
  <2>3. Kept(l)'
    BY <1>1, <1>2, <1>3, <1>4 DEF LegInv, Kept, Serving
  <2>4. Told(l)'
    BY <1>1, <1>2, <1>3, <1>4 DEF LegInv, Told, Serving
  <2> QED
    BY <2>1, <2>2, <2>3, <2>4 DEF LegInv
<1> QED
  BY <1>2, <1>3, <1>5, MoveFrame DEF IInv, TypeOK

\* The runner does not answer.
LEMMA RunFailsHolds ==
    ASSUME IInv, NEW l \in Leg, RunFails(l)
    PROVE  IInv'
<1> DEFINE g == leg[l]
           set == IF l = "again" /\ g.at = entry THEN g.set ELSE NoCookie
           h == [g EXCEPT !.step = "done", !.status = "gateway",
                          !.told = (l = "again"), !.set = set]
<1>1. g \in LegType
  BY DEF IInv, TypeOK, LegType
<1>2. /\ leg' = [leg EXCEPT ![l] = h]
      /\ UNCHANGED <<jar, live, minted, sent, entry, owner, answer>>
      /\ g.step = "run"
  BY DEF RunFails
<1>3. set \in {g.set, NoCookie} /\ set \in Cookie
  BY <1>1, NullTypes DEF LegType
<1> HIDE DEF h, set
<1>4. /\ h \in LegType
      /\ h.step = "done" /\ h.status = "gateway"
      /\ h.cookie = g.cookie /\ h.set = set
  BY <1>1, <1>3 DEF LegType, Status, h
<1>5. live' \subseteq Cookie
  BY <1>2 DEF IInv, TypeOK
<1> QED
  BY <1>2, <1>3, <1>4, <1>5, FailHolds

\* A leg that is gone has nothing to say.
LEMMA NoLegHolds ==
    ASSUME NEW l \in Leg, leg'[l] = NoLeg, minted' \in Nat
    PROVE  LegInv(l)'
<1>1. /\ NoLeg.step = "none" /\ NoLeg.set = NoCookie /\ NoLeg.cookie = NoCookie
      /\ NoCookie.no = 0
  BY DEF NoLeg, NoCookie
<1> QED
  BY <1>1 DEF LegInv, Chain, Carried, Kept, Told, Inside, Serving

\* A leg at which the client looks no longer.
LEMMA LeftLeg ==
    ASSUME NEW k \in Leg, LegInv(k), UNCHANGED <<entry, minted>>, leg'[k] = leg[k],
           answer'.status # "waiting"
    PROVE  LegInv(k)'
  BY DEF LegInv, Chain, Carried, Kept, Told, Inside, Serving

\* The client gets an answer, and perhaps a cookie.
LEMMA DeliverHolds ==
    ASSUME IInv, NEW l \in Leg, Deliver(l)
    PROVE  IInv'
<1> DEFINE g == leg[l]
<1>1. g \in LegType /\ LegInv(l) /\ Client
  BY DEF IInv, TypeOK, LegType
<1>2. /\ answer.status = "waiting" /\ g.step = "done"
      /\ jar' = IF g.set # NoCookie THEN g.set ELSE jar
      /\ answer' = [answer EXCEPT !.status = g.status, !.leg = l,
                                  !.session = g.session, !.told = g.told,
                                  !.asked = g.asked]
      /\ leg' = [leg EXCEPT ![l] = NoLeg]
      /\ UNCHANGED <<live, minted, sent, entry, owner>>
  BY DEF Deliver
<1>3. answer \in [status : Status \cup {"none", "waiting"}, leg : Leg,
                  before : Cookie, session : Cookie, told : BOOLEAN,
                  asked : SUBSET Stack]
  BY DEF IInv, TypeOK
<1>4. /\ answer'.status = g.status /\ answer'.leg = l /\ answer'.session = g.session
      /\ answer'.told = g.told /\ answer'.asked = g.asked
      /\ answer'.before = answer.before
  BY <1>2, <1>3
<1>5. answer' \in [status : Status \cup {"none", "waiting"}, leg : Leg,
                   before : Cookie, session : Cookie, told : BOOLEAN,
                   asked : SUBSET Stack]
  BY <1>1, <1>2, <1>3 DEF LegType
<1>6. g.status # "waiting"
  BY <1>1 DEF LegType, Status
<1>7. TypeOK'
  <2>1. leg' \in [Leg -> LegType] /\ jar' \in Cookie
    BY <1>1, <1>2, NullTypes, LegUpdate DEF IInv, TypeOK, LegType
  <2> QED
    BY <1>2, <1>5, <2>1 DEF IInv, TypeOK, LegType
<1>8. ASSUME NEW k \in Leg PROVE LegInv(k)'
  <2>1. CASE k = l
    <3>1. leg'[l] = NoLeg /\ minted' \in Nat
      BY <1>2 DEF IInv, TypeOK
    <3> QED
      BY <2>1, <3>1, NoLegHolds
  <2>2. CASE k # l
    <3>1. leg'[k] = leg[k] /\ LegInv(k)
      BY <1>2, <2>2 DEF IInv, TypeOK
    <3> QED
      BY <1>2, <1>4, <1>6, <3>1, LeftLeg
  <2> QED
    BY <2>1, <2>2
<1>9. Client'
  BY <1>1, <1>2, <1>4, <1>6 DEF LegInv, Carried, Client
<1>10. NoIdleIsTruthful'
  BY <1>1, <1>2, <1>4 DEF LegInv, Chain, NoIdleIsTruthful
<1>11. ASSUME g.status = "served"
       PROVE  /\ Serving(g) /\ g.session.home = g.at /\ g.at \in Stack
              /\ g.set = g.session \/ (g.set = NoCookie /\ g.session = g.cookie)
              /\ g.set = NoCookie => l = "first"
              /\ g.session # NoCookie
              /\ l = "first" => g.cookie = answer.before
              /\ jar = answer.before
  <2>1. /\ Serving(g) /\ g.session.home = g.at /\ g.at \in Stack
        /\ g.set = g.session \/ (g.set = NoCookie /\ g.session = g.cookie)
    BY <1>1, <1>2, <1>11 DEF LegInv, Carried, Serving
  <2>2. g.session # NoCookie
    BY <2>1, StackAssumption DEF NoCookie
  <2>3. g.set = NoCookie => l = "first"
    BY <1>1, <2>1, <2>2 DEF LegInv, Carried, Leg
  <2> QED
    BY <1>1, <1>2, <2>1, <2>2, <2>3 DEF LegInv, Carried, Client
<1>12. JarNamesServer'
  BY <1>2, <1>4, <1>11 DEF JarNamesServer
<1>13. SessionKeepsStack'
  <2> SUFFICES ASSUME g.status = "served", answer.before.home \in Stack,
                      g.session.home # answer.before.home
               PROVE  g.told \/ answer.before.home \in g.asked
    BY <1>4 DEF SessionKeepsStack
  <2>1. CASE l = "first"
    BY <1>1, <1>11, <2>1 DEF LegInv, Kept
  <2>2. CASE l = "again"
    BY <1>1, <1>11, <2>2 DEF LegInv, Told
  <2> QED
    BY <2>1, <2>2 DEF Leg
<1>14. ReassignIsTold'
  <2> SUFFICES ASSUME g.status = "served"
               PROVE  /\ l = "again" => g.told
                      /\ g.told => answer.before # NoCookie /\ g.session # answer.before
    BY <1>4 DEF ReassignIsTold
  <2> QED
    BY <1>1, <1>2, <1>11 DEF LegInv, Told, Leg
<1> QED
  BY <1>7, <1>8, <1>9, <1>10, <1>12, <1>13, <1>14 DEF IInv, Safe

\* A new request: no leg of an earlier one is left.
LEMMA SendHolds ==
    ASSUME IInv, NEW s \in Stack, Send(s)
    PROVE  IInv'
<1> DEFINE h(fb) == [NoLeg EXCEPT !.step = "arrive", !.at = s, !.public = TRUE,
                                  !.cookie = jar, !.fb = fb]
<1>1. PICK fb \in {NoStack, s} : leg' = [leg EXCEPT !["first"] = h(fb)]
  BY DEF Send
<1>2. /\ sent' = sent + 1 /\ sent < MaxRequests
      /\ entry' = s /\ owner' = NoStack
      /\ \A k \in Leg : leg[k].step = "none"
      /\ answer' = [NoAnswer EXCEPT !.status = "waiting", !.before = jar]
      /\ UNCHANGED <<jar, live, minted>>
  BY DEF Send
<1>3. jar \in Cookie /\ minted \in Nat /\ Client
  BY DEF IInv, TypeOK
<1>4. /\ answer'.status = "waiting" /\ answer'.before = jar
      /\ answer' \in [status : Status \cup {"none", "waiting"}, leg : Leg,
                      before : Cookie, session : Cookie, told : BOOLEAN,
                      asked : SUBSET Stack]
  BY <1>2, <1>3, NullTypes DEF NoAnswer, Leg
<1>5. /\ h(fb) \in LegType
      /\ h(fb).step = "arrive" /\ h(fb).at = s /\ h(fb).public /\ h(fb).asked = {}
      /\ h(fb).cookie = jar /\ h(fb).set = NoCookie /\ ~h(fb).told
      /\ NoCookie.no = 0
  BY <1>3, NullTypes DEF NoLeg, LegType, NoCookie
<1> HIDE DEF h
<1>6. /\ leg' \in [Leg -> LegType] /\ leg'["first"] = h(fb)
      /\ leg'["again"] = leg["again"]
  BY <1>1, <1>5, LegUpdate DEF IInv, Leg
<1>7. TypeOK'
  <2>1. sent' \in 0..MaxRequests
    BY <1>2, BoundAssumption DEF IInv, TypeOK
  <2> QED
    BY <1>2, <1>4, <1>6, <2>1 DEF IInv, TypeOK, LegType
<1>8. LegInv("first")'
  BY <1>2, <1>3, <1>4, <1>5, <1>6 DEF LegInv, Chain, Carried, Kept, Told, Inside,
     Serving
<1>9. LegInv("again")'
  <2>1. LegInv("again") /\ leg["again"].step = "none"
    BY <1>2 DEF IInv, Leg
  <2> QED
    BY <1>2, <1>6, <2>1 DEF LegInv, Chain, Carried, Kept, Told, Inside, Serving
<1>10. Client'
  BY <1>2, <1>3, <1>4 DEF Client
<1>11. Safe'
  BY <1>4 DEF Safe, NoIdleIsTruthful, JarNamesServer, SessionKeepsStack, ReassignIsTold
<1> QED
  BY <1>7, <1>8, <1>9, <1>10, <1>11 DEF IInv, Leg

\* The second leg begins at the entry, without a cookie, for a client that had one.
LEMMA ReassignHolds ==
    ASSUME IInv, Reassign
    PROVE  IInv'
<1> DEFINE h == [NoLeg EXCEPT !.step = "resolve", !.at = entry]
<1>1. /\ leg' = [leg EXCEPT !["again"] = h]
      /\ UNCHANGED <<jar, live, minted, sent, entry, owner, answer>>
      /\ answer.status = "waiting" /\ owner # NoStack
  BY DEF Reassign
<1>2. entry \in Stack /\ answer.before # NoCookie /\ minted \in Nat
  BY <1>1 DEF IInv, Client, TypeOK
<1>3. /\ h \in LegType
      /\ h.step = "resolve" /\ h.at = entry /\ h.asked = {} /\ h.fb = NoStack
      /\ h.cookie = NoCookie /\ h.set = NoCookie /\ NoCookie.no = 0
  BY <1>2, NullTypes DEF NoLeg, LegType, NoCookie
<1> HIDE DEF h
<1>4. leg'["again"] = h
  BY <1>1, <1>3, LegUpdate DEF IInv, Leg
<1>5. LegInv("again")'
  BY <1>1, <1>2, <1>3, <1>4 DEF LegInv, Chain, Carried, Kept, Told, Inside, Serving
<1> QED
  BY <1>1, <1>3, <1>5, MoveFrame DEF IInv, TypeOK, Leg

\* The first leg is forgotten.
LEMMA ForgetHolds ==
    ASSUME IInv, Forget
    PROVE  IInv'
<1>1. /\ leg' = [leg EXCEPT !["first"] = NoLeg]
      /\ UNCHANGED <<jar, live, minted, sent, entry, owner, answer>>
  BY DEF Forget
<1>2. leg'["first"] = NoLeg
  BY <1>1, NullTypes, LegUpdate DEF IInv, Leg
<1>3. LegInv("first")'
  BY <1>1, <1>2, NoLegHolds DEF IInv, TypeOK, Leg
<1> QED
  BY <1>1, <1>3, NullTypes, MoveFrame DEF IInv, TypeOK, Leg

\* A session that ends is no business of a request; nor is a step of others.
LEMMA SessionEndsHolds ==
    ASSUME IInv, UNCHANGED <<jar, minted, sent, entry, owner, leg, answer>>,
           live' \subseteq live
    PROVE  IInv'
<1>1. TypeOK'
  BY DEF IInv, TypeOK
<1>2. \A l \in Leg : LegInv(l)'
  BY DEF IInv, LegInv, Chain, Carried, Kept, Told, Inside, Serving
<1>3. Client' /\ Safe'
  BY DEF IInv, Client, Safe, NoIdleIsTruthful, JarNamesServer, SessionKeepsStack,
     ReassignIsTold
<1> QED
  BY <1>1, <1>2, <1>3 DEF IInv

\* Nothing is under way at first, and a session of an earlier visit has the number 0.
LEMMA InitHolds == Init => IInv
<1> SUFFICES ASSUME Init PROVE IInv
  OBVIOUS
<1>1. jar \in Cookie /\ jar.no = 0
  BY DEF Init, Cookie, NoCookie
<1>2. /\ NoAnswer.status = "none" /\ NoAnswer.before = NoCookie /\ NoCookie.no = 0
      /\ NoAnswer \in [status : Status \cup {"none", "waiting"}, leg : Leg,
                       before : Cookie, session : Cookie, told : BOOLEAN,
                       asked : SUBSET Stack]
  BY NullTypes DEF NoAnswer, NoCookie, Leg
<1>3. \A l \in Leg : leg[l] = NoLeg
  BY DEF Init
<1>4. TypeOK
  <2>1. leg \in [Leg -> LegType]
    BY NullTypes DEF Init
  <2>2. sent \in 0..MaxRequests
    BY BoundAssumption DEF Init
  <2>3. live \subseteq Cookie
    BY <1>1 DEF Init
  <2> QED
    BY <1>1, <1>2, <2>1, <2>2, <2>3 DEF Init, TypeOK, LegType
<1>5. ASSUME NEW l \in Leg PROVE LegInv(l)
  <2>1. /\ NoLeg.step = "none" /\ NoLeg.set = NoCookie /\ NoLeg.cookie = NoCookie
        /\ NoCookie.no = 0 /\ minted = 0
    BY DEF NoLeg, NoCookie, Init
  <2> QED
    BY <1>3, <2>1 DEF LegInv, Chain, Carried, Kept, Told, Inside, Serving
<1>6. Client /\ Safe
  BY <1>1, <1>2 DEF Init, Client, Safe, NoIdleIsTruthful, JarNamesServer,
     SessionKeepsStack, ReassignIsTold
<1> QED
  BY <1>4, <1>5, <1>6 DEF IInv

\* Every step keeps the invariant.
LEMMA StepHolds == IInv /\ [Next]_vars => IInv'
<1> SUFFICES ASSUME IInv, [Next]_vars PROVE IInv'
  OBVIOUS
<1>1. CASE UNCHANGED vars \/ \E c \in live : SessionEnds(c)
  BY <1>1, SessionEndsHolds DEF vars, SessionEnds
<1>2. CASE Reassign \/ Forget \/ \E s \in Stack : Send(s)
  BY <1>2, ReassignHolds, ForgetHolds, SendHolds
<1>3. ASSUME NEW l \in Leg, Move(l) \/ Deliver(l) PROVE IInv'
  BY <1>3, ArriveHereHolds, RejectHolds, ForwardOwnerHolds, ResolveFoundHolds,
     ResolveCreatedHolds, ResolveNoIdleHolds, ServedHolds, RunFailsHolds,
     DeliverHolds DEF Move
<1> QED
  BY <1>1, <1>2, <1>3 DEF Next

-----------------------------------------------------------------------------
(* Theorems *)

\* In every behaviour each leg knows what the invariant says.
THEOREM Invariance == Spec => []IInv
  BY InitHolds, StepHolds, PTL DEF Spec

\* Every variable keeps its type: a request is only ever at a stack of the list
\* (decide_arrival, signalFallback).
THEOREM TypeCorrect == Spec => []TypeOK
<1>1. IInv => TypeOK
  BY DEF IInv
<1> QED
  BY <1>1, Invariance, PTL

\* However many stacks there are, no broker is asked twice on the way of a leg
\* (signalFallback, stacklist.Parse).
THEOREM AsksEachOnce == Spec => []AskedOnce
<1>1. IInv => AskedOnce
  BY Pool DEF IInv, AskedOnce
<1> QED
  BY <1>1, Invariance, PTL

\* A client is told that there is no idle runner only when every stack's broker has
\* said so (signalFallback, @forward_fallback).
THEOREM NoIdleMeansAll == Spec => []NoIdleIsTruthful
<1>1. IInv => NoIdleIsTruthful
  BY DEF IInv, Safe
<1> QED
  BY <1>1, Invariance, PTL

\* A client that is served has the cookie of the session that serves it (/api/,
\* resolve_core.decide, @reassign_session).
THEOREM CookieNamesServer == Spec => []JarNamesServer
<1>1. IInv => JarNamesServer
  BY DEF IInv, Safe
<1> QED
  BY <1>1, Invariance, PTL

\* A request leaves the stack of its session only when that stack was asked or the
\* client is told (decide_arrival, @forward_owner).
THEOREM StaysWithItsStack == Spec => []SessionKeepsStack
<1>1. IInv => SessionKeepsStack
  BY DEF IInv, Safe
<1> QED
  BY <1>1, Invariance, PTL

\* X-Session-Reassigned comes with every reassignment, and only to a client that had
\* a session and is given another one (mark_reassigned, decide).
THEOREM SignalIsTrue == Spec => []ReassignIsTold
<1>1. IInv => ReassignIsTold
  BY DEF IInv, Safe
<1> QED
  BY <1>1, Invariance, PTL

=============================================================================
