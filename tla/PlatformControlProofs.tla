------------------------- MODULE PlatformControlProofs -------------------------
(* Proofs about PlatformControl and AuditTrail, for every set of              *)
(* organizations, connections, requests and event identifiers, and every      *)
(* page limit the reader may have.                                            *)
EXTENDS PlatformControl, FiniteSetTheorems, WellFoundedInduction, TLAPS

-----------------------------------------------------------------------------
(* The inductive invariant.                                                  *)

MadeCalls ==
  [claims : {"read", "manage"}, subject : BOOLEAN, without : Nat,
   change : {"nothing", "policy", "settings"}, audited : BOOLEAN, refusals : SUBSET Nat]

CheckedCalls == {x.call : x \in Calls}

RequestStates ==
  {New}
  \cup [pc : {"find"}, org : Orgs, connection : Connections \cup {None}, platform : Platforms,
        call : CheckedCalls]
  \cup [pc : {"sign"}, org : Orgs, connection : Connections \cup {None}, platform : Platforms,
        call : MadeCalls]
  \cup [pc : {"wait", "served"}, org : Orgs,
        call : [audited : BOOLEAN, refusals : SUBSET Nat]]
  \cup [pc : {"audit"}, org : Orgs, result : {"succeeded", "failed"}, code : Nat]
  \cup [pc : {"done"}, code : Nat \cup {None}]

Messages ==
  [request : Requests, change : {"nothing", "policy", "settings"},
   assertion : [org : Orgs, connection : Connections \cup {None}, action : {"read", "manage"},
                issued : Nat, exp : Nat]]

Events ==
  [id : EventIds, org : Orgs, request : Requests \cup {None}, result : {"succeeded", "failed"}]

Walks ==
  {Resting}
  \cup [pc : {"walking", "complete"}, org : Orgs, after : Nat, found : SUBSET EventIds,
        pages : Seq(SUBSET EventIds)]

\* The tables, the calls on their way, the requests and the reader.
ControlTypeOK ==
  /\ now \in Nat
  /\ sent \subseteq Messages /\ applied \subseteq Messages
  /\ events \subseteq Events
  /\ req \in [Requests -> RequestStates]

TrailTypeOK == walk \in Walks

\* A request of a use case that names a connection has one, and it is of the stated
\* organization once it was found.
Owned(q) ==
  /\ q.pc = "find" => (q.call.names = "connection" <=> q.connection # None)
  /\ q.pc = "sign" =>
       /\ q.connection # None => OrgOf[q.connection] = q.org
       /\ q.call.audited => q.call.change = "policy" /\ q.connection # None
       /\ q.call.change = "policy" => q.call.audited

ConnectionsOwned == \A r \in Requests : Owned(req[r])

\* A call names a resource of the organization that was authorized, although the
\* connection was looked up in an earlier transaction.
OwnResourcesOnly ==
  \A m \in sent \cup applied :
    m.assertion.connection # None => OrgOf[m.assertion.connection] = m.assertion.org

\* A call that is on its way or took effect was made by a request that got that far;
\* and one that changes a policy is remembered by its request, until the event is
\* there or the answer says neither "done" nor "failed".
Traced(m, q, trail) ==
  /\ q.pc \notin {"new", "find", "sign"}
  /\ m.change = "policy" =>
       /\ m.assertion.connection # None
       /\ q.pc \in {"wait", "served"} => q.call.audited /\ q.org = m.assertion.org
       /\ q.pc = "audit" => q.org = m.assertion.org
       /\ q.pc = "done" /\ q.code \in {200, 503} =>
            \E e \in trail : e.request = m.request /\ e.org = m.assertion.org

CallsTraced == \A m \in sent \cup applied : Traced(m, req[m.request], events)

\* What an audited request waits for changes something.
WaitsForChange ==
  \A m \in sent : req[m.request].pc = "wait" /\ req[m.request].call.audited => m.change # "nothing"

\* The platform made the change that an audited request is about to report as done.
Reporting(q) ==
  \/ q.pc = "served" /\ q.call.audited
  \/ q.pc = "audit" /\ q.result = "succeeded"

SuccessIsReal == \A r \in Requests : Reporting(req[r]) => \E m \in applied : m.request = r

\* A request writes its event as it ends, and only the one.
EventsApart ==
  \A e \in events : e.request # None =>
    /\ req[e.request].pc = "done"
    /\ \A f \in events : f.request = e.request => f = e
    /\ e.result = "succeeded" => \E m \in applied : m.request = e.request

ControlIInv ==
  /\ ControlTypeOK /\ ConnectionsOwned /\ OwnResourcesOnly
  /\ CallsTraced /\ WaitsForChange /\ SuccessIsReal /\ EventsApart

Shown == UNION {walk.pages[n] : n \in DOMAIN walk.pages}

\* The cursor divides what the reader was shown from what is left: nothing shown is
\* below it, and what was there from the start is shown or below it.
CursorDivides ==
  walk # Resting =>
    /\ walk.found \subseteq Ids(walk.org)
    /\ \A m, n \in DOMAIN walk.pages : m # n => walk.pages[m] \cap walk.pages[n] = {}
    /\ walk.pc = "walking" =>
         /\ \A n \in DOMAIN walk.pages : \A i \in walk.pages[n] : i >= walk.after
         /\ \A i \in walk.found : i \in Shown \/ i < walk.after
    /\ walk.pc = "complete" => walk.found \subseteq Shown

TrailIInv == TrailTypeOK /\ CursorDivides

-----------------------------------------------------------------------------
(* Sets of identifiers.                                                      *)

\* A set of natural numbers that is not empty has a least member.
LEMMA LeastNatural ==
  ASSUME NEW S \in SUBSET Nat, S # {}
  PROVE  \E x \in S : \A y \in S : x <= y
<1>1. PICK x \in S : \A y \in S : ~(<<y, x>> \in OpToRel(<, Nat))
  BY NatLessThanWellFounded, WFMin
<1>2. \A y \in S : ~(y < x)
  BY <1>1 DEF OpToRel
<1> QED BY <1>2

\* A finite one has a greatest: the member that fewest members exceed.
LEMMA GreatestNatural ==
  ASSUME NEW S \in SUBSET Nat, S # {}, IsFiniteSet(S)
  PROVE  \E x \in S : \A y \in S : x >= y
<1> DEFINE Above(x) == {y \in S : y > x}
           Sizes == {Cardinality(Above(x)) : x \in S}
<1>1. \A x \in S : IsFiniteSet(Above(x)) /\ Cardinality(Above(x)) \in Nat
  BY FS_Subset, FS_CardinalityType
<1>2. PICK n \in Sizes : \A m \in Sizes : n <= m
  <2>1. Sizes \in SUBSET Nat /\ Sizes # {}
    BY <1>1
  <2> HIDE DEF Sizes
  <2> QED BY <2>1, LeastNatural
<1>3. PICK x \in S : n = Cardinality(Above(x))
  BY <1>2
<1>4. ASSUME NEW y \in S, y > x PROVE FALSE
  <2>1. Above(y) \subseteq Above(x) \ {y} /\ y \in Above(x)
    <3>1. x \in Nat /\ y \in Nat /\ \A z \in S : z \in Nat
      OBVIOUS
    <3>2. \A z \in S : z > y => z > x /\ z # y
      BY <1>4, <3>1
    <3> QED BY <1>4, <3>2
  <2>2. /\ IsFiniteSet(Above(x) \ {y})
        /\ Cardinality(Above(x) \ {y}) = Cardinality(Above(x)) - 1
    BY <1>1, <2>1, FS_RemoveElement
  <2>3. Cardinality(Above(y)) <= Cardinality(Above(x) \ {y})
    BY <2>1, <2>2, FS_Subset
  <2>4. n <= Cardinality(Above(y))
    BY <1>2
  <2>5. Cardinality(Above(x)) \in Nat /\ Cardinality(Above(y)) \in Nat
    BY <1>1
  <2> HIDE DEF Above
  <2> QED BY <1>3, <2>2, <2>3, <2>4, <2>5
<1>5. \A y \in S : ~(y > x) /\ x \in Nat /\ y \in Nat
  BY <1>4
<1> QED BY <1>5

\* Min and Max are what they are called.
LEMMA MinIsLeast ==
  ASSUME NEW S \in SUBSET Nat, S # {}
  PROVE  Min(S) \in S /\ \A y \in S : Min(S) <= y
BY LeastNatural DEF Min

\* The same for Max, of a finite set.
LEMMA MaxIsGreatest ==
  ASSUME NEW S \in SUBSET Nat, S # {}, IsFiniteSet(S)
  PROVE  Max(S) \in S /\ \A y \in S : Max(S) >= y
BY GreatestNatural DEF Max

\* No cursor is above every identifier.
LEMMA NoCursorAbove == NoCursor \in Nat /\ \A i \in EventIds : i < NoCursor
<1>1. Max(EventIds) \in EventIds /\ \A y \in EventIds : Max(EventIds) >= y
  BY TrailAssumption, MaxIsGreatest
<1>2. Max(EventIds) \in Nat /\ \A y \in EventIds : y \in Nat
  BY <1>1, TrailAssumption
<1>3. ASSUME NEW i \in EventIds PROVE i < Max(EventIds) + 1
  <2>1. Max(EventIds) >= i /\ i \in Nat /\ Max(EventIds) \in Nat
    BY <1>1, <1>2
  <2> QED BY <2>1
<1> QED BY <1>2, <1>3 DEF NoCursor

-----------------------------------------------------------------------------
(* Pages.                                                                    *)

\* The first rows are those above any of them, too.
LEMMA FirstIsUpward ==
  ASSUME NEW S \in SUBSET Nat, IsFiniteSet(S), NEW n \in Nat,
         NEW i \in First(S, n), NEW j \in S, j > i
  PROVE  j \in First(S, n)
<1> DEFINE Above(x) == {y \in S : y > x}
<1>1. Above(j) \subseteq Above(i) /\ IsFiniteSet(Above(i))
  <2>1. i \in Nat /\ j \in Nat /\ \A z \in S : z \in Nat
    BY DEF First
  <2>2. \A z \in S : z > j => z > i
    BY <2>1
  <2> QED BY <2>2, FS_Subset
<1>2. /\ Cardinality(Above(j)) \in Nat /\ Cardinality(Above(i)) \in Nat
      /\ Cardinality(Above(j)) <= Cardinality(Above(i))
  BY <1>1, FS_Subset, FS_CardinalityType
<1>3. Cardinality(Above(i)) < n
  BY DEF First
<1> QED BY <1>2, <1>3 DEF First

\* The first n rows are fewer than n only when there are no others.
LEMMA FirstIsAll ==
  ASSUME NEW S \in SUBSET Nat, IsFiniteSet(S), NEW n \in Nat, Cardinality(First(S, n)) < n
  PROVE  First(S, n) = S
<1> SUFFICES ASSUME S \ First(S, n) # {} PROVE FALSE
  BY DEF First
<1> DEFINE Rest == S \ First(S, n)
           Above(x) == {y \in S : y > x}
<1>1. Rest \subseteq Nat /\ IsFiniteSet(Rest)
  BY FS_Subset
<1>2. PICK i \in Rest : \A y \in Rest : i >= y
  BY <1>1, GreatestNatural
<1>3. Above(i) \subseteq First(S, n)
  BY <1>1, <1>2
<1>4. First(S, n) \subseteq S /\ IsFiniteSet(First(S, n))
  BY FS_Subset DEF First
<1>5. /\ Cardinality(Above(i)) \in Nat /\ Cardinality(First(S, n)) \in Nat
      /\ Cardinality(Above(i)) <= Cardinality(First(S, n))
  BY <1>3, <1>4, FS_Subset, FS_CardinalityType
<1>6. ~(Cardinality(Above(i)) < n)
  BY <1>2 DEF First
<1> QED BY <1>5, <1>6

\* All of at most n rows are the first n.
LEMMA FewAreFirst ==
  ASSUME NEW S \in SUBSET Nat, IsFiniteSet(S), NEW n \in Nat, Cardinality(S) <= n
  PROVE  First(S, n) = S
<1> SUFFICES ASSUME NEW i \in S PROVE Cardinality({j \in S : j > i}) < n
  BY DEF First
<1>1. {j \in S : j > i} \subseteq S \ {i}
  OBVIOUS
<1>2. /\ IsFiniteSet(S \ {i}) /\ Cardinality(S) \in Nat
      /\ Cardinality(S \ {i}) = Cardinality(S) - 1
  BY FS_RemoveElement, FS_CardinalityType
<1>3. /\ Cardinality({j \in S : j > i}) <= Cardinality(S \ {i})
      /\ Cardinality({j \in S : j > i}) \in Nat
  BY <1>1, <1>2, FS_Subset, FS_CardinalityType
<1> QED BY <1>2, <1>3

\* The first of any rows are at least the greatest.
LEMMA FirstIsSome ==
  ASSUME NEW S \in SUBSET Nat, IsFiniteSet(S), S # {}, NEW n \in Nat \ {0}
  PROVE  First(S, n) # {}
<1>1. PICK x \in S : \A y \in S : x >= y
  BY GreatestNatural
<1>2. {y \in S : y > x} = {}
  <2>1. x \in Nat /\ \A y \in S : y \in Nat
    OBVIOUS
  <2>2. \A y \in S : ~(y > x)
    BY <1>1, <2>1
  <2> QED BY <2>2
<1>3. x \in First(S, n)
  BY <1>2, FS_EmptySet DEF First
<1> QED BY <1>3

\* A page shows rows below the cursor; if it names a next page, what it leaves out is
\* below the new cursor, and if not, it leaves out nothing.
LEMMA PageDivides ==
  ASSUME NEW org, NEW after \in Nat, Ids(org) \subseteq EventIds
  PROVE  LET page == Page(org, after) IN
         /\ page.items \subseteq {i \in Ids(org) : i < after}
         /\ \/ /\ page.next \in EventIds /\ page.next < after
               /\ \A i \in page.items : page.next <= i
               /\ \A i \in Ids(org) : i < after => i \in page.items \/ i < page.next
            \/ /\ page.next = NoCursor
               /\ page.items = {i \in Ids(org) : i < after}
<1> DEFINE rows == {i \in Ids(org) : i < after}
           entries == First(rows, PageLimit + 1)
           items == First(entries, PageLimit)
           page == Page(org, after)
<1>1. PageLimit \in Nat \ {0} /\ PageLimit + 1 \in Nat
  BY TrailAssumption
<1>2. rows \in SUBSET Nat /\ rows \subseteq EventIds /\ IsFiniteSet(rows)
  BY TrailAssumption, FS_Subset
<1>3. entries \in SUBSET Nat /\ entries \subseteq rows /\ IsFiniteSet(entries)
  BY <1>2, FS_Subset DEF First
<1>4. items \in SUBSET Nat /\ items \subseteq entries /\ IsFiniteSet(items)
  <2> HIDE DEF entries
  <2>1. items \subseteq entries
    BY DEF First
  <2> HIDE DEF items
  <2> QED BY <1>3, <2>1, FS_Subset
<1>5. /\ page.items = items
      /\ page.next = IF Cardinality(entries) > PageLimit THEN Min(items) ELSE NoCursor
  BY DEF Page, Entries
<1>6. Cardinality(entries) \in Nat
  BY <1>3, FS_CardinalityType
<1> HIDE DEF rows, entries, items, page
<1>7. CASE Cardinality(entries) > PageLimit
  <2>1. entries # {}
    BY <1>1, <1>6, <1>7, FS_EmptySet
  <2>2. items # {}
    BY <1>1, <1>3, <2>1, FirstIsSome DEF items
  <2>3. Min(items) \in items /\ \A i \in items : Min(items) <= i
    BY <1>4, <2>2, MinIsLeast
  <2>4. ASSUME NEW i \in rows, i > Min(items) PROVE i \in items
    <3>1. i \in entries
      BY <1>1, <1>2, <1>4, <2>3, <2>4, FirstIsUpward DEF entries
    <3> QED BY <1>1, <1>3, <2>3, <2>4, <3>1, FirstIsUpward DEF items
  <2>5. \A i \in rows : i \in items \/ i < Min(items)
    <3>1. Min(items) \in Nat /\ \A i \in rows : i \in Nat
      BY <1>2, <1>4, <2>3
    <3> QED BY <2>3, <2>4, <3>1
  <2> QED BY <1>2, <1>3, <1>4, <1>5, <1>7, <2>3, <2>5 DEF page, rows
<1>8. CASE ~(Cardinality(entries) > PageLimit)
  <2>1. entries = rows
    BY <1>1, <1>2, <1>6, <1>8, FirstIsAll DEF entries
  <2>2. items = entries
    BY <1>1, <1>3, <1>6, <1>8, FewAreFirst DEF items
  <2> QED BY <1>5, <1>8, <2>1, <2>2 DEF page, rows
<1> QED BY <1>7, <1>8

-----------------------------------------------------------------------------
(* The walk.                                                                 *)

\* What a reader finds are identifiers of events.
LEMMA IdsShape ==
  ASSUME ControlTypeOK
  PROVE  \A o : Ids(o) \subseteq EventIds
BY DEF ControlTypeOK, Events, Ids

\* Events that are written while a walk is under way disturb it nowhere: the cursor
\* speaks only of what there was before.
LEMMA WritersDisturbNoWalk ==
  ASSUME TrailIInv, events \subseteq events', UNCHANGED walk
  PROVE  TrailIInv'
<1>1. \A o : Ids(o) \subseteq Ids(o)'
  BY DEF Ids
<1> QED BY <1>1 DEF TrailIInv, TrailTypeOK, CursorDivides, Shown, Ids

\* A walk begins with everything below its cursor.
LEMMA BeginWalkKeeps ==
  ASSUME ControlTypeOK, TrailIInv, NEW o \in Orgs, BeginWalk(o)
  PROVE  TrailIInv'
<1> DEFINE w == [pc |-> "walking", org |-> o, after |-> NoCursor, found |-> Ids(o), pages |-> <<>>]
<1>1. walk' = w /\ UNCHANGED events
  BY DEF BeginWalk
<1>2. Ids(o) \subseteq EventIds /\ NoCursor \in Nat
  BY IdsShape, NoCursorAbove
<1>3. walk' \in Walks
  <2>1. <<>> \in Seq(SUBSET EventIds)
    OBVIOUS
  <2> QED BY <1>1, <1>2, <2>1 DEF Walks
<1>4. Ids(o)' = Ids(o)
  BY <1>1 DEF Ids
<1>5. \A i \in Ids(o) : i < NoCursor
  BY <1>2, NoCursorAbove
<1>6. CursorDivides'
  BY <1>1, <1>4, <1>5 DEF CursorDivides, Ids, Shown
<1> QED BY <1>3, <1>6 DEF TrailIInv, TrailTypeOK

\* The next page is below all that was shown, and leaves out only what is below it.
LEMMA NextPageKeeps ==
  ASSUME ControlTypeOK, TrailIInv, NextPage
  PROVE  TrailIInv'
<1> DEFINE page == Page(walk.org, walk.after)
           pages == Append(walk.pages, page.items)
<1>1. /\ walk.pc = "walking" /\ walk # Resting
      /\ walk \in [pc : {"walking", "complete"}, org : Orgs, after : Nat, found : SUBSET EventIds,
                   pages : Seq(SUBSET EventIds)]
  BY DEF NextPage, TrailIInv, TrailTypeOK, Walks, Resting
<1>2. /\ walk' = [walk EXCEPT !.after = page.next, !.pages = pages,
                              !.pc = IF page.next = NoCursor THEN "complete" ELSE "walking"]
      /\ UNCHANGED events
  BY DEF NextPage
<1>3. /\ page.items \subseteq {i \in Ids(walk.org) : i < walk.after}
      /\ \/ /\ page.next \in EventIds /\ page.next < walk.after
            /\ \A i \in page.items : page.next <= i
            /\ \A i \in Ids(walk.org) : i < walk.after => i \in page.items \/ i < page.next
         \/ /\ page.next = NoCursor
            /\ page.items = {i \in Ids(walk.org) : i < walk.after}
  BY <1>1, IdsShape, PageDivides
<1>4. /\ walk.found \subseteq Ids(walk.org)
      /\ \A m, n \in DOMAIN walk.pages : m # n => walk.pages[m] \cap walk.pages[n] = {}
      /\ \A n \in DOMAIN walk.pages : \A i \in walk.pages[n] : i >= walk.after
      /\ \A i \in walk.found : i \in Shown \/ i < walk.after
  BY <1>1 DEF TrailIInv, CursorDivides
<1>5. /\ Ids(walk.org) \subseteq EventIds /\ \A i \in EventIds : i \in Nat /\ i < NoCursor
      /\ NoCursor \in Nat
  BY IdsShape, NoCursorAbove, TrailAssumption
<1> HIDE DEF page
<1>6. /\ pages \in Seq(SUBSET EventIds)
      /\ Len(walk.pages) \in Nat /\ DOMAIN walk.pages = 1..Len(walk.pages)
      /\ DOMAIN pages = 1..(Len(walk.pages) + 1)
      /\ \A n \in DOMAIN walk.pages : n \in DOMAIN pages /\ pages[n] = walk.pages[n]
      /\ pages[Len(walk.pages) + 1] = page.items
  <2>1. walk.pages \in Seq(SUBSET EventIds) /\ page.items \in SUBSET EventIds
    BY <1>1, <1>3, <1>5
  <2> QED BY <2>1
<1> DEFINE last == Len(walk.pages) + 1
<1>7. \A n \in DOMAIN pages : n = last \/ n \in DOMAIN walk.pages
  BY <1>6
<1>8. \A n \in DOMAIN walk.pages : n # last /\ pages[n] \subseteq EventIds
  BY <1>6, <1>1
<1> HIDE DEF pages, last
<1>9. /\ walk'.pc = IF page.next = NoCursor THEN "complete" ELSE "walking"
      /\ walk'.after = page.next /\ walk'.pages = pages
      /\ walk'.org = walk.org /\ walk'.found = walk.found
      /\ walk' # Resting
  BY <1>1, <1>2 DEF Resting
<1>10. walk' \in Walks
  <2>1. page.next \in Nat
    BY <1>3, <1>5
  <2> QED BY <1>1, <1>2, <1>6, <2>1 DEF Walks
<1>11. Ids(walk.org)' = Ids(walk.org)
  BY <1>2, <1>9 DEF Ids
<1>12. \A m, n \in DOMAIN pages : m # n => pages[m] \cap pages[n] = {}
  <2>1. \A n \in DOMAIN walk.pages : pages[n] \cap page.items = {}
    <3> SUFFICES ASSUME NEW n \in DOMAIN walk.pages, NEW i \in pages[n], i \in page.items
                 PROVE  FALSE
      OBVIOUS
    <3>1. i >= walk.after /\ i < walk.after /\ i \in Nat /\ walk.after \in Nat
      BY <1>1, <1>3, <1>4, <1>5, <1>6
    <3> QED BY <3>1
  <2>2. pages[last] = page.items
    BY <1>6 DEF last
  <2> QED BY <1>4, <1>6, <1>7, <2>1, <2>2
<1>13. \A i : i \in Shown' <=> i \in Shown \/ i \in page.items
  <2>1. \A i : i \in Shown' <=> \E n \in DOMAIN pages : i \in pages[n]
    BY <1>9 DEF Shown
  <2>2. \A i : i \in Shown <=> \E n \in DOMAIN walk.pages : i \in walk.pages[n]
    BY DEF Shown
  <2>3. last \in DOMAIN pages /\ pages[last] = page.items
    BY <1>6 DEF last
  <2> QED BY <1>6, <1>7, <2>1, <2>2, <2>3
<1>14. CASE page.next \in EventIds
  <2>1. page.next # NoCursor
    BY <1>5, <1>14
  <2>2. /\ page.next < walk.after
        /\ \A i \in page.items : page.next <= i
        /\ \A i \in Ids(walk.org) : i < walk.after => i \in page.items \/ i < page.next
    BY <1>3, <2>1
  <2>3. \A n \in DOMAIN pages : \A i \in pages[n] : i >= page.next
    <3> SUFFICES ASSUME NEW n \in DOMAIN pages, NEW i \in pages[n] PROVE i >= page.next
      OBVIOUS
    <3>1. page.next \in Nat /\ walk.after \in Nat
      BY <1>1, <1>5, <1>14
    <3>2. CASE n = last
      <4>1. i \in page.items /\ i \in Nat
        BY <1>3, <1>5, <1>6, <3>2 DEF last
      <4> QED BY <2>2, <3>1, <4>1
    <3>3. CASE n \in DOMAIN walk.pages
      <4>1. i >= walk.after /\ i \in Nat
        BY <1>4, <1>5, <1>6, <1>8, <3>3
      <4> QED BY <2>2, <3>1, <4>1
    <3> QED BY <1>7, <3>2, <3>3
  <2>4. \A i \in walk.found : i \in Shown' \/ i < page.next
    BY <1>4, <1>13, <2>2
  <2> QED BY <1>4, <1>9, <1>10, <1>11, <1>12, <2>1, <2>3, <2>4
          DEF TrailIInv, TrailTypeOK, CursorDivides
<1>15. CASE page.next = NoCursor
  <2>1. page.items = {i \in Ids(walk.org) : i < walk.after}
    BY <1>3, <1>5, <1>15
  <2>2. walk.found \subseteq Shown'
    BY <1>4, <1>13, <2>1
  <2> QED BY <1>4, <1>9, <1>10, <1>11, <1>12, <1>15, <2>2
          DEF TrailIInv, TrailTypeOK, CursorDivides
<1> QED BY <1>3, <1>14, <1>15

-----------------------------------------------------------------------------
(* The tables of ControlContracts.                                           *)

IsClient(c) ==
  /\ c.method \in {"GET", "PUT"} /\ c.claims \in {"read", "manage"}
  /\ c.subject \in BOOLEAN /\ c.without \in Nat

\* The client methods are of three kinds.
LEMMA ClientKinds ==
  ASSUME NEW parser
  PROVE  IsClient(Get(parser)) /\ IsClient(GetAs(parser)) /\ IsClient(PutAs(parser))
         /\ PutAs(parser).method = "PUT"
BY DEF IsClient, Get, GetAs, PutAs

\* The two catalogues of candidates.
LEMMA CandidateClients == IsClient(discord_candidates) /\ IsClient(twitch_candidates)
BY DEF IsClient, Get, GetAs, discord_candidates, twitch_candidates

\* An audited use case names a connection and changes something there.
IsUseCase(u) ==
  /\ u.missing \in Nat /\ u.audited \in BOOLEAN
  /\ \A p \in DOMAIN u.clients : IsClient(u.clients[p])
  /\ u.audited => u.names = "connection" /\ \A p \in DOMAIN u.clients : u.clients[p].method = "PUT"

\* The use cases are of three kinds, none of them audited.
LEMMA UseCaseKinds ==
  ASSUME NEW c, IsClient(c)
  PROVE  IsUseCase(ReadOf(c)) /\ IsUseCase(ManagedReadOf(c)) /\ IsUseCase(UpdateOf(c))
BY DEF IsUseCase, ReadOf, ManagedReadOf, UpdateOf

\* Every row of the table; one use case is audited.
LEMMA UseCaseTable == \A u \in UseCases : IsUseCase(u)
<1>1. /\ IsUseCase(GetPlatformDashboardSummary) /\ IsUseCase(ListPlatformConnectionChannels)
      /\ IsUseCase(GetPlatformChannelPurposes) /\ IsUseCase(GetPlatformAiModerationSummary)
      /\ IsUseCase(GetPlatformWelcomeSettings)
  BY ClientKinds, UseCaseKinds
  DEF GetPlatformDashboardSummary, get_for_connection,
      ListPlatformConnectionChannels, get_channel_catalog_for_connection,
      GetPlatformChannelPurposes, get_channel_purposes_for_connection,
      GetPlatformAiModerationSummary, get_ai_moderation_summary_for_connection,
      GetPlatformWelcomeSettings, get_welcome_settings_for_connection
<1>2. /\ IsUseCase(GetPlatformBotSettings) /\ IsUseCase(GetPlatformAuditTimeline)
      /\ IsUseCase(GetPlatformServerStatistics) /\ IsUseCase(GetPlatformIntegrations)
      /\ IsUseCase(GetPlatformAiModerationPolicy)
  BY ClientKinds, UseCaseKinds
  DEF GetPlatformBotSettings, get_bot_settings_for_connection,
      GetPlatformAuditTimeline, get_audit_timeline_for_connection,
      GetPlatformServerStatistics, get_server_statistics_for_connection,
      GetPlatformIntegrations, get_integrations_for_connection,
      GetPlatformAiModerationPolicy, get_ai_moderation_policy_for_connection
<1>3. IsUseCase(UpdatePlatformChannelPurpose) /\ IsUseCase(UpdatePlatformWelcomeSettings)
  BY ClientKinds, UseCaseKinds
  DEF UpdatePlatformChannelPurpose, update_channel_purpose_for_connection,
      UpdatePlatformWelcomeSettings, update_welcome_settings_for_connection
<1>4. IsUseCase(UpdatePlatformAiModerationPolicy)
  <2>1. /\ IsClient(update_ai_moderation_policy_for_connection)
        /\ update_ai_moderation_policy_for_connection.method = "PUT"
    BY ClientKinds DEF update_ai_moderation_policy_for_connection
  <2> QED BY <2>1 DEF IsUseCase, UpdatePlatformAiModerationPolicy, UpdateOf, ManagedReadOf, ReadOf
<1>5. IsUseCase(ListControlModules)
  <2>1. IsClient(list_for_organization)
    BY ClientKinds DEF list_for_organization
  <2> QED BY <2>1 DEF IsUseCase, ListControlModules, ReadOf
<1>6. IsUseCase(GetPlatformHealth)
  <2>1. IsClient(get_for_organization) /\ IsClient(twitch_get_for_organization)
    BY ClientKinds DEF get_for_organization, twitch_get_for_organization
  <2> QED BY <2>1 DEF IsUseCase, GetPlatformHealth, ReadOf
<1>7. IsUseCase(ListPlatformConnectionCandidates)
  BY CandidateClients DEF IsUseCase, ListPlatformConnectionCandidates, ManagedReadOf, ReadOf
<1> QED BY <1>1, <1>2, <1>3, <1>4, <1>5, <1>6, <1>7 DEF UseCases

\* What an audited call is: a change of the policy of a named connection.
LEMMA CallShape ==
  ASSUME NEW x \in Calls
  PROVE  /\ x.platform \in Platforms /\ x.call \in CheckedCalls
         /\ x.call.missing \in Nat
         /\ x.call.made # None =>
              /\ x.call.made \in MadeCalls
              /\ x.call.made.audited => x.call.made.change = "policy" /\ x.call.names = "connection"
              /\ x.call.made.change = "policy" => x.call.made.audited
<1>1. PICK u \in UseCases, p \in Platforms : x = [platform |-> p, call |-> Checks(u, p)]
  BY DEF Calls
<1>2. IsUseCase(u)
  BY UseCaseTable
<1>3. x.platform \in Platforms /\ x.call = Checks(u, p) /\ x.call \in CheckedCalls
  BY <1>1 DEF CheckedCalls
<1>4. /\ x.call.missing = u.missing /\ x.call.names = u.names
      /\ x.call.made = IF p \in DOMAIN u.clients THEN Call(u, p) ELSE None
  BY <1>3 DEF Checks
<1>5. ASSUME p \in DOMAIN u.clients
      PROVE  /\ Call(u, p) \in MadeCalls
             /\ Call(u, p).audited = u.audited /\ Call(u, p).change = Change(u, u.clients[p])
  <2>1. Change(u, u.clients[p]) \in {"nothing", "policy", "settings"}
    BY DEF Change
  <2>2. Refusals(u.clients[p].parser) \in SUBSET Nat
    BY DEF Refusals
  <2>3. IsClient(u.clients[p]) /\ u.audited \in BOOLEAN
    BY <1>2, <1>5 DEF IsUseCase
  <2> QED BY <2>1, <2>2, <2>3 DEF Call, MadeCalls, IsClient
<1>6. ASSUME p \in DOMAIN u.clients
      PROVE  /\ u.audited => Change(u, u.clients[p]) = "policy" /\ u.names = "connection"
             /\ Change(u, u.clients[p]) = "policy" => u.audited
  BY <1>2, <1>6 DEF IsUseCase, Change
<1> QED BY <1>2, <1>3, <1>4, <1>5, <1>6 DEF IsUseCase

-----------------------------------------------------------------------------
(* Requests.                                                                 *)

\* What a request at each point of its code knows.
LEMMA RequestShape ==
  ASSUME ControlTypeOK, NEW r \in Requests
  PROVE  /\ req[r].pc = "find" =>
              req[r] \in [pc : {"find"}, org : Orgs, connection : Connections \cup {None},
                          platform : Platforms, call : CheckedCalls]
         /\ req[r].pc = "sign" =>
              req[r] \in [pc : {"sign"}, org : Orgs, connection : Connections \cup {None},
                          platform : Platforms, call : MadeCalls]
         /\ req[r].pc \in {"wait", "served"} =>
              req[r] \in [pc : {"wait", "served"}, org : Orgs,
                          call : [audited : BOOLEAN, refusals : SUBSET Nat]]
         /\ req[r].pc = "audit" =>
              req[r] \in [pc : {"audit"}, org : Orgs, result : {"succeeded", "failed"}, code : Nat]
BY DEF ControlTypeOK, RequestStates, New

\* An end of a request.
LEMMA DoneShape ==
  ASSUME NEW code \in Nat \cup {None}
  PROVE  /\ Done(code) \in RequestStates /\ Done(code).pc = "done" /\ Done(code).code = code
         /\ Owned(Done(code)) /\ ~Reporting(Done(code))
BY DEF Done, RequestStates, Owned, Reporting

\* Calls may arrive, and may take effect as they do; none are made.
Arrivals ==
  /\ sent' \subseteq sent /\ applied \subseteq applied'
  /\ sent' \cup applied' \subseteq sent \cup applied

\* A request goes on with q. The calls it made are traced from q, and what q is about
\* to report is real.
LEMMA RequestMoves ==
  ASSUME ControlIInv, NEW r \in Requests, NEW q \in RequestStates, Becomes(r, q),
         UNCHANGED <<now, events>>, Arrivals,
         req[r].pc # "done", q.pc # "wait", Owned(q),
         \A m \in sent \cup applied : m.request = r => Traced(m, q, events),
         Reporting(q) => \E m \in applied' : m.request = r
  PROVE  ControlIInv'
<1> USE DEF ControlIInv, Arrivals
<1>1. /\ req' \in [Requests -> RequestStates] /\ req'[r] = q
      /\ \A o \in Requests \ {r} : req'[o] = req[o]
  BY DEF Becomes, ControlTypeOK
<1>2. \A m \in sent \cup applied : m.request \in Requests
  BY DEF ControlTypeOK, Messages
<1>3. ControlTypeOK'
  BY <1>1 DEF ControlTypeOK
<1>4. ConnectionsOwned'
  <2>1. \A o \in Requests : Owned(req'[o])
    BY <1>1 DEF ConnectionsOwned
  <2> QED BY <2>1 DEF ConnectionsOwned, Owned
<1>5. OwnResourcesOnly'
  BY DEF OwnResourcesOnly
<1>6. CallsTraced'
  <2>1. \A m \in sent' \cup applied' : Traced(m, req'[m.request], events)
    BY <1>1, <1>2 DEF CallsTraced
  <2> QED BY <2>1 DEF CallsTraced, Traced
<1>7. WaitsForChange'
  BY <1>1, <1>2 DEF WaitsForChange
<1>8. SuccessIsReal'
  <2>1. \A o \in Requests : Reporting(req'[o]) => \E m \in applied' : m.request = o
    BY <1>1 DEF SuccessIsReal
  <2> QED BY <2>1 DEF SuccessIsReal, Reporting
<1>9. EventsApart'
  <2>1. \A e \in events : e.request # None => e.request \in Requests /\ e.request # r
    BY DEF EventsApart, ControlTypeOK, Events
  <2> QED BY <1>1, <2>1 DEF EventsApart
<1> QED BY <1>3, <1>4, <1>5, <1>6, <1>7, <1>8, <1>9

\* A request that made no call yet has none to trace.
LEMMA EarlyMoves ==
  ASSUME ControlIInv, NEW r \in Requests, req[r].pc \in {"new", "find", "sign"},
         NEW q \in RequestStates, Becomes(r, q), UNCHANGED <<now, sent, applied, events>>,
         q.pc # "wait", Owned(q), ~Reporting(q)
  PROVE  ControlIInv'
<1>1. \A m \in sent \cup applied : m.request # r
  BY DEF ControlIInv, CallsTraced, Traced
<1> QED BY <1>1, RequestMoves DEF Arrivals

\* Begin and Find.
LEMMA Lookups ==
  ASSUME ControlIInv, NEW r \in Requests, Begin(r) \/ Find(r)
  PROVE  ControlIInv'
<1> USE DEF ControlIInv
<1>1. CASE Begin(r)
  <2>0. PICK x \in Calls, org \in Orgs :
          \E c \in IF x.call.names = "connection" THEN Connections ELSE {None} :
            \/ Becomes(r, Done(403))
            \/ Becomes(r, [pc |-> "find", org |-> org, connection |-> c, platform |-> x.platform,
                           call |-> x.call])
    BY <1>1 DEF Begin
  <2>1. PICK c \in IF x.call.names = "connection" THEN Connections ELSE {None} :
          \/ Becomes(r, Done(403))
          \/ Becomes(r, [pc |-> "find", org |-> org, connection |-> c, platform |-> x.platform,
                         call |-> x.call])
    BY <2>0
  <2>2. req[r].pc = "new" /\ UNCHANGED <<now, sent, applied, events>>
    BY <1>1 DEF Begin, New, environment
  <2>3. CASE Becomes(r, Done(403))
    BY <2>2, <2>3, DoneShape, EarlyMoves
  <2>4. CASE Becomes(r, [pc |-> "find", org |-> org, connection |-> c, platform |-> x.platform,
                         call |-> x.call])
    <3> DEFINE q == [pc |-> "find", org |-> org, connection |-> c, platform |-> x.platform,
                     call |-> x.call]
    <3>1. c \in Connections \cup {None} /\ (x.call.names = "connection" <=> c # None)
      BY <2>1, ControlAssumption
    <3>2. q \in RequestStates
      BY <3>1, CallShape DEF RequestStates
    <3>3. q.pc = "find" /\ Owned(q) /\ ~Reporting(q)
      BY <3>1 DEF Owned, Reporting
    <3> HIDE DEF q
    <3> QED BY <2>2, <2>4, <3>2, <3>3, EarlyMoves DEF q
  <2> QED BY <2>1, <2>3, <2>4
<1>2. CASE Find(r)
  <2>1. /\ req[r].pc = "find" /\ UNCHANGED <<now, sent, applied, events>>
        /\ Becomes(r, IF ~Found(req[r]) THEN Done(404)
                      ELSE IF req[r].call.made = None THEN Done(req[r].call.missing)
                      ELSE [pc |-> "sign", org |-> req[r].org, connection |-> req[r].connection,
                            platform |-> req[r].platform, call |-> req[r].call.made])
    BY <1>2 DEF Find, environment
  <2>2. /\ req[r] \in [pc : {"find"}, org : Orgs, connection : Connections \cup {None},
                       platform : Platforms, call : CheckedCalls]
        /\ Owned(req[r])
    BY <2>1, RequestShape DEF ConnectionsOwned
  <2>3. PICK x \in Calls : req[r].call = x.call
    BY <2>2 DEF CheckedCalls
  <2>4. CASE \E code \in Nat : Becomes(r, Done(code))
    BY <2>1, <2>4, DoneShape, EarlyMoves
  <2>5. CASE /\ Found(req[r]) /\ req[r].call.made # None
             /\ Becomes(r, [pc |-> "sign", org |-> req[r].org, connection |-> req[r].connection,
                            platform |-> req[r].platform, call |-> req[r].call.made])
    <3> DEFINE q == [pc |-> "sign", org |-> req[r].org, connection |-> req[r].connection,
                     platform |-> req[r].platform, call |-> req[r].call.made]
    <3>1. /\ req[r].call.made \in MadeCalls
          /\ req[r].call.made.audited =>
               req[r].call.made.change = "policy" /\ req[r].call.names = "connection"
          /\ req[r].call.made.change = "policy" => req[r].call.made.audited
      BY <2>3, <2>5, CallShape
    <3>2. req[r].call.names = "connection" => OrgOf[req[r].connection] = req[r].org
      BY <2>5 DEF Found
    <3>3. q \in RequestStates
      BY <2>2, <3>1 DEF RequestStates
    <3>4. q.pc = "sign" /\ Owned(q) /\ ~Reporting(q)
      BY <2>1, <2>2, <3>1, <3>2 DEF Owned, Reporting
    <3> HIDE DEF q
    <3> QED BY <2>1, <2>5, <3>3, <3>4, EarlyMoves DEF q
  <2>6. req[r].call.missing \in Nat
    BY <2>3, CallShape
  <2> QED BY <2>1, <2>4, <2>5, <2>6
<1> QED BY <1>1, <1>2

\* A failure: an audited request goes on to record it for the organization of its call.
LEMMA Failures ==
  ASSUME ControlIInv, NEW r \in Requests, req[r].pc \in {"sign", "wait", "served"},
         NEW code \in Nat, Failed(r, code), UNCHANGED <<now, events>>, Arrivals
  PROVE  ControlIInv'
<1> USE DEF ControlIInv
<1>1. req[r].org \in Orgs /\ req[r].call.audited \in BOOLEAN
  BY RequestShape DEF MadeCalls
<1>2. CASE req[r].call.audited
  <2> DEFINE q == [pc |-> "audit", org |-> req[r].org, result |-> "failed", code |-> code]
  <2>1. q \in RequestStates /\ q.pc = "audit" /\ Owned(q) /\ ~Reporting(q)
    BY <1>1 DEF RequestStates, Owned, Reporting
  <2>2. ASSUME NEW m \in sent \cup applied, m.request = r PROVE Traced(m, q, events)
    BY <2>2 DEF CallsTraced, Traced
  <2>3. Becomes(r, q)
    BY <1>2 DEF Failed
  <2> HIDE DEF q
  <2> QED BY <2>1, <2>2, <2>3, RequestMoves
<1>3. CASE ~req[r].call.audited
  <2>1. Becomes(r, Done(code))
    BY <1>3 DEF Failed
  <2>2. ASSUME NEW m \in sent \cup applied, m.request = r PROVE Traced(m, Done(code), events)
    BY <1>3, <2>2, DoneShape DEF CallsTraced, Traced
  <2> QED BY <2>1, <2>2, DoneShape, RequestMoves
<1> QED BY <1>2, <1>3

-----------------------------------------------------------------------------
(* Calls.                                                                    *)

\* The assertion names the connection that was found, of the stated organization.
LEMMA SignKeeps ==
  ASSUME ControlIInv, NEW r \in Requests, Sign(r)
  PROVE  ControlIInv'
<1> USE DEF ControlIInv
<1> DEFINE q == req[r]
           w == Waiting(q)
           m == [request |-> r, change |-> q.call.change,
                 assertion |-> Issue(q.org, q.connection, q.call.claims)]
<1>1. /\ q.pc = "sign" /\ UNCHANGED <<now, applied, events>> /\ Owned(q)
      /\ q \in [pc : {"sign"}, org : Orgs, connection : Connections \cup {None},
                platform : Platforms, call : MadeCalls]
  BY RequestShape DEF Sign, environment, ConnectionsOwned
<1>2. CASE Failed(r, IF linked[q.platform] = 0 THEN q.call.without ELSE 500) /\ UNCHANGED sent
  <2>1. (IF linked[q.platform] = 0 THEN q.call.without ELSE 500) \in Nat
    BY <1>1 DEF MadeCalls
  <2> QED BY <1>1, <1>2, <2>1, Failures DEF Arrivals
<1>3. CASE sent' = sent \cup {m} /\ Becomes(r, w)
  <2>1. \A x \in sent \cup applied : x.request # r /\ x.request \in Requests
    BY <1>1 DEF CallsTraced, Traced, ControlTypeOK, Messages
  <2>2. /\ w \in RequestStates /\ w.pc = "wait" /\ w.org = q.org
        /\ w.call.audited = q.call.audited
    BY <1>1 DEF Waiting, RequestStates, MadeCalls
  <2>3. Owned(w) /\ ~Reporting(w)
    BY <2>2 DEF Owned, Reporting
  <2>4. /\ req' \in [Requests -> RequestStates] /\ req'[r] = w
        /\ \A o \in Requests \ {r} : req'[o] = req[o]
    BY <1>3, <2>2 DEF Becomes, ControlTypeOK
  <2>5. /\ m \in Messages /\ m.request = r /\ m.change = q.call.change
        /\ m.assertion.org = q.org /\ m.assertion.connection = q.connection
    BY <1>1, ControlAssumption DEF Messages, Issue, MadeCalls, ControlTypeOK
  <2> HIDE DEF m, w
  <2>6. ControlTypeOK'
    BY <1>1, <1>3, <2>4, <2>5 DEF ControlTypeOK
  <2>7. ConnectionsOwned'
    <3>1. \A o \in Requests : Owned(req'[o])
      BY <2>3, <2>4 DEF ConnectionsOwned
    <3> QED BY <3>1 DEF ConnectionsOwned, Owned
  <2>8. OwnResourcesOnly'
    BY <1>1, <1>3, <2>5 DEF OwnResourcesOnly, Owned
  <2>9. CallsTraced'
    <3>1. Traced(m, w, events)
      BY <1>1, <2>2, <2>5 DEF Traced, Owned
    <3>2. \A x \in sent' \cup applied' : Traced(x, req'[x.request], events')
      BY <1>1, <1>3, <2>1, <2>4, <2>5, <3>1 DEF CallsTraced
    <3> QED BY <3>2 DEF CallsTraced, Traced
  <2>10. WaitsForChange'
    BY <1>1, <1>3, <2>1, <2>2, <2>4, <2>5 DEF WaitsForChange, Owned
  <2>11. SuccessIsReal'
    <3>1. \A o \in Requests : Reporting(req'[o]) => \E x \in applied' : x.request = o
      BY <1>1, <2>3, <2>4 DEF SuccessIsReal
    <3> QED BY <3>1 DEF SuccessIsReal, Reporting
  <2>12. EventsApart'
    <3>1. \A e \in events : e.request # None => e.request \in Requests /\ e.request # r
      BY <1>1 DEF EventsApart, ControlTypeOK, Events
    <3> QED BY <1>1, <2>4, <3>1 DEF EventsApart
  <2> QED BY <2>6, <2>7, <2>8, <2>9, <2>10, <2>11, <2>12
<1> QED BY <1>2, <1>3 DEF Sign

\* A call that arrives when its request waits no more.
LEMMA LateArrival ==
  ASSUME ControlIInv, Arrivals, UNCHANGED <<now, events, req>>
  PROVE  ControlIInv'
<1> USE DEF ControlIInv, Arrivals
<1>1. ControlTypeOK' /\ OwnResourcesOnly'
  BY DEF ControlTypeOK, OwnResourcesOnly
<1>2. ConnectionsOwned' /\ CallsTraced'
  BY DEF ConnectionsOwned, Owned, CallsTraced, Traced
<1>3. WaitsForChange' /\ SuccessIsReal' /\ EventsApart'
  BY DEF WaitsForChange, SuccessIsReal, Reporting, EventsApart
<1> QED BY <1>1, <1>2, <1>3

\* A service answers. The call of an audited request that is served took effect.
LEMMA ServeKeeps ==
  ASSUME ControlIInv, NEW m \in sent, Serve(m)
  PROVE  ControlIInv'
<1> USE DEF ControlIInv
<1> DEFINE r == m.request
<1>1. r \in Requests /\ UNCHANGED <<now, events>> /\ Arrivals
  BY DEF Serve, environment, ControlTypeOK, Messages, Arrivals
<1>2. CASE UNCHANGED req
  BY <1>1, <1>2, LateArrival
<1>3. CASE /\ req[r].pc = "wait"
           /\ Becomes(r, [req[r] EXCEPT !.pc = "served"])
           /\ applied' = IF m.change # "nothing" THEN applied \cup {m} ELSE applied
  <2> DEFINE q == [req[r] EXCEPT !.pc = "served"]
  <2>1. /\ q \in RequestStates /\ q.pc = "served" /\ q.org = req[r].org
        /\ q.call = req[r].call /\ Owned(q)
    BY <1>1, <1>3, RequestShape DEF RequestStates, Owned
  <2>2. Becomes(r, q)
    BY <1>3
  <2> HIDE DEF q
  <2>3. ASSUME NEW x \in sent \cup applied, x.request = r PROVE Traced(x, q, events)
    BY <1>3, <2>1, <2>3 DEF CallsTraced, Traced
  <2>4. Reporting(q) => m \in applied'
    BY <1>3, <2>1 DEF Reporting, WaitsForChange
  <2> QED BY <1>1, <1>3, <2>1, <2>2, <2>3, <2>4, RequestMoves
<1>4. CASE req[r].pc = "wait" /\ Failed(r, 503)
  BY <1>1, <1>4, Failures
<1> QED BY <1>2, <1>3, <1>4 DEF Serve

\* The client gives up, or gets the answer.
LEMMA Answers ==
  ASSUME ControlIInv, NEW r \in Requests, TimeOut(r) \/ Receive(r)
  PROVE  ControlIInv'
<1> USE DEF ControlIInv
<1>1. UNCHANGED <<now, events>> /\ Arrivals
  BY DEF TimeOut, Receive, environment, Arrivals
<1>2. CASE TimeOut(r)
  BY <1>1, <1>2, Failures DEF TimeOut
<1>3. CASE Receive(r)
  <2>1. /\ req[r].pc = "served" /\ req[r].org \in Orgs
        /\ req[r].call.audited \in BOOLEAN /\ req[r].call.refusals \in SUBSET Nat
    BY <1>3, RequestShape DEF Receive
  <2>2. CASE \E code \in req[r].call.refusals \cup {503} : Failed(r, code)
    BY <1>1, <2>1, <2>2, Failures
  <2>3. CASE Succeeded(r) /\ req[r].call.audited
    <3> DEFINE q == [pc |-> "audit", org |-> req[r].org, result |-> "succeeded", code |-> 200]
    <3>1. q \in RequestStates /\ q.pc = "audit" /\ Owned(q) /\ q.org = req[r].org
      BY <2>1 DEF RequestStates, Owned
    <3>2. Becomes(r, q)
      BY <2>3 DEF Succeeded
    <3> HIDE DEF q
    <3>3. ASSUME NEW x \in sent \cup applied, x.request = r PROVE Traced(x, q, events)
      BY <2>1, <3>1, <3>3 DEF CallsTraced, Traced
    <3>4. \E m \in applied' : m.request = r
      BY <1>1, <2>1, <2>3 DEF SuccessIsReal, Reporting, Arrivals
    <3> QED BY <1>1, <2>1, <3>1, <3>2, <3>3, <3>4, RequestMoves
  <2>4. CASE Succeeded(r) /\ ~req[r].call.audited
    <3>1. Becomes(r, Done(200))
      BY <2>4 DEF Succeeded
    <3>2. ASSUME NEW x \in sent \cup applied, x.request = r PROVE Traced(x, Done(200), events)
      BY <2>1, <2>4, <3>2, DoneShape DEF CallsTraced, Traced
    <3> QED BY <1>1, <2>1, <3>1, <3>2, DoneShape, RequestMoves
  <2> QED BY <1>3, <2>2, <2>3, <2>4 DEF Receive
<1> QED BY <1>2, <1>3

\* A restart, or a failure to write the event: the actor is told of neither outcome.
LEMMA UntoldEnds ==
  ASSUME ControlIInv, NEW r \in Requests, req[r].pc \notin {"new", "done"},
         NEW code \in {500, None}, Becomes(r, Done(code)), UNCHANGED <<now, events>>, Arrivals
  PROVE  ControlIInv'
<1> USE DEF ControlIInv
<1>1. code \in Nat \cup {None} /\ code \notin {200, 503}
  BY ControlAssumption
<1>2. CASE req[r].pc \in {"find", "sign"}
  <2>1. \A m \in sent \cup applied : m.request # r
    BY <1>2 DEF CallsTraced, Traced
  <2> QED BY <1>1, <2>1, DoneShape, RequestMoves
<1>3. CASE req[r].pc \notin {"find", "sign"}
  <2>1. ASSUME NEW m \in sent \cup applied, m.request = r PROVE Traced(m, Done(code), events)
    BY <1>1, <2>1, DoneShape DEF CallsTraced, Traced
  <2> QED BY <1>1, <2>1, DoneShape, RequestMoves
<1> QED BY <1>2, <1>3

\* The event is written for the organization of the request, once, with the result
\* it got.
LEMMA RecordKeeps ==
  ASSUME ControlIInv, NEW r \in Requests, RecordAudit(r)
  PROVE  ControlIInv'
<1> USE DEF ControlIInv
<1>1. /\ req[r].pc = "audit" /\ UNCHANGED <<now, sent, applied>> /\ Arrivals
      /\ req[r] \in [pc : {"audit"}, org : Orgs, result : {"succeeded", "failed"}, code : Nat]
  BY RequestShape DEF RecordAudit, environment, Arrivals
<1>2. CASE UNCHANGED events /\ Becomes(r, Done(500))
  BY <1>1, <1>2, UntoldEnds
<1>3. CASE Record(req[r].org, r, req[r].result) /\ Becomes(r, Done(req[r].code))
  <2>1. PICK i \in EventIds :
          events' = events \cup {[id |-> i, org |-> req[r].org, request |-> r,
                                  result |-> req[r].result]}
    BY <1>3 DEF Record
  <2> DEFINE e == [id |-> i, org |-> req[r].org, request |-> r, result |-> req[r].result]
             d == Done(req[r].code)
  <2>2. e \in Events /\ e.request = r /\ e.org = req[r].org /\ e.result = req[r].result
    BY <1>1 DEF Events
  <2>3. d \in RequestStates /\ d.pc = "done" /\ Owned(d) /\ ~Reporting(d)
    BY <1>1, DoneShape
  <2>4. events' = events \cup {e} /\ Becomes(r, d)
    BY <1>3, <2>1
  <2> HIDE DEF e, d
  <2>5. /\ req' \in [Requests -> RequestStates] /\ req'[r] = d
        /\ \A o \in Requests \ {r} : req'[o] = req[o]
    BY <2>3, <2>4 DEF Becomes, ControlTypeOK
  <2>6. \A m \in sent \cup applied : m.request \in Requests
    BY DEF ControlTypeOK, Messages
  <2>7. ControlTypeOK'
    BY <1>1, <2>2, <2>4, <2>5 DEF ControlTypeOK
  <2>8. ConnectionsOwned'
    <3>1. \A o \in Requests : Owned(req'[o])
      BY <2>3, <2>5 DEF ConnectionsOwned
    <3> QED BY <3>1 DEF ConnectionsOwned, Owned
  <2>9. OwnResourcesOnly'
    BY <1>1 DEF OwnResourcesOnly
  <2>10. CallsTraced'
    <3>1. ASSUME NEW m \in sent \cup applied, m.request = r PROVE Traced(m, d, events')
      BY <1>1, <2>2, <2>3, <2>4, <3>1 DEF CallsTraced, Traced
    <3>2. ASSUME NEW m \in sent \cup applied, m.request # r
          PROVE  Traced(m, req[m.request], events')
      BY <2>4 DEF CallsTraced, Traced
    <3>3. \A m \in sent' \cup applied' : Traced(m, req'[m.request], events')
      BY <1>1, <2>5, <2>6, <3>1, <3>2
    <3> QED BY <3>3 DEF CallsTraced, Traced
  <2>11. WaitsForChange'
    BY <1>1, <2>3, <2>5, <2>6 DEF WaitsForChange
  <2>12. SuccessIsReal'
    <3>1. \A o \in Requests : Reporting(req'[o]) => \E m \in applied' : m.request = o
      BY <1>1, <2>3, <2>5 DEF SuccessIsReal
    <3> QED BY <3>1 DEF SuccessIsReal, Reporting
  <2>13. EventsApart'
    <3>1. \A f \in events : f.request # None => f.request \in Requests /\ f.request # r
      BY <1>1 DEF EventsApart, ControlTypeOK, Events
    <3>2. e.result = "succeeded" => \E m \in applied : m.request = r
      BY <1>1, <2>2 DEF SuccessIsReal, Reporting
    <3>3. \A f \in events : f.request # r
      BY <3>1, ControlAssumption
    <3>4. ASSUME NEW f \in events', f.request # None
          PROVE  /\ req'[f.request].pc = "done"
                 /\ \A g \in events' : g.request = f.request => g = f
                 /\ f.result = "succeeded" => \E m \in applied' : m.request = f.request
      <4>1. CASE f = e
        BY <1>1, <2>2, <2>3, <2>4, <2>5, <3>2, <3>3, <4>1
      <4>2. CASE f \in events
        BY <1>1, <2>2, <2>4, <2>5, <3>1, <3>4, <4>2 DEF EventsApart
      <4> QED BY <2>4, <4>1, <4>2
    <3> QED BY <3>4 DEF EventsApart
  <2> QED BY <2>7, <2>8, <2>9, <2>10, <2>11, <2>12, <2>13
<1> QED BY <1>2, <1>3 DEF RecordAudit

\* Readers, the clock, and what is written elsewhere: an event of no request at most.
LEMMA OthersKeep ==
  ASSUME ControlIInv, UNCHANGED <<sent, applied, req>>, now' \in Nat,
         events' \subseteq Events, events \subseteq events',
         \A e \in events' \ events : e.request = None
  PROVE  ControlIInv'
<1> USE DEF ControlIInv
<1>1. ControlTypeOK' /\ OwnResourcesOnly'
  BY DEF ControlTypeOK, OwnResourcesOnly
<1>2. ConnectionsOwned' /\ CallsTraced'
  BY DEF ConnectionsOwned, Owned, CallsTraced, Traced
<1>3. WaitsForChange' /\ SuccessIsReal'
  BY DEF WaitsForChange, SuccessIsReal, Reporting
<1>4. EventsApart'
  BY DEF EventsApart
<1> QED BY <1>1, <1>2, <1>3, <1>4

-----------------------------------------------------------------------------
(* The theorems.                                                             *)

\* Every step keeps the control invariant; events are only added, and the walk moves
\* only by its own steps.
LEMMA ControlStep ==
  ASSUME ControlIInv, ControlNext
  PROVE  /\ ControlIInv' /\ events \subseteq events'
         /\ \/ UNCHANGED walk
            \/ \E o \in Orgs : BeginWalk(o)
            \/ NextPage
<1> USE DEF ControlIInv
<1>0. now \in Nat /\ events \subseteq Events
  BY DEF ControlTypeOK
<1>1. ASSUME NEW r \in Requests, Begin(r) \/ Find(r)
      PROVE  ControlIInv' /\ UNCHANGED <<events, walk>>
  BY <1>1, Lookups DEF Begin, Find
<1>2. ASSUME NEW r \in Requests, Sign(r) PROVE ControlIInv' /\ UNCHANGED <<events, walk>>
  BY <1>2, SignKeeps DEF Sign
<1>3. ASSUME NEW r \in Requests, TimeOut(r) \/ Receive(r)
      PROVE  ControlIInv' /\ UNCHANGED <<events, walk>>
  BY <1>3, Answers DEF TimeOut, Receive
<1>4. ASSUME NEW r \in Requests, RecordAudit(r)
      PROVE  ControlIInv' /\ events \subseteq events' /\ UNCHANGED walk
  BY <1>4, RecordKeeps DEF RecordAudit, Record
<1>5. ASSUME NEW r \in Requests, Crash(r) PROVE ControlIInv' /\ UNCHANGED <<events, walk>>
  BY <1>5, UntoldEnds DEF Crash, environment, Arrivals
<1>6. ASSUME NEW m \in sent, Serve(m) PROVE ControlIInv' /\ UNCHANGED <<events, walk>>
  BY <1>6, ServeKeeps DEF Serve
<1>7. CASE ReadTrail
  <2>1. UNCHANGED <<now, sent, applied, req, events>>
    BY <1>7 DEF ReadTrail, environment, BeginWalk, NextPage
  <2> QED BY <1>0, <1>7, <2>1, OthersKeep DEF ReadTrail
<1>8. CASE ChangeRole \/ ChangeStatus \/ ChangeIdentity
  <2>1. UNCHANGED <<now, sent, applied, req, events, walk>>
    BY <1>8 DEF ChangeRole, ChangeStatus, ChangeIdentity, Elsewhere
  <2> QED BY <1>0, <2>1, OthersKeep
<1>9. CASE OtherEvent
  <2>1. PICK o \in Orgs, i \in EventIds :
          events' = events \cup {[id |-> i, org |-> o, request |-> None, result |-> "succeeded"]}
    BY <1>9 DEF OtherEvent, Record
  <2> DEFINE e == [id |-> i, org |-> o, request |-> None, result |-> "succeeded"]
  <2>2. e \in Events /\ e.request = None
    BY DEF Events
  <2>3. UNCHANGED <<now, sent, applied, req, walk>> /\ events' = events \cup {e}
    BY <1>9, <2>1 DEF OtherEvent, Elsewhere
  <2> HIDE DEF e
  <2> QED BY <1>0, <2>2, <2>3, OthersKeep
<1>10. CASE Tick
  <2>1. now' \in Nat /\ UNCHANGED <<sent, applied, req, events, walk>>
    BY <1>0, <1>10 DEF Tick
  <2> QED BY <1>0, <2>1, OthersKeep
<1> QED BY <1>1, <1>2, <1>3, <1>4, <1>5, <1>6, <1>7, <1>8, <1>9, <1>10 DEF ControlNext

\* Both invariants hold from the start and through every step of PlatformControl.
THEOREM Inductive == ControlSpec => [](ControlIInv /\ TrailIInv)
<1>1. ControlInit => ControlIInv /\ TrailIInv
  <2> SUFFICES ASSUME ControlInit PROVE ControlIInv /\ TrailIInv
    OBVIOUS
  <2>1. ControlTypeOK
    BY DEF ControlInit, TrailInit, ControlTypeOK, RequestStates
  <2>2. ConnectionsOwned /\ OwnResourcesOnly /\ CallsTraced /\ WaitsForChange
    BY DEF ControlInit, ConnectionsOwned, Owned, New, OwnResourcesOnly, CallsTraced, WaitsForChange
  <2>3. SuccessIsReal /\ EventsApart
    BY DEF ControlInit, TrailInit, SuccessIsReal, Reporting, New, EventsApart
  <2>4. TrailIInv
    BY DEF ControlInit, TrailInit, TrailIInv, TrailTypeOK, Walks, CursorDivides
  <2> QED BY <2>1, <2>2, <2>3, <2>4 DEF ControlIInv
<1>2. ControlIInv /\ TrailIInv /\ [ControlNext]_vars => (ControlIInv /\ TrailIInv)'
  <2> SUFFICES ASSUME ControlIInv, TrailIInv, [ControlNext]_vars PROVE ControlIInv' /\ TrailIInv'
    OBVIOUS
  <2>0. ControlTypeOK
    BY DEF ControlIInv
  <2>1. CASE UNCHANGED vars
    <3>1. ControlIInv'
      BY <2>0, <2>1, OthersKeep DEF vars, ControlTypeOK
    <3>2. TrailIInv'
      BY <2>1, WritersDisturbNoWalk DEF vars
    <3> QED BY <3>1, <3>2
  <2>2. CASE ControlNext
    <3>1. /\ ControlIInv' /\ events \subseteq events'
          /\ \/ UNCHANGED walk
             \/ \E o \in Orgs : BeginWalk(o)
             \/ NextPage
      BY <2>2, ControlStep
    <3>2. TrailIInv'
      BY <2>0, <3>1, WritersDisturbNoWalk, BeginWalkKeeps, NextPageKeeps
    <3> QED BY <3>1, <3>2
  <2> QED BY <2>1, <2>2
<1> QED BY <1>1, <1>2, PTL DEF ControlSpec

\* Calls, requests and events of PlatformControl, and its reader, keep their types.
THEOREM ControlTypes == ControlSpec => [](ControlTypeOK /\ TrailTypeOK)
<1>1. ControlIInv /\ TrailIInv => ControlTypeOK /\ TrailTypeOK
  BY DEF ControlIInv, TrailIInv
<1> QED BY <1>1, Inductive, PTL

\* An event that reports a success is about a change the platform made, and a request
\* writes no second one, however late its call is served.
THEOREM TruthfulAudit == ControlSpec => []AuditTruthful
<1>1. ASSUME ControlIInv PROVE AuditTruthful
  <2> SUFFICES ASSUME NEW r \in Requests
               PROVE  /\ Cardinality(EventsOf(r)) <= 1
                      /\ \A e \in EventsOf(r) :
                           e.result = "succeeded" => \E m \in applied : m.request = r
    BY DEF AuditTruthful
  <2>1. r # None
    BY ControlAssumption
  <2>2. \A e, f \in EventsOf(r) : e = f
    BY <1>1, <2>1 DEF ControlIInv, EventsApart, EventsOf
  <2>3. Cardinality(EventsOf(r)) <= 1
    <3>1. CASE EventsOf(r) = {}
      BY <3>1, FS_EmptySet
    <3>2. CASE \E e : e \in EventsOf(r)
      <4>1. PICK e : EventsOf(r) = {e}
        BY <2>2, <3>2
      <4> QED BY <4>1, FS_Singleton
    <3> QED BY <3>1, <3>2
  <2> QED BY <1>1, <2>1, <2>3 DEF ControlIInv, EventsApart, EventsOf
<1> QED BY <1>1, Inductive, PTL

\* A policy change whose actor was told "done" or "failed" has its event, in the trail
\* of the organization whose connection was changed.
THEOREM AuditedChange == ControlSpec => []PolicyChangeIsAudited
<1>1. ASSUME ControlIInv PROVE PolicyChangeIsAudited
  <2> SUFFICES ASSUME NEW r \in Requests, NEW m \in applied, m.request = r, m.change = "policy",
                      req[r].pc = "done", req[r].code \in {200, 503}
               PROVE  \E e \in EventsOf(r) : e.org = OrgOf[m.assertion.connection]
    BY DEF PolicyChangeIsAudited
  <2>1. /\ m.assertion.connection # None
        /\ \E e \in events : e.request = r /\ e.org = m.assertion.org
    BY <1>1 DEF ControlIInv, CallsTraced, Traced
  <2>2. OrgOf[m.assertion.connection] = m.assertion.org
    BY <1>1, <2>1 DEF ControlIInv, OwnResourcesOnly
  <2> QED BY <2>1, <2>2 DEF EventsOf
<1> QED BY <1>1, Inductive, PTL

\* A complete walk through the trail showed all that was there when it began and
\* nothing twice, for every page limit and wherever new events fall.
THEOREM CompleteWalk == ControlSpec => []WalkShowsAll
<1>1. TrailIInv => WalkShowsAll
  BY DEF TrailIInv, CursorDivides, WalkShowsAll, Shown, Resting
<1> QED BY <1>1, Inductive, PTL
=============================================================================
