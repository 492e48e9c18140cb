------------------------------- MODULE AuditTrail -------------------------------
(***************************************************************************)
(* The audit events of organizations and a reader who walks through them,  *)
(* page by page, while more are written. Identifiers are UUIDv7: they      *)
(* follow the clock of the process that makes them. The clocks of several  *)
(* processes differ and a transaction may commit late, so an event may     *)
(* appear below others; here it may appear anywhere among them.            *)
(***************************************************************************)
EXTENDS Integers, FiniteSets, FiniteSetsExt, Sequences

CONSTANTS
  Orgs,
  EventIds,   \* identifiers of events
  PageLimit   \* events of a page

ASSUME TrailAssumption ==
  /\ EventIds \subseteq Nat /\ IsFiniteSet(EventIds) /\ EventIds # {}
  /\ PageLimit \in 1..100

VARIABLES
  events,  \* audit_events
  walk     \* the reader

-----------------------------------------------------------------------------
\* An event of a control call carries the request that wrote it.
Ids(org) == {e.id : e \in {x \in events : x.org = org}}

\* SqlAlchemyAuditEventWriter.record; the place of the new identifier is arbitrary,
\* which covers every order of clocks and commits.
Record(org, request, result) ==
  \E i \in EventIds \ {e.id : e \in events} :
    events' = events \cup {[id |-> i, org |-> org, request |-> request, result |-> result]}

\* The first n rows in descending order.
First(rows, n) == {i \in rows : Cardinality({j \in rows : j > i}) < n}

\* SqlAlchemyAuditEventReader.list_for_organization; a cursor above every identifier
\* stands for none.
Entries(org, after, limit) == First({i \in Ids(org) : i < after}, limit)

NoCursor == Max(EventIds) + 1

\* Fault: the cursor is taken from the entries instead of the items.
PageOfEntries(org, after) ==
  LET entries == Entries(org, after, PageLimit + 1)
      items == First(entries, PageLimit)
  IN [items |-> items, next |-> IF Cardinality(entries) > PageLimit THEN Min(entries) ELSE NoCursor]

\* ListOrganizationAuditEvents: one entry more than the page holds is read to know
\* whether there is a next page.
Page(org, after) ==
  LET entries == Entries(org, after, PageLimit + 1)
      items == First(entries, PageLimit)
  IN [items |-> items, next |-> IF Cardinality(entries) > PageLimit THEN Min(items) ELSE NoCursor]

Resting == [pc |-> "resting"]

TrailInit == events = {} /\ walk = Resting

\* found are the events there are when the walk begins.
BeginWalk(org) ==
  /\ walk = Resting
  /\ walk' = [pc |-> "walking", org |-> org, after |-> NoCursor, found |-> Ids(org), pages |-> <<>>]
  /\ UNCHANGED events

\* The next page; the walk is over when it names no other.
NextPage ==
  /\ walk.pc = "walking"
  /\ LET page == Page(walk.org, walk.after) IN
     walk' = [walk EXCEPT !.after = page.next, !.pages = Append(@, page.items),
                          !.pc = IF page.next = NoCursor THEN "complete" ELSE "walking"]
  /\ UNCHANGED events

-----------------------------------------------------------------------------
\* A walk that is complete showed every event that was there when it began, and none
\* twice, however many were written meanwhile and wherever they fell.
WalkShowsAll ==
  walk.pc = "complete" =>
    /\ walk.found \subseteq UNION {walk.pages[n] : n \in DOMAIN walk.pages}
    /\ \A m, n \in DOMAIN walk.pages : m # n => walk.pages[m] \cap walk.pages[n] = {}
=============================================================================
