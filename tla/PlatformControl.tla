----------------------------- MODULE PlatformControl -----------------------------
(***************************************************************************)
(* Control calls: a signed-in actor reads or changes something a platform  *)
(* service owns. The Console authorizes, finds the connection, signs a     *)
(* short-lived assertion, sends it and waits; the service answers when it  *)
(* likes, or never. What the Console read may have changed by then, and a  *)
(* call it gave up may still take effect.                                  *)
(*                                                                         *)
(* One actor makes the requests, each once. The services are external:     *)
(* they accept an assertion until it expires and may refuse any.           *)
(***************************************************************************)
EXTENDS ControlContracts, OrganizationRoles, ConnectionStatus, AuditTrail

CONSTANTS
  Connections,
  OrgOf, PlatformOf,  \* of each connection
  Requests,
  None,               \* no connection, no request
  Lifetime,           \* of an assertion
  MaxTime,            \* bound on the clock
  MaxChanges          \* bound on the changes made elsewhere

ASSUME ControlAssumption ==
  /\ OrgOf \in [Connections -> Orgs] /\ PlatformOf \in [Connections -> STRING]
  /\ None \notin Connections \cup Requests /\ None \notin Nat
  /\ Lifetime \in Nat \ {0} /\ MaxTime \in Nat /\ MaxChanges \in Nat

VARIABLES
  now,
  role,     \* the actor's role in each organization
  status,   \* of each connection
  linked,   \* identities the actor linked, for each platform
  sent,     \* calls on their way, with their assertions
  applied,  \* changes that a service made
  changes,  \* made elsewhere
  req       \* local state of each request

vars == <<now, role, status, linked, sent, applied, changes, req, events, walk>>

-----------------------------------------------------------------------------
NoRole == "none"

Platforms == {"discord", "twitch", "telegram"}

\* What a call changes at the platform.
Change(u, c) == IF c.method = "GET" THEN "nothing" ELSE IF u.audited THEN "policy" ELSE "settings"

\* What the control flow of a call depends on, and of the checks before it.
Call(u, platform) ==
  LET c == u.clients[platform] IN
  [claims |-> c.claims, subject |-> c.subject, without |-> c.without, change |-> Change(u, c),
   audited |-> u.audited, refusals |-> Refusals(c.parser)]

\* A use case without a client for the platform fails once the connection is found.
Checks(u, platform) ==
  [scope |-> <<u.resource, u.action>>, names |-> u.names, usable |-> u.usable, recent |-> u.recent,
   missing |-> u.missing, made |-> IF platform \in DOMAIN u.clients THEN Call(u, platform) ELSE None]

\* The modules are those of Discord; every other path leads to some platform.
Calls ==
  {[platform |-> x[2], call |-> Checks(x[1], x[2])] :
     x \in {y \in UseCases \X Platforms : y[1].names = "organization" => y[2] = "discord"}}

\* An assertion names the organization, the resource of a connection and an action.
Issue(org, connection, action) ==
  [org |-> org, connection |-> connection, action |-> action, issued |-> now,
   exp |-> now + Lifetime]

New == [pc |-> "new"]

Done(code) == [pc |-> "done", code |-> code]

ControlInit ==
  /\ TrailInit
  /\ now = 0
  /\ role \in {r \in [Orgs -> {"owner", "viewer", NoRole}] : \E o \in Orgs : r[o] = "owner"}
  /\ status = [c \in Connections |-> "active"]
  /\ linked = [p \in Platforms |-> 1]
  /\ sent = {} /\ applied = {}
  /\ changes = 0
  /\ req = [r \in Requests |-> New]

Becomes(r, q) == req' = [req EXCEPT ![r] = q]

environment == <<now, role, status, linked, changes>>

-----------------------------------------------------------------------------
Permitted(org, scope) == role[org] # NoRole /\ Allows(role[org], Scopes, scope)

\* The use case is called for a path. A member has every grant its role supports.
Begin(r) ==
  /\ req[r] = New
  /\ \E x \in Calls, org \in Orgs :
     \E c \in IF x.call.names = "connection" THEN Connections ELSE {None} :
       /\ c # None => PlatformOf[c] = x.platform
       /\ \/ x.call.recent /\ Becomes(r, Done(403))
          \/ Becomes(r, IF Permitted(org, x.call.scope)
                          THEN [pc |-> "find", org |-> org, connection |-> c,
                                platform |-> x.platform, call |-> x.call]
                          ELSE Done(403))
  /\ UNCHANGED <<environment, sent, applied, events, walk>>

\* find_for_organization and the status, or any usable connection of the platform.
Found(q) ==
  CASE q.call.names \in {"organization", "any platform"} -> TRUE
    [] q.call.names = "platform" ->
         \E c \in Connections : /\ OrgOf[c] = q.org /\ PlatformOf[c] = q.platform
                                /\ status[c] \in q.call.usable
    [] q.call.names = "connection" ->
         OrgOf[q.connection] = q.org /\ status[q.connection] \in q.call.usable

Find(r) ==
  LET q == req[r] IN
  /\ q.pc = "find"
  /\ Becomes(r, IF ~Found(q) THEN Done(404)
                ELSE IF q.call.made = None THEN Done(q.call.missing)
                ELSE [pc |-> "sign", org |-> q.org, connection |-> q.connection,
                      platform |-> q.platform, call |-> q.call.made])
  /\ UNCHANGED <<environment, sent, applied, events, walk>>

\* The call failed before or after it was sent; an audited one says so first.
Failed(r, code) ==
  IF req[r].call.audited
    THEN Becomes(r, [pc |-> "audit", org |-> req[r].org, result |-> "failed", code |-> code])
    ELSE Becomes(r, Done(code))

Waiting(q) ==
  [pc |-> "wait", org |-> q.org,
   call |-> [audited |-> q.call.audited, refusals |-> q.call.refusals]]

\* The client method: find_provider_subject, which raises if there are several, then
\* the assertion and the call.
Sign(r) ==
  LET q == req[r] IN
  /\ q.pc = "sign"
  /\ \/ /\ q.call.subject => linked[q.platform] = 1
        /\ sent' = sent \cup {[request |-> r, change |-> q.call.change,
                               assertion |-> Issue(q.org, q.connection, q.call.claims)]}
        /\ Becomes(r, Waiting(q))
     \/ /\ q.call.subject /\ linked[q.platform] # 1
        /\ Failed(r, IF linked[q.platform] = 0 THEN q.call.without ELSE 500)
        /\ UNCHANGED sent
  /\ UNCHANGED <<environment, applied, events, walk>>

\* A service gets the call: it accepts it, and then changes what it was asked to, or
\* refuses it.
Serve(m) ==
  /\ m \in sent
  /\ \/ /\ now < m.assertion.exp
        /\ applied' = IF m.change # "nothing" THEN applied \cup {m} ELSE applied
        /\ IF req[m.request].pc = "wait"
             THEN Becomes(m.request, [req[m.request] EXCEPT !.pc = "served"])
             ELSE UNCHANGED req
     \/ /\ UNCHANGED applied
        /\ IF req[m.request].pc = "wait" THEN Failed(m.request, 503) ELSE UNCHANGED req
  /\ sent' = sent \ {m}
  /\ UNCHANGED <<environment, events, walk>>

\* The client stops waiting, though the call may still arrive.
TimeOut(r) ==
  /\ req[r].pc = "wait"
  /\ Failed(r, 503)
  /\ UNCHANGED <<environment, sent, applied, events, walk>>

Succeeded(r) ==
  IF req[r].call.audited
    THEN Becomes(r, [pc |-> "audit", org |-> req[r].org, result |-> "succeeded", code |-> 200])
    ELSE Becomes(r, Done(200))

\* The answer arrives and is parsed, or is lost.
Receive(r) ==
  /\ req[r].pc = "served"
  /\ \/ Succeeded(r)
     \/ \E code \in req[r].call.refusals \cup {503} : Failed(r, code)
  /\ UNCHANGED <<environment, sent, applied, events, walk>>

\* Fault: only a success is recorded.
RecordAuditOfSuccess(r) ==
  LET q == req[r] IN
  /\ q.pc = "audit"
  /\ IF q.result = "succeeded" THEN Record(q.org, r, q.result) ELSE UNCHANGED events
  /\ Becomes(r, Done(q.code))
  /\ UNCHANGED <<environment, sent, applied, walk>>

\* Fault: the result is fixed when the call is made.
RecordAuditAsAsked(r) ==
  LET q == req[r] IN
  /\ q.pc = "audit"
  /\ Record(q.org, r, "succeeded") /\ Becomes(r, Done(q.code))
  /\ UNCHANGED <<environment, sent, applied, walk>>

\* _record_audit in a transaction of its own; its failure replaces the answer.
RecordAudit(r) ==
  LET q == req[r] IN
  /\ q.pc = "audit"
  /\ \/ Record(q.org, r, q.result) /\ Becomes(r, Done(q.code))
     \/ UNCHANGED events /\ Becomes(r, Done(500))
  /\ UNCHANGED <<environment, sent, applied, walk>>

\* The process restarts.
Crash(r) ==
  /\ req[r].pc \notin {"new", "done"}
  /\ Becomes(r, Done(None))
  /\ UNCHANGED <<environment, sent, applied, events, walk>>

-----------------------------------------------------------------------------
(* The trail.                                                                *)

\* A page is read with the role of the moment.
ReadTrail ==
  /\ UNCHANGED <<environment, sent, applied, req>>
  /\ \/ \E o \in Orgs : Permitted(o, <<"audit_events", "read">>) /\ BeginWalk(o)
     \/ NextPage /\ Permitted(walk.org, <<"audit_events", "read">>)

-----------------------------------------------------------------------------
(* What happens elsewhere.                                                   *)

Elsewhere ==
  /\ changes < MaxChanges
  /\ changes' = changes + 1
  /\ UNCHANGED <<sent, applied, req, walk>>

ChangeRole ==
  /\ Elsewhere
  /\ \E o \in Orgs, x \in {"owner", "viewer", NoRole} : role' = [role EXCEPT ![o] = x]
  /\ UNCHANGED <<now, status, linked, events>>

ChangeStatus ==
  /\ Elsewhere
  /\ \E c \in Connections : \E s \in AllowedTransitions[status[c]] :
       status' = [status EXCEPT ![c] = s]
  /\ UNCHANGED <<now, role, linked, events>>

\* LoginIdentities: identities of a provider come and go, and there may be two.
ChangeIdentity ==
  /\ Elsewhere
  /\ \E p \in Platforms : \E n \in {linked[p] - 1, linked[p] + 1} \cap 0..2 :
       linked' = [linked EXCEPT ![p] = n]
  /\ UNCHANGED <<now, role, status, events>>

OtherEvent ==
  /\ Elsewhere
  /\ \E o \in Orgs : Record(o, None, "succeeded")
  /\ UNCHANGED <<now, role, status, linked>>

Tick ==
  /\ now < MaxTime
  /\ now' = now + 1
  /\ UNCHANGED <<role, status, linked, changes, sent, applied, events, walk, req>>

ControlNext ==
  \/ \E r \in Requests :
       Begin(r) \/ Find(r) \/ Sign(r) \/ TimeOut(r) \/ Receive(r) \/ RecordAudit(r) \/ Crash(r)
  \/ \E m \in sent : Serve(m)
  \/ ReadTrail
  \/ ChangeRole \/ ChangeStatus \/ ChangeIdentity \/ OtherEvent \/ Tick

ControlSpec == ControlInit /\ [][ControlNext]_vars

-----------------------------------------------------------------------------
(* Properties.                                                               *)

EventsOf(r) == {e \in events : e.request = r}

\* An audit event that says a policy was changed is about a change the platform made,
\* and no request leaves two events. (An event that says "failed" may be about one too:
\* the answer was late, lost or unreadable.)
AuditTruthful ==
  \A r \in Requests :
    /\ Cardinality(EventsOf(r)) <= 1
    /\ \A e \in EventsOf(r) : e.result = "succeeded" => \E m \in applied : m.request = r

\* A change of the policy that its actor was told of, as done or as failed, is in the
\* audit trail of the organization whose connection it was: without its event the
\* request is still running, failed with it, or its process restarted.
PolicyChangeIsAudited ==
  \A r \in Requests : \A m \in applied :
    /\ m.request = r /\ m.change = "policy"
    /\ req[r].pc = "done" /\ req[r].code \in {200, 503}
    => \E e \in EventsOf(r) : e.org = OrgOf[m.assertion.connection]
=============================================================================
