------------------------- MODULE PlatformConnections -------------------------
(***************************************************************************)
(* Organization-owned platform connections: the connect use case, the      *)
(* lifecycle use case with its idempotency keys, the reconciliation worker *)
(* and the platform commands that are only sent over a usable connection.  *)
(*                                                                         *)
(* Every database call is one transaction and one action; between two      *)
(* calls a use case is suspended at an await, and the other processes run. *)
(* What a use case read is kept in its local record and may be stale when  *)
(* it is used.                                                             *)
(***************************************************************************)
EXTENDS ConnectionStatus, Integers, FiniteSets

CONSTANTS
  Connections,   \* connection identifiers: UUIDv7 values, so ordered by age
  Orgs,          \* organizations
  Resources,     \* (platform, external resource) pairs
  Probed,        \* resources of a platform that has a reconciliation probe
  Commandable,   \* resources of a platform that has a command adapter
  Keys,          \* idempotency keys
  NoKey,         \* the header is missing or blank
  None,          \* no organization, no resource
  Connects, Lifecycles, Commands, Workers,   \* concurrent processes of each kind
  BatchLimit,    \* connections one reconciliation tick lists
  MaxFaults      \* bound on lost requests, failed ticks and worker restarts

ASSUME ConstantsAssumption ==
  /\ Connections \subseteq Nat
  /\ IsFiniteSet(Connections)
  /\ Probed \subseteq Resources
  /\ Commandable \subseteq Resources
  /\ NoKey \notin Keys
  /\ None \notin Orgs
  /\ None \notin Resources
  /\ BatchLimit \in Nat \ {0}
  /\ MaxFaults \in Nat

VARIABLES
  status,    \* platform_connections.status, Absent where there is no row
  reason,    \* platform_connections.status_reason
  owner,     \* platform_connections.organization_id
  resource,  \* (platform, external_resource_id), unique in the table
  idem,      \* rows of the lifecycle idempotency table
  connect,   \* local state of each connect request
  life,      \* local state of each lifecycle request
  command,   \* local state of each platform command
  work,      \* local state of each reconciliation worker
  faults     \* faults so far

table == <<status, reason, owner, resource>>
vars == <<table, idem, connect, life, command, work, faults>>

-----------------------------------------------------------------------------
(* Rows and local states.                                                    *)

IdemRows == [org : Orgs, key : Keys, conn : Connections,
             action : LifecycleActions, status : Statuses, reason : Reasons]

Snapshots == [conn : Connections, seen : Statuses]

IdleConnect == [pc |-> "idle", org |-> None, resource |-> None]
IdleLife == [pc |-> "idle", org |-> None, conn |-> None, action |-> None,
             key |-> NoKey, found |-> {}]
IdleCommand == [pc |-> "idle", org |-> None, conn |-> None]
IdleWorker == [pc |-> "idle", batch |-> {}, decision |-> UnreachableDecision]

Init ==
  /\ status = [c \in Connections |-> Absent]
  /\ reason = [c \in Connections |-> None]
  /\ owner = [c \in Connections |-> None]
  /\ resource = [c \in Connections |-> None]
  /\ idem = {}
  /\ connect = [p \in Connects |-> IdleConnect]
  /\ life = [p \in Lifecycles |-> IdleLife]
  /\ command = [p \in Commands |-> IdleCommand]
  /\ work = [w \in Workers |-> IdleWorker]
  /\ faults = 0

-----------------------------------------------------------------------------
(* The repository.                                                           *)

\* Fault: the query forgets the organization.
VisibleToAll(org, c) == c \in Connections /\ status[c] # Absent

\* find_for_organization: the row exists and belongs to the organization.
Visible(org, c) == c \in Connections /\ status[c] # Absent /\ owner[c] = org

\* find_idempotent_lifecycle_result: zero rows or one.
FindIdempotent(org, key) == {x \in idem : x.org = org /\ x.key = key}

\* Fault: the idempotency table has no primary key.
KeyAlwaysFree(org, key) == TRUE

\* The primary key (organization_id, idempotency_key) admits a new row.
KeyFree(org, key) == FindIdempotent(org, key) = {}

\* Fault: the unique index leaves disconnected rows out.
ResourceNotInUse(res) ==
  \A c \in Connections : status[c] # "disconnected" => resource[c] # res

\* The unique constraint on (platform, external_resource_id) admits a new row.
ResourceFree(res) == \A c \in Connections : resource[c] # res

\* Fault: the reason is not written with the status.
SetStatusOnly(c, newStatus, newReason) ==
  /\ status' = [status EXCEPT ![c] = newStatus]
  /\ UNCHANGED <<reason, owner, resource>>

\* The part of update_status that every caller shares: an UPDATE by identifier,
\* whatever status the row has by now.
SetStatus(c, newStatus, newReason) ==
  /\ status' = [status EXCEPT ![c] = newStatus]
  /\ reason' = [reason EXCEPT ![c] = newReason]
  /\ UNCHANGED <<owner, resource>>

\* Fault: any change of status is accepted.
MayMoveAnywhere(from, to) == from # to

\* transition_to accepts the move.
MayMove(from, to) == to \in AllowedTransitions[from]

-----------------------------------------------------------------------------
(* ConnectPlatformConnection: authorize, verify with the platform, insert.   *)
(* A request that is denied, or whose resource is not verified, ends there.  *)

BeginConnect(p) ==
  /\ connect[p].pc = "idle"
  /\ \E org \in Orgs, res \in Resources :
       connect' = [connect EXCEPT ![p] = [pc |-> "create", org |-> org, resource |-> res]]
  /\ UNCHANGED <<table, idem, life, command, work, faults>>

\* The identifier is new; the unique constraint on the resource decides a race.
CreateConnection(p) ==
  LET q == connect[p] IN
  /\ q.pc = "create"
  /\ \/ /\ ResourceFree(q.resource)
        /\ \E c \in Connections :
             /\ status[c] = Absent
             /\ status' = [status EXCEPT ![c] = "pending"]
             /\ reason' = [reason EXCEPT ![c] = "initial_pending"]
             /\ owner' = [owner EXCEPT ![c] = q.org]
             /\ resource' = [resource EXCEPT ![c] = q.resource]
     \/ /\ ~ResourceFree(q.resource)
        /\ UNCHANGED table
  /\ connect' = [connect EXCEPT ![p] = IdleConnect]
  /\ UNCHANGED <<idem, life, command, work, faults>>

-----------------------------------------------------------------------------
(* ManagePlatformConnectionLifecycle.                                        *)

\* The request has been authorized and its key normalised: a blank header is no
\* key.  A denied request, or one with an overlong key, ends without a step.
BeginLifecycle(p) ==
  /\ life[p].pc = "idle"
  /\ \E org \in Orgs, c \in Connections, a \in LifecycleActions,
        key \in Keys \cup {NoKey} :
       life' = [life EXCEPT ![p] =
         [pc |-> IF key = NoKey THEN "find" ELSE "lookup", org |-> org,
          conn |-> c, action |-> a, key |-> key, found |-> {}]]
  /\ UNCHANGED <<table, idem, connect, command, work, faults>>

LookupKey(p) ==
  LET q == life[p]
      found == FindIdempotent(q.org, q.key) IN
  /\ q.pc = "lookup"
  /\ life' = [life EXCEPT ![p] =
       [q EXCEPT !.pc = IF found = {} THEN "find" ELSE "replay", !.found = found]]
  /\ UNCHANGED <<table, idem, connect, command, work, faults>>

\* The request ended: rejected, or answered with a success.
Reject(p) == life' = [life EXCEPT ![p] = IdleLife]
Answer(p) == life' = [life EXCEPT ![p] = IdleLife]

\* A stored result is returned to the same command, and to no other.
ReplayResult(p) ==
  LET q == life[p]
      same == \A x \in q.found : x.conn = q.conn /\ x.action = q.action IN
  /\ q.pc = "replay"
  /\ \/ Visible(q.org, q.conn) /\ same /\ Answer(p)
     \/ ~(Visible(q.org, q.conn) /\ same) /\ Reject(p)
  /\ UNCHANGED <<table, idem, connect, command, work, faults>>

FindConnection(p) ==
  LET q == life[p]
      target == TargetStatus(q.action) IN
  /\ q.pc = "find"
  /\ \/ ~Visible(q.org, q.conn) /\ Reject(p)
     \/ Visible(q.org, q.conn) /\ status[q.conn] = target /\ Answer(p)
     \/ /\ Visible(q.org, q.conn) /\ status[q.conn] # target
        /\ ~MayMove(status[q.conn], target)
        /\ Reject(p)
     \/ /\ Visible(q.org, q.conn) /\ status[q.conn] # target
        /\ MayMove(status[q.conn], target)
        /\ life' = [life EXCEPT ![p] = [q EXCEPT !.pc = "write"]]
  /\ UNCHANGED <<table, idem, connect, command, work, faults>>

\* update_status: status, idempotency row and audit event in one transaction;
\* a duplicate key rolls all of it back.
SaveLifecycle(p) ==
  LET q == life[p]
      target == TargetStatus(q.action)
      row == [org |-> q.org, key |-> q.key, conn |-> q.conn, action |-> q.action,
              status |-> target, reason |-> ActionReason(q.action)] IN
  /\ q.pc = "write"
  /\ \/ /\ Visible(q.org, q.conn)
        /\ KeyFree(q.org, q.key)
        /\ SetStatus(q.conn, target, ActionReason(q.action))
        /\ idem' = IF q.key = NoKey THEN idem ELSE idem \cup {row}
        /\ Answer(p)
     \/ /\ ~(Visible(q.org, q.conn) /\ KeyFree(q.org, q.key))
        /\ Reject(p)
        /\ UNCHANGED <<table, idem>>
  /\ UNCHANGED <<connect, command, work, faults>>

\* The request is cancelled, or its process dies, between two transactions.
LoseLifecycle(p) ==
  /\ life[p].pc # "idle"
  /\ faults < MaxFaults
  /\ faults' = faults + 1
  /\ Reject(p)
  /\ UNCHANGED <<table, idem, connect, command, work>>

-----------------------------------------------------------------------------
(* A platform command (welcome settings, channel purpose, moderation         *)
(* policy): it is sent over a connection that was read as active.            *)

BeginCommand(p) ==
  /\ command[p].pc = "idle"
  /\ \E org \in Orgs, c \in Connections :
       command' = [command EXCEPT ![p] = [pc |-> "check", org |-> org, conn |-> c]]
  /\ UNCHANGED <<table, idem, connect, life, work, faults>>

Usable(org, c) == /\ Visible(org, c)
                  /\ resource[c] \in Commandable
                  /\ status[c] = "active"

CheckCommand(p) ==
  LET q == command[p] IN
  /\ q.pc = "check"
  /\ command' = [command EXCEPT ![p] =
       IF Usable(q.org, q.conn) THEN [q EXCEPT !.pc = "send"] ELSE IdleCommand]
  /\ UNCHANGED <<table, idem, connect, life, work, faults>>

SendCommand(p) ==
  /\ command[p].pc = "send"
  /\ command' = [command EXCEPT ![p] = IdleCommand]
  /\ UNCHANGED <<table, idem, connect, life, work, faults>>

-----------------------------------------------------------------------------
(* ReconcilePlatformConnections, run by the periodic worker.                 *)

\* Fault: disconnected rows are listed too.
AllRows == {c \in Connections : status[c] # Absent}

\* list_reconcilable: the oldest BatchLimit connections not disconnected.
Candidates == {c \in Connections : status[c] \notin {Absent, "disconnected"}}
Listed(c) == /\ c \in Candidates
             /\ Cardinality({d \in Candidates : d < c}) < BatchLimit
Batch == {[conn |-> c, seen |-> status[c]] : c \in {d \in Connections : Listed(d)}}

StartTick(w) ==
  /\ work[w].pc = "idle"
  /\ Batch # {}
  /\ work' = [work EXCEPT ![w] = [@ EXCEPT !.pc = "inspect", !.batch = Batch]]
  /\ UNCHANGED <<table, idem, connect, life, command, faults>>

\* Fault: the decision on one connection of the batch is written to another.
InBatch(s, batch) == s \in batch

\* The batch is worked through in identifier order.
IsHead(s, batch) == s \in batch /\ \A t \in batch : s.conn <= t.conn

\* Fault: the loop ends after one connection.
AfterItemStops(batch) == IdleWorker

AfterItem(batch) == [IdleWorker EXCEPT !.pc = IF batch = {} THEN "idle" ELSE "inspect",
                                       !.batch = batch]

\* _apply_decision writes only a legal move from the status listed.
Applies(s, d) == s.seen # "disconnected" /\ s.seen # d.target /\ MayMove(s.seen, d.target)

\* One probe and the decision it leads to: skipped, or to be written.
InspectConnection(w) ==
  /\ work[w].pc = "inspect"
  /\ \E s \in work[w].batch :
       /\ IsHead(s, work[w].batch)
       /\ \/ /\ resource[s.conn] \notin Probed
             /\ work' = [work EXCEPT ![w] = AfterItem(work[w].batch \ {s})]
          \/ /\ resource[s.conn] \in Probed
             /\ \E d \in Decisions \cup {UnreachableDecision} :
                  work' = [work EXCEPT ![w] =
                    IF Applies(s, d) THEN [@ EXCEPT !.pc = "write", !.decision = d]
                                     ELSE AfterItem(@.batch \ {s})]
  /\ UNCHANGED <<table, idem, connect, life, command, faults>>

SaveReconciled(w) ==
  /\ work[w].pc = "write"
  /\ \E s \in work[w].batch :
       /\ IsHead(s, work[w].batch)
       /\ SetStatus(s.conn, work[w].decision.target, work[w].decision.reason)
       /\ work' = [work EXCEPT ![w] = AfterItem(@.batch \ {s})]
  /\ UNCHANGED <<idem, connect, life, command, faults>>

\* An exception other than an unavailable platform ends the tick; stop() cancels it.
FailTick(w) ==
  /\ work[w].pc \in {"inspect", "write"}
  /\ faults < MaxFaults
  /\ faults' = faults + 1
  /\ work' = [work EXCEPT ![w] = IdleWorker]
  /\ UNCHANGED <<table, idem, connect, life, command>>

StopWorker(w) ==
  /\ work[w].pc # "stopped"
  /\ faults < MaxFaults
  /\ faults' = faults + 1
  /\ work' = [work EXCEPT ![w] = [IdleWorker EXCEPT !.pc = "stopped"]]
  /\ UNCHANGED <<table, idem, connect, life, command>>

StartWorker(w) ==
  /\ work[w].pc = "stopped"
  /\ work' = [work EXCEPT ![w] = IdleWorker]
  /\ UNCHANGED <<table, idem, connect, life, command, faults>>

-----------------------------------------------------------------------------

ConnectNext(p) == BeginConnect(p) \/ CreateConnection(p)

LifecycleNext(p) == \/ BeginLifecycle(p) \/ LookupKey(p) \/ ReplayResult(p)
                    \/ FindConnection(p) \/ SaveLifecycle(p) \/ LoseLifecycle(p)

CommandNext(p) == BeginCommand(p) \/ CheckCommand(p) \/ SendCommand(p)

WorkerStep(w) == StartTick(w) \/ InspectConnection(w) \/ SaveReconciled(w) \/ StartWorker(w)

WorkerNext(w) == WorkerStep(w) \/ FailTick(w) \/ StopWorker(w)

Next == \/ \E p \in Connects : ConnectNext(p)
        \/ \E p \in Lifecycles : LifecycleNext(p)
        \/ \E p \in Commands : CommandNext(p)
        \/ \E w \in Workers : WorkerNext(w)

\* The event loop keeps running the worker's task.
Fairness == \A w \in Workers : WF_vars(WorkerStep(w))

Spec == Init /\ [][Next]_vars /\ Fairness

-----------------------------------------------------------------------------
(* Properties.                                                               *)

LifeStates ==
  {IdleLife} \cup
  [pc : {"lookup", "find", "replay", "write"}, org : Orgs, conn : Connections,
   action : LifecycleActions, key : Keys \cup {NoKey}, found : SUBSET IdemRows]

\* Every variable has the shape the tables and the use cases give it.
TypeOK ==
  /\ status \in [Connections -> Statuses \cup {Absent}]
  /\ reason \in [Connections -> Reasons \cup {None}]
  /\ owner \in [Connections -> Orgs \cup {None}]
  /\ resource \in [Connections -> Resources \cup {None}]
  /\ idem \subseteq IdemRows
  /\ connect \in [Connects -> {IdleConnect} \cup
                              [pc : {"create"}, org : Orgs, resource : Resources]]
  /\ life \in [Lifecycles -> LifeStates]
  /\ command \in [Commands -> {IdleCommand} \cup
                              [pc : {"check", "send"}, org : Orgs, conn : Connections]]
  /\ work \in [Workers -> [pc : {"idle", "inspect", "write", "stopped"},
                           batch : SUBSET Snapshots, decision : Decisions]]
  /\ faults \in 0 .. MaxFaults

\* The reasons a status may be shown with.
ReasonsFor ==
  [s \in Statuses |->
     CASE s = "pending"         -> {"initial_pending"}
       [] s = "active"          -> {"healthy", "reauthorized"}
       [] s = "degraded"        -> {"healthy", "preflight_failed", "platform_unreachable"}
       [] s = "reauth_required" -> {"token_expired", "scopes_missing", "revoked"}
       [] s = "disconnected"    -> {"resource_removed", "disconnected"}]

\* However lifecycle requests and reconciliation overlap, the stored reason
\* explains the stored status: update_status writes both in one statement.
ReasonMatchesStatus ==
  \A c \in Connections : status[c] # Absent => reason[c] \in ReasonsFor[status[c]]

\* Two connect requests racing for one resource leave one connection: the unique
\* constraint on (platform, external_resource_id) holds across organizations.
ResourceOwnedOnce ==
  \A c, d \in Connections :
    resource[c] # None /\ resource[c] = resource[d] => c = d

\* No process acts across tenants: a lifecycle request about to write, a command
\* about to be sent and every stored retry result concern a connection of their
\* own organization, although the check was made in an earlier transaction.
TenantIsolation ==
  /\ \A p \in Lifecycles : life[p].pc = "write" => owner[life[p].conn] = life[p].org
  /\ \A p \in Commands : command[p].pc = "send" => owner[command[p].conn] = command[p].org
  /\ \A x \in idem : owner[x.conn] = x.org

\* One result per (organization, key), and it is the result of its action: two
\* concurrent requests with one key cannot both be recorded.
IdempotencyRecordsSound ==
  /\ \A x, y \in idem : x.org = y.org /\ x.key = y.key => x = y
  /\ \A x \in idem : x.status = TargetStatus(x.action) /\ x.reason = ActionReason(x.action)

\* A keyed request changes a connection only in the transaction that stores its
\* result: of two racing requests with one key, the loser changes nothing.
LosingRetryChangesNothing ==
  [][\A p \in Lifecycles :
       /\ life[p].pc = "write" /\ life'[p] # life[p] /\ life[p].key # NoKey
       /\ table' # table
       => /\ FindIdempotent(life[p].org, life[p].key) = {}
          /\ idem' # idem]_vars

\* A use case that read connection c before now may still write it.
InFlight(c) == \/ \E p \in Lifecycles : life[p].pc = "write" /\ life[p].conn = c
               \/ \E w \in Workers : \E s \in work[w].batch : s.conn = c

Settled(c) == status[c] = "disconnected" /\ ~InFlight(c)

\* Once a connection is disconnected and every operation that had read it earlier
\* is over, it stays disconnected: no request and no tick that starts later can
\* bring it back.
DisconnectedSettles == [][\A c \in Connections : Settled(c) => Settled(c)']_vars

\* The tick's position: the connection that is probed next.
Inspecting(c) == \E w \in Workers : /\ work[w].pc = "inspect"
                                   /\ \E s \in work[w].batch : s.conn = c /\ IsHead(s, work[w].batch)

\* While it is among the oldest BatchLimit connections that are not disconnected,
\* a connection is inspected again and again, though ticks may fail.
InspectedRepeatedly ==
  \A c \in Connections : []<>(~Listed(c) \/ Inspecting(c))

\* The moves of c that an operation in flight found legal when it read c.
Intended == [c \in Connections |->
  {t \in Statuses :
     \/ \E p \in Lifecycles : /\ life[p].pc = "write" /\ life[p].conn = c
                             /\ TargetStatus(life[p].action) = t
     \/ \E w \in Workers : \E s \in work[w].batch :
          s.conn = c /\ t \in AllowedTransitions[s.seen]}]

Lifecycle == INSTANCE ConnectionLifecycle WITH intended <- Intended

\* The use cases implement the transition table as far as overlapping operations
\* can: update_status, an UPDATE by identifier, only ever stores a status that the
\* table allowed from a status the connection had when an operation that is still
\* in flight read it.  A tick never writes one connection's decision to another,
\* and nothing is written on the strength of a read whose operation is over.
FollowsTable == Lifecycle!Spec

-----------------------------------------------------------------------------
(* A statement of the domain that the code does not keep.                    *)

\* The transition table gives a disconnected connection no successor.
DisconnectedIsTerminal ==
  [][\A c \in Connections :
       status[c] = "disconnected" => status'[c] = "disconnected"]_vars
=============================================================================
