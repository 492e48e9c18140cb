---------------------- MODULE PlatformConnectionsProofs ----------------------
(* Proofs about PlatformConnections, for every set of connections,            *)
(* organizations, keys and concurrent processes.                              *)
EXTENDS PlatformConnections, TLAPS

-----------------------------------------------------------------------------
(* The tables.                                                               *)

\* No transition, and so no write, leads back to "pending", and every lifecycle
\* action writes a reason that fits its target.
LEMMA LifecycleTargets ==
  ASSUME NEW a \in LifecycleActions
  PROVE  /\ TargetStatus(a) \in Statuses /\ TargetStatus(a) # "pending"
         /\ ActionReason(a) \in Reasons
         /\ ActionReason(a) \in ReasonsFor[TargetStatus(a)]
BY DEF LifecycleActions, TargetStatus, ActionReason, Statuses, Reasons, ReasonsFor

\* The transition table closes over the statuses and never returns to "pending";
\* nothing follows "disconnected".
LEMMA Transitions ==
  ASSUME NEW s \in Statuses, NEW t, MayMove(s, t)
  PROVE  t \in Statuses /\ t # "pending" /\ s # "disconnected"
BY DEF Statuses, MayMove, AllowedTransitions

\* A decision a probe can return, written as a real move, has a fitting reason.
LEMMA DecisionReasons ==
  ASSUME NEW d \in Decisions
  PROVE  /\ d.target \in Statuses
         /\ d.reason \in Reasons
         /\ d.target # "pending" => d.reason \in ReasonsFor[d.target]
<1>1. /\ d.target \in Statuses
      /\ d.reason \in DOMAIN AllowedTargets
      /\ d.target \in AllowedTargets[d.reason]
  BY DEF Decisions
<1>2. d.reason \in {"healthy", "preflight_failed", "token_expired", "scopes_missing",
                    "platform_unreachable", "resource_removed"}
  BY <1>1 DEF AllowedTargets
<1> QED BY <1>1, <1>2 DEF AllowedTargets, Statuses, Reasons, ReasonsFor

\* The fallback for an unreachable platform is itself a well-formed decision.
LEMMA UnreachableIsDecision == UnreachableDecision \in Decisions
BY DEF UnreachableDecision, Decisions, AllowedTargets, Statuses

-----------------------------------------------------------------------------
(* Type correctness.                                                         *)

\* Every action keeps every variable in its type.
LEMMA TypeStep == TypeOK /\ [Next]_vars => TypeOK'
<1> SUFFICES ASSUME TypeOK, [Next]_vars PROVE TypeOK'
  OBVIOUS
<1> USE ConstantsAssumption DEF table
<1>1. ASSUME NEW p \in Connects, BeginConnect(p) PROVE TypeOK'
  BY <1>1 DEF TypeOK, BeginConnect
<1>2. ASSUME NEW p \in Connects, CreateConnection(p) PROVE TypeOK'
  <2>1. CASE UNCHANGED table
    BY <1>2, <2>1 DEF TypeOK, CreateConnection, IdleConnect
  <2>2. ASSUME NEW c \in Connections,
               status' = [status EXCEPT ![c] = "pending"],
               reason' = [reason EXCEPT ![c] = "initial_pending"],
               owner' = [owner EXCEPT ![c] = connect[p].org],
               resource' = [resource EXCEPT ![c] = connect[p].resource]
        PROVE TypeOK'
    BY <1>2, <2>2 DEF TypeOK, CreateConnection, IdleConnect, Statuses, Reasons
  <2> QED BY <1>2, <2>1, <2>2 DEF CreateConnection
<1>3. ASSUME NEW p \in Lifecycles, BeginLifecycle(p) PROVE TypeOK'
  BY <1>3 DEF TypeOK, BeginLifecycle, LifeStates
<1>4. ASSUME NEW p \in Lifecycles, LookupKey(p) PROVE TypeOK'
  <2>1. life[p] \in LifeStates /\ life[p] # IdleLife
    BY <1>4 DEF TypeOK, LookupKey, IdleLife
  <2>2. FindIdempotent(life[p].org, life[p].key) \in SUBSET IdemRows
    BY DEF FindIdempotent, TypeOK
  <2>3. life' \in [Lifecycles -> LifeStates]
    BY <1>4, <2>1, <2>2 DEF TypeOK, LookupKey, LifeStates
  <2> QED BY <1>4, <2>3 DEF TypeOK, LookupKey
<1>5. ASSUME NEW p \in Lifecycles, life[p] # IdleLife, Answer(p)
      PROVE life' \in [Lifecycles -> LifeStates]
  BY <1>5 DEF TypeOK, Answer, LifeStates
<1>6. ASSUME NEW p \in Lifecycles, Reject(p)
      PROVE life' \in [Lifecycles -> LifeStates]
  BY <1>6 DEF TypeOK, Reject, LifeStates
<1>7. ASSUME NEW p \in Lifecycles, ReplayResult(p) PROVE TypeOK'
  BY <1>5, <1>6, <1>7 DEF TypeOK, ReplayResult, IdleLife
<1>8. ASSUME NEW p \in Lifecycles, FindConnection(p) PROVE TypeOK'
  <2>1. life[p] # IdleLife
    BY <1>8 DEF FindConnection, IdleLife
  <2>2. ASSUME life' = [life EXCEPT ![p] = [life[p] EXCEPT !.pc = "write"]]
        PROVE life' \in [Lifecycles -> LifeStates]
    <3>1. life[p] \in LifeStates
      BY DEF TypeOK
    <3>2. [life[p] EXCEPT !.pc = "write"] \in LifeStates
      BY <2>1, <3>1 DEF LifeStates
    <3> QED BY <2>2, <3>2 DEF TypeOK
  <2>3. life' \in [Lifecycles -> LifeStates]
    BY <1>5, <1>6, <1>8, <2>1, <2>2 DEF FindConnection, TypeOK
  <2> QED BY <1>8, <2>3 DEF TypeOK, FindConnection
<1>9. ASSUME NEW p \in Lifecycles, SaveLifecycle(p) PROVE TypeOK'
  <2> DEFINE q == life[p]
  <2>1. life[p] # IdleLife
    BY <1>9 DEF SaveLifecycle, IdleLife
  <2>2. /\ q.org \in Orgs /\ q.conn \in Connections /\ q.action \in LifecycleActions
        /\ q.key \in Keys \cup {NoKey}
    BY <2>1 DEF TypeOK, LifeStates
  <2>3. /\ TargetStatus(q.action) \in Statuses
        /\ ActionReason(q.action) \in Reasons
    BY <2>2, LifecycleTargets
  <2>4. life' \in [Lifecycles -> LifeStates]
    BY <1>5, <1>6, <1>9, <2>1 DEF SaveLifecycle
  <2>5. /\ status' \in [Connections -> Statuses \cup {Absent}]
        /\ reason' \in [Connections -> Reasons \cup {None}]
        /\ owner' = owner /\ resource' = resource
    BY <1>9, <2>2, <2>3 DEF SaveLifecycle, SetStatus, TypeOK
  <2>6. idem' \subseteq IdemRows
    BY <1>9, <2>2, <2>3 DEF SaveLifecycle, TypeOK, IdemRows
  <2> QED BY <1>9, <2>4, <2>5, <2>6 DEF TypeOK, SaveLifecycle
<1>10. ASSUME NEW p \in Lifecycles, LoseLifecycle(p) PROVE TypeOK'
  BY <1>6, <1>10 DEF TypeOK, LoseLifecycle
<1>11. ASSUME NEW p \in Commands, BeginCommand(p) PROVE TypeOK'
  BY <1>11 DEF TypeOK, BeginCommand
<1>12. ASSUME NEW p \in Commands, CheckCommand(p) PROVE TypeOK'
  BY <1>12 DEF TypeOK, CheckCommand, IdleCommand
<1>13. ASSUME NEW p \in Commands, SendCommand(p) PROVE TypeOK'
  BY <1>13 DEF TypeOK, SendCommand, IdleCommand
<1> DEFINE WorkType == [Workers -> [pc : {"idle", "inspect", "write", "stopped"},
                                    batch : SUBSET Snapshots, decision : Decisions]]
<1>14. ASSUME NEW w \in Workers, NEW b \in SUBSET Snapshots
       PROVE [work EXCEPT ![w] = AfterItem(b)] \in WorkType
  BY UnreachableIsDecision DEF TypeOK, AfterItem, IdleWorker
<1>15. ASSUME NEW w \in Workers, StartTick(w) PROVE TypeOK'
  <2>1. \A c \in Connections : Listed(c) => status[c] \in Statuses
    BY DEF Listed, Candidates, TypeOK
  <2>2. Batch \in SUBSET Snapshots
    <3>1. ASSUME NEW c \in Connections, Listed(c)
          PROVE [conn |-> c, seen |-> status[c]] \in Snapshots
      BY <2>1, <3>1 DEF Snapshots
    <3> QED BY <3>1 DEF Batch
  <2> QED BY <1>15, <2>2 DEF TypeOK, StartTick
<1>16. ASSUME NEW w \in Workers, InspectConnection(w) PROVE TypeOK'
  <2>1. work' \in WorkType
    <3>1. PICK s \in work[w].batch :
            \/ work' = [work EXCEPT ![w] = AfterItem(work[w].batch \ {s})]
            \/ \E d \in Decisions \cup {UnreachableDecision} :
                 work' = [work EXCEPT ![w] = [@ EXCEPT !.pc = "write", !.decision = d]]
      BY <1>16 DEF InspectConnection
    <3>2. CASE work' = [work EXCEPT ![w] = AfterItem(work[w].batch \ {s})]
      BY <1>14, <3>2 DEF TypeOK
    <3>3. ASSUME NEW d \in Decisions,
                 work' = [work EXCEPT ![w] = [@ EXCEPT !.pc = "write", !.decision = d]]
          PROVE work' \in WorkType
      BY <3>3 DEF TypeOK
    <3> QED BY <3>1, <3>2, <3>3, UnreachableIsDecision
  <2> QED BY <1>16, <2>1 DEF TypeOK, InspectConnection
<1>17. ASSUME NEW w \in Workers, SaveReconciled(w) PROVE TypeOK'
  <2>1. PICK s \in work[w].batch :
          /\ SetStatus(s.conn, work[w].decision.target, work[w].decision.reason)
          /\ work' = [work EXCEPT ![w] = AfterItem(work[w].batch \ {s})]
    BY <1>17 DEF SaveReconciled
  <2>2. s.conn \in Connections /\ work[w].decision \in Decisions
    BY DEF TypeOK, Snapshots
  <2>3. work' \in WorkType
    BY <1>14, <2>1 DEF TypeOK
  <2>4. /\ status' \in [Connections -> Statuses \cup {Absent}]
        /\ reason' \in [Connections -> Reasons \cup {None}]
        /\ owner' = owner /\ resource' = resource
    BY <2>1, <2>2, DecisionReasons DEF SetStatus, TypeOK
  <2> QED BY <1>17, <2>3, <2>4 DEF TypeOK, SaveReconciled
<1>18. ASSUME NEW w \in Workers, FailTick(w) \/ StopWorker(w) \/ StartWorker(w)
       PROVE TypeOK'
  <2>1. work' \in WorkType
    BY <1>18, UnreachableIsDecision
    DEF TypeOK, FailTick, StopWorker, StartWorker, IdleWorker
  <2>2. faults' \in 0 .. MaxFaults
    BY <1>18 DEF TypeOK, FailTick, StopWorker, StartWorker
  <2> QED BY <1>18, <2>1, <2>2 DEF TypeOK, FailTick, StopWorker, StartWorker
<1>19. CASE UNCHANGED vars
  BY <1>19 DEF TypeOK, vars
<1> QED
  BY <1>1, <1>2, <1>3, <1>4, <1>7, <1>8, <1>9, <1>10, <1>11, <1>12, <1>13, <1>15,
     <1>16, <1>17, <1>18, <1>19
  DEF Next, ConnectNext, LifecycleNext, CommandNext, WorkerNext, WorkerStep

\* The initial tables and idle processes are well typed.
LEMMA TypeInit == Init => TypeOK
BY ConstantsAssumption, UnreachableIsDecision
DEF Init, TypeOK, IdleConnect, IdleLife, IdleCommand, IdleWorker, LifeStates

\* Type correctness of the connection tables and of every use case's local state.
THEOREM TypeCorrect == Spec => []TypeOK
BY TypeInit, TypeStep, PTL DEF Spec

-----------------------------------------------------------------------------
(* Safety.  The invariants are inductive once it is known that a worker only  *)
(* holds snapshots of rows that exist and only writes a move of the table.    *)

WorkerWritesSound ==
  \A w \in Workers : /\ work[w].pc = "write" => work[w].decision.target # "pending"
                     /\ \A s \in work[w].batch : status[s.conn] # Absent

\* Tenant isolation, with the fact that the row exists.
HoldersSeeRows ==
  /\ \A p \in Lifecycles : life[p].pc = "write" => Visible(life[p].org, life[p].conn)
  /\ \A p \in Commands : command[p].pc = "send" => Visible(command[p].org, command[p].conn)
  /\ \A x \in idem : Visible(x.org, x.conn)

Safety == /\ ReasonMatchesStatus
          /\ ResourceOwnedOnce
          /\ HoldersSeeRows
          /\ IdempotencyRecordsSound

IInv == TypeOK /\ Safety /\ WorkerWritesSound

\* A row that exists keeps existing under its organization, whatever is written.
LEMMA RowsPersist ==
  ASSUME TypeOK, [Next]_vars, NEW c \in Connections, status[c] # Absent
  PROVE  status'[c] # Absent /\ owner'[c] = owner[c] /\ resource'[c] = resource[c]
<1> USE DEF table
<1>1. ASSUME NEW p \in Connects, CreateConnection(p)
      PROVE status'[c] # Absent /\ owner'[c] = owner[c] /\ resource'[c] = resource[c]
  BY <1>1 DEF CreateConnection, TypeOK
<1>2. ASSUME NEW p \in Lifecycles, SaveLifecycle(p)
      PROVE status'[c] # Absent /\ owner'[c] = owner[c] /\ resource'[c] = resource[c]
  <2>1. life[p].action \in LifecycleActions
    BY <1>2 DEF SaveLifecycle, TypeOK, LifeStates, IdleLife
  <2>2. TargetStatus(life[p].action) # Absent
    BY <2>1, LifecycleTargets DEF Absent, Statuses
  <2> QED BY <1>2, <2>2 DEF SaveLifecycle, SetStatus, TypeOK
<1>3. ASSUME NEW w \in Workers, SaveReconciled(w)
      PROVE status'[c] # Absent /\ owner'[c] = owner[c] /\ resource'[c] = resource[c]
  <2>1. work[w].decision.target # Absent
    BY DecisionReasons DEF TypeOK, Absent, Statuses
  <2> QED BY <1>3, <2>1 DEF SaveReconciled, SetStatus, TypeOK
<1>4. CASE UNCHANGED table
  BY <1>4
<1> QED
  BY <1>1, <1>2, <1>3, <1>4
  DEF Next, vars, ConnectNext, LifecycleNext, CommandNext, WorkerNext, WorkerStep,
      BeginConnect, BeginLifecycle, LookupKey, ReplayResult, FindConnection,
      LoseLifecycle, BeginCommand, CheckCommand, SendCommand, StartTick,
      InspectConnection, FailTick, StopWorker, StartWorker

\* Reasons keep explaining statuses.
LEMMA ReasonStep == IInv /\ [Next]_vars => ReasonMatchesStatus'
<1> SUFFICES ASSUME IInv, [Next]_vars PROVE ReasonMatchesStatus'
  OBVIOUS
<1> USE DEF table
<1>1. ASSUME NEW p \in Connects, CreateConnection(p) PROVE ReasonMatchesStatus'
  <2>1. "initial_pending" \in ReasonsFor["pending"]
    BY DEF ReasonsFor, Statuses
  <2> QED BY <1>1, <2>1 DEF CreateConnection, IInv, Safety, TypeOK, ReasonMatchesStatus
<1>2. ASSUME NEW p \in Lifecycles, SaveLifecycle(p) PROVE ReasonMatchesStatus'
  <2>1. life[p].action \in LifecycleActions
    BY <1>2 DEF SaveLifecycle, IInv, TypeOK, LifeStates, IdleLife
  <2>2. ActionReason(life[p].action) \in ReasonsFor[TargetStatus(life[p].action)]
    BY <2>1, LifecycleTargets
  <2> QED BY <1>2, <2>2 DEF SaveLifecycle, SetStatus, IInv, Safety, TypeOK, ReasonMatchesStatus
<1>3. ASSUME NEW w \in Workers, SaveReconciled(w) PROVE ReasonMatchesStatus'
  <2>1. work[w].decision.reason \in ReasonsFor[work[w].decision.target]
    BY <1>3, DecisionReasons DEF SaveReconciled, IInv, TypeOK, WorkerWritesSound
  <2> QED BY <1>3, <2>1 DEF SaveReconciled, SetStatus, IInv, Safety, TypeOK, ReasonMatchesStatus
<1>4. CASE UNCHANGED table
  BY <1>4 DEF IInv, Safety, ReasonMatchesStatus
<1> QED
  BY <1>1, <1>2, <1>3, <1>4
  DEF Next, vars, ConnectNext, LifecycleNext, CommandNext, WorkerNext, WorkerStep,
      BeginConnect, BeginLifecycle, LookupKey, ReplayResult, FindConnection,
      LoseLifecycle, BeginCommand, CheckCommand, SendCommand, StartTick,
      InspectConnection, FailTick, StopWorker, StartWorker

\* A resource stays with one connection.
LEMMA ResourceStep == IInv /\ [Next]_vars => ResourceOwnedOnce'
<1> SUFFICES ASSUME IInv, [Next]_vars PROVE ResourceOwnedOnce'
  OBVIOUS
<1> USE DEF table
<1>1. ASSUME NEW p \in Connects, CreateConnection(p) PROVE ResourceOwnedOnce'
  BY <1>1 DEF CreateConnection, ResourceFree, IInv, Safety, TypeOK, ResourceOwnedOnce
<1>2. CASE resource' = resource
  BY <1>2 DEF IInv, Safety, ResourceOwnedOnce
<1> QED
  BY <1>1, <1>2
  DEF Next, vars, ConnectNext, LifecycleNext, CommandNext, WorkerNext, WorkerStep,
      BeginConnect, BeginLifecycle, LookupKey, ReplayResult, FindConnection, SaveLifecycle,
      LoseLifecycle, BeginCommand, CheckCommand, SendCommand, StartTick,
      InspectConnection, SaveReconciled, SetStatus, FailTick, StopWorker, StartWorker

\* A lifecycle request reaches its write step only by reading a row from which
\* the transition table allows its target.
LEMMA EnterWrite ==
  ASSUME TypeOK, [Next]_vars, NEW p \in Lifecycles,
         life'[p].pc = "write", life'[p] # life[p]
  PROVE  /\ life'[p].conn = life[p].conn /\ life'[p].org = life[p].org
         /\ life'[p].action = life[p].action /\ status' = status
         /\ Visible(life[p].org, life[p].conn)
         /\ MayMove(status[life[p].conn], TargetStatus(life[p].action))
<1> USE DEF table
<1>1. PICK r \in Lifecycles : LifecycleNext(r)
  BY DEF Next, vars, ConnectNext, CommandNext, WorkerNext, WorkerStep,
         BeginConnect, CreateConnection, BeginCommand, CheckCommand, SendCommand, StartTick,
         InspectConnection, SaveReconciled, FailTick, StopWorker, StartWorker
<1>2. r = p /\ life \in [Lifecycles -> LifeStates]
  BY <1>1
  DEF LifecycleNext, BeginLifecycle, LookupKey, ReplayResult, FindConnection,
      SaveLifecycle, LoseLifecycle, Answer, Reject, TypeOK
<1>3. ~Answer(p) /\ ~Reject(p)
  BY <1>2 DEF Answer, Reject, IdleLife
<1>4. ~BeginLifecycle(p)
  BY <1>2 DEF BeginLifecycle
<1>5. ~LookupKey(p)
  <2>1. SUFFICES ASSUME LookupKey(p) PROVE FALSE
    OBVIOUS
  <2>2. life[p] # IdleLife
    BY <2>1 DEF LookupKey, IdleLife
  <2>3. life'[p].pc \in {"find", "replay"}
    BY <1>2, <2>1, <2>2 DEF LookupKey, LifeStates
  <2> QED BY <2>3
<1>6. FindConnection(p)
  BY <1>1, <1>2, <1>3, <1>4, <1>5 DEF LifecycleNext, ReplayResult, SaveLifecycle, LoseLifecycle
<1>7. /\ Visible(life[p].org, life[p].conn)
      /\ MayMove(status[life[p].conn], TargetStatus(life[p].action))
      /\ life' = [life EXCEPT ![p] = [life[p] EXCEPT !.pc = "write"]]
      /\ status' = status
  BY <1>3, <1>6 DEF FindConnection
<1>8. life[p] # IdleLife
  BY <1>6 DEF FindConnection, IdleLife
<1> QED BY <1>2, <1>7, <1>8 DEF LifeStates

\* What an organization may see, it still sees in the next state.
LEMMA VisiblePersists ==
  ASSUME TypeOK, [Next]_vars, NEW org, NEW c, Visible(org, c)
  PROVE  Visible(org, c)'
BY RowsPersist DEF Visible

\* Processes keep to their tenant.
LEMMA TenantStep == IInv /\ [Next]_vars => HoldersSeeRows'
<1> SUFFICES ASSUME IInv, [Next]_vars PROVE HoldersSeeRows'
  OBVIOUS
<1> USE DEF table
<1>1. ASSUME NEW p \in Lifecycles, life'[p].pc = "write"
      PROVE Visible(life[p].org, life[p].conn)' 
  <2>1. CASE life'[p] = life[p]
    BY <1>1, <2>1, VisiblePersists DEF IInv, Safety, HoldersSeeRows
  <2>2. CASE life'[p] # life[p]
    <3>1. /\ Visible(life[p].org, life[p].conn)
          /\ life'[p].conn = life[p].conn /\ life'[p].org = life[p].org
      BY <1>1, <2>2, EnterWrite DEF IInv
    <3> QED BY <3>1, VisiblePersists DEF IInv
  <2> QED BY <2>1, <2>2
<1>2. ASSUME NEW p \in Commands, command'[p].pc = "send"
      PROVE Visible(command[p].org, command[p].conn)'
  <2>1. CASE command'[p] = command[p]
    BY <1>2, <2>1, VisiblePersists DEF IInv, Safety, HoldersSeeRows
  <2>2. CASE command'[p] # command[p]
    <3>1. ASSUME NEW r \in Commands, CommandNext(r)
          PROVE Visible(command[p].org, command[p].conn) /\ command'[p].org = command[p].org
                /\ command'[p].conn = command[p].conn
      BY <1>2, <2>2, <3>1
      DEF CommandNext, BeginCommand, CheckCommand, SendCommand, Usable, IdleCommand, IInv, TypeOK
    <3>2. \E r \in Commands : CommandNext(r)
      BY <2>2
      DEF Next, vars, ConnectNext, LifecycleNext, WorkerNext, WorkerStep,
          BeginConnect, CreateConnection, BeginLifecycle, LookupKey, ReplayResult, FindConnection,
          SaveLifecycle, LoseLifecycle, StartTick,
          InspectConnection, SaveReconciled, FailTick, StopWorker, StartWorker
    <3> QED BY <3>1, <3>2, VisiblePersists DEF IInv
  <2> QED BY <2>1, <2>2
<1>3. ASSUME NEW x \in idem' PROVE Visible(x.org, x.conn)'
  <2>1. CASE x \in idem
    BY <2>1, VisiblePersists DEF IInv, Safety, HoldersSeeRows
  <2>2. CASE x \notin idem
    <3>1. PICK p \in Lifecycles : SaveLifecycle(p)
      BY <1>3, <2>2
      DEF Next, vars, ConnectNext, LifecycleNext, CommandNext, WorkerNext, WorkerStep,
          BeginConnect, CreateConnection, BeginLifecycle, LookupKey, ReplayResult, FindConnection,
          LoseLifecycle, BeginCommand, CheckCommand, SendCommand, StartTick,
          InspectConnection, SaveReconciled, FailTick, StopWorker, StartWorker
    <3>2. x.org = life[p].org /\ x.conn = life[p].conn /\ Visible(life[p].org, life[p].conn)
      BY <1>3, <2>2, <3>1 DEF SaveLifecycle
    <3> QED BY <3>2, VisiblePersists DEF IInv
  <2> QED BY <2>1, <2>2
<1> QED BY <1>1, <1>2, <1>3 DEF HoldersSeeRows
\* One result per key, and the right one.
LEMMA IdempotencyStep == IInv /\ [Next]_vars => IdempotencyRecordsSound'
<1> SUFFICES ASSUME IInv, [Next]_vars PROVE IdempotencyRecordsSound'
  OBVIOUS
<1> USE DEF table
<1>1. ASSUME NEW p \in Lifecycles, SaveLifecycle(p) PROVE IdempotencyRecordsSound'
  <2>1. CASE idem' = idem
    BY <2>1 DEF IInv, Safety, IdempotencyRecordsSound
  <2>2. CASE idem' # idem
    <3>1. /\ idem' = idem \cup {[org |-> life[p].org, key |-> life[p].key,
                                 conn |-> life[p].conn, action |-> life[p].action,
                                 status |-> TargetStatus(life[p].action),
                                 reason |-> ActionReason(life[p].action)]}
          /\ \A x \in idem : ~(x.org = life[p].org /\ x.key = life[p].key)
      BY <1>1, <2>2 DEF SaveLifecycle, KeyFree, FindIdempotent
    <3> QED BY <3>1 DEF IInv, Safety, IdempotencyRecordsSound
  <2> QED BY <2>1, <2>2
<1>2. CASE idem' = idem
  BY <1>2 DEF IInv, Safety, IdempotencyRecordsSound
<1> QED
  BY <1>1, <1>2
  DEF Next, vars, ConnectNext, LifecycleNext, CommandNext, WorkerNext, WorkerStep,
      BeginConnect, CreateConnection, BeginLifecycle, LookupKey, ReplayResult, FindConnection,
      LoseLifecycle, BeginCommand, CheckCommand, SendCommand, StartTick,
      InspectConnection, SaveReconciled, FailTick, StopWorker, StartWorker

\* Workers keep to rows that exist and to moves of the table.
LEMMA WorkerWritesStep == IInv /\ [Next]_vars => WorkerWritesSound'
<1> SUFFICES ASSUME IInv, [Next]_vars, NEW w \in Workers
             PROVE  /\ work'[w].pc = "write" => work'[w].decision.target # "pending"
                    /\ \A s \in work'[w].batch : status'[s.conn] # Absent
  BY DEF WorkerWritesSound
<1> USE DEF table
<1>1. \A s \in work[w].batch : s.conn \in Connections /\ s.seen \in Statuses
                               /\ status[s.conn] # Absent
  BY DEF IInv, TypeOK, Snapshots, WorkerWritesSound
<1>2. \A s \in work[w].batch : status'[s.conn] # Absent
  BY <1>1, RowsPersist DEF IInv
<1>3. CASE work'[w] = work[w]
  BY <1>2, <1>3 DEF IInv, WorkerWritesSound
<1>4. ASSUME StartTick(w)
      PROVE work'[w].pc = "inspect" /\ \A s \in work'[w].batch : status'[s.conn] # Absent
  <2>1. work'[w].pc = "inspect" /\ work'[w].batch = Batch /\ status' = status
    BY <1>4 DEF StartTick, IInv, TypeOK
  <2>2. ASSUME NEW s \in Batch PROVE status[s.conn] # Absent
    <3>1. PICK c \in Connections : Listed(c) /\ s = [conn |-> c, seen |-> status[c]]
      BY DEF Batch
    <3> QED BY <3>1 DEF Listed, Candidates
  <2> QED BY <2>1, <2>2
<1>5. ASSUME InspectConnection(w)
      PROVE /\ work'[w].pc = "write" => work'[w].decision.target # "pending"
            /\ work'[w].batch \subseteq work[w].batch
  <2>1. PICK s \in work[w].batch :
          \/ work' = [work EXCEPT ![w] = AfterItem(work[w].batch \ {s})]
          \/ \E d : Applies(s, d) /\ work' = [work EXCEPT ![w] =
                                       [@ EXCEPT !.pc = "write", !.decision = d]]
    BY <1>5 DEF InspectConnection
  <2>2. CASE work' = [work EXCEPT ![w] = AfterItem(work[w].batch \ {s})]
    BY <2>2 DEF AfterItem, IdleWorker, IInv, TypeOK
  <2>3. ASSUME NEW d, Applies(s, d),
               work' = [work EXCEPT ![w] = [@ EXCEPT !.pc = "write", !.decision = d]]
        PROVE work'[w].decision.target # "pending" /\ work'[w].batch = work[w].batch
    <3>1. d.target # "pending"
      BY <1>1, <2>3, Transitions DEF Applies
    <3> QED BY <2>3, <3>1 DEF IInv, TypeOK
  <2> QED BY <2>1, <2>2, <2>3
<1>6. ASSUME SaveReconciled(w)
      PROVE work'[w].pc # "write" /\ work'[w].batch \subseteq work[w].batch
  BY <1>6 DEF SaveReconciled, AfterItem, IdleWorker, IInv, TypeOK
<1>7. ASSUME FailTick(w) \/ StopWorker(w) \/ StartWorker(w)
      PROVE work'[w].pc # "write" /\ work'[w].batch = {}
  BY <1>7 DEF FailTick, StopWorker, StartWorker, IdleWorker, IInv, TypeOK
<1>8. CASE work'[w] # work[w]
  <2>1. PICK v \in Workers : WorkerNext(v)
    BY <1>8
    DEF Next, vars, ConnectNext, LifecycleNext, CommandNext,
        BeginConnect, CreateConnection, BeginLifecycle, LookupKey, ReplayResult, FindConnection,
        SaveLifecycle, LoseLifecycle, BeginCommand, CheckCommand, SendCommand
  <2>2. \E x : work' = [work EXCEPT ![v] = x]
    <3>1. CASE StartTick(v) \/ StartWorker(v) \/ FailTick(v) \/ StopWorker(v)
      BY <3>1 DEF StartTick, StartWorker, FailTick, StopWorker
    <3>2. CASE InspectConnection(v)
      BY <3>2 DEF InspectConnection
    <3>3. CASE SaveReconciled(v)
      BY <3>3 DEF SaveReconciled
    <3> QED BY <2>1, <3>1, <3>2, <3>3 DEF WorkerNext, WorkerStep
  <2>3. v = w
    BY <1>8, <2>2 DEF IInv, TypeOK
  <2> QED BY <1>2, <1>4, <1>5, <1>6, <1>7, <2>1, <2>3 DEF WorkerNext, WorkerStep
<1> QED BY <1>3, <1>8

\* The invariant holds in the empty tables.
LEMMA SafetyInit == Init => IInv
BY TypeInit
DEF Init, IInv, Safety, ReasonMatchesStatus, ResourceOwnedOnce, HoldersSeeRows,
    IdempotencyRecordsSound, WorkerWritesSound, IdleLife, IdleCommand, IdleWorker

\* The inductive invariant of connections.
THEOREM Inductive == Spec => []IInv
<1>1. IInv /\ [Next]_vars => IInv'
  BY TypeStep, ReasonStep, ResourceStep, TenantStep, IdempotencyStep, WorkerWritesStep
  DEF IInv, Safety
<1> QED BY SafetyInit, <1>1, PTL DEF Spec

\* For any number of concurrent requests and workers: reasons explain statuses, a
\* resource has one connection, no process crosses tenants, and every idempotency
\* key has one sound result.
THEOREM SafetyHolds == Spec => [](ReasonMatchesStatus /\ ResourceOwnedOnce
                                  /\ TenantIsolation /\ IdempotencyRecordsSound)
<1>1. IInv => /\ ReasonMatchesStatus /\ ResourceOwnedOnce
              /\ TenantIsolation /\ IdempotencyRecordsSound
  BY DEF IInv, Safety, HoldersSeeRows, TenantIsolation, Visible
<1> QED BY Inductive, <1>1, PTL
-----------------------------------------------------------------------------
(* Action properties.                                                        *)

\* What a step may put in a worker's batch: what was there, or a fresh snapshot of
\* a connection that is not disconnected.
LEMMA BatchStep ==
  ASSUME TypeOK, [Next]_vars, NEW w \in Workers, NEW s \in work'[w].batch
  PROVE  \/ s \in work[w].batch
         \/ s.conn \in Candidates /\ s.seen = status[s.conn] /\ status' = status
<1> USE DEF table
<1>1. CASE work' = work
  BY <1>1
<1>2. CASE work' # work
  <2>1. PICK v \in Workers : WorkerNext(v)
    BY <1>2
    DEF Next, vars, ConnectNext, LifecycleNext, CommandNext,
        BeginConnect, CreateConnection, BeginLifecycle, LookupKey, ReplayResult, FindConnection,
        SaveLifecycle, LoseLifecycle, BeginCommand, CheckCommand, SendCommand
  <2>2. CASE StartTick(v)
    <3>1. status' = status /\ (s \in work[w].batch \/ s \in Batch)
      BY <2>2 DEF StartTick, TypeOK
    <3>2. ASSUME s \in Batch PROVE s.conn \in Candidates /\ s.seen = status[s.conn]
      <4>1. PICK c \in Connections : Listed(c) /\ s = [conn |-> c, seen |-> status[c]]
        BY <3>2 DEF Batch
      <4> QED BY <4>1 DEF Listed
    <3> QED BY <3>1, <3>2
  <2>3. CASE InspectConnection(v)
    <3>1. PICK t \in work[v].batch :
            \/ work' = [work EXCEPT ![v] = AfterItem(work[v].batch \ {t})]
            \/ \E d : work' = [work EXCEPT ![v] = [@ EXCEPT !.pc = "write", !.decision = d]]
      BY <2>3 DEF InspectConnection
    <3>2. CASE work' = [work EXCEPT ![v] = AfterItem(work[v].batch \ {t})]
      BY <3>2 DEF AfterItem, IdleWorker, TypeOK
    <3>3. ASSUME NEW d, work' = [work EXCEPT ![v] = [@ EXCEPT !.pc = "write", !.decision = d]]
          PROVE s \in work[w].batch
      BY <3>3 DEF TypeOK
    <3> QED BY <3>1, <3>2, <3>3
  <2>4. CASE SaveReconciled(v)
    BY <2>4 DEF SaveReconciled, AfterItem, IdleWorker, TypeOK
  <2>5. CASE FailTick(v) \/ StopWorker(v) \/ StartWorker(v)
    BY <2>5 DEF FailTick, StopWorker, StartWorker, IdleWorker, TypeOK
  <2> QED BY <2>1, <2>2, <2>3, <2>4, <2>5 DEF WorkerNext, WorkerStep
<1> QED BY <1>1, <1>2

\* A status changes only by an insert or by a write that was in flight.
LEMMA StatusStep ==
  ASSUME TypeOK, [Next]_vars, NEW c \in Connections, status[c] # Absent, ~InFlight(c)
  PROVE  status'[c] = status[c]
<1> USE DEF table
<1>1. ASSUME NEW p \in Connects, CreateConnection(p) PROVE status'[c] = status[c]
  BY <1>1 DEF CreateConnection, TypeOK
<1>2. ASSUME NEW p \in Lifecycles, SaveLifecycle(p) PROVE status'[c] = status[c]
  BY <1>2 DEF SaveLifecycle, SetStatus, InFlight, TypeOK
<1>3. ASSUME NEW w \in Workers, SaveReconciled(w) PROVE status'[c] = status[c]
  BY <1>3 DEF SaveReconciled, SetStatus, InFlight, TypeOK
<1>4. CASE UNCHANGED table
  BY <1>4
<1> QED
  BY <1>1, <1>2, <1>3, <1>4
  DEF Next, vars, ConnectNext, LifecycleNext, CommandNext, WorkerNext, WorkerStep,
      BeginConnect, BeginLifecycle, LookupKey, ReplayResult, FindConnection,
      LoseLifecycle, BeginCommand, CheckCommand, SendCommand, StartTick,
      InspectConnection, FailTick, StopWorker, StartWorker

\* A settled disconnection is final: the resurrection of a disconnected connection
\* needs a use case that read it before it was disconnected.
THEOREM SettledForever == Spec => DisconnectedSettles
<1>1. ASSUME TypeOK, [Next]_vars, NEW c \in Connections, Settled(c)
      PROVE  Settled(c)'
  <2>1. status'[c] = "disconnected"
    BY <1>1, StatusStep DEF Settled, Absent
  <2>2. ASSUME NEW p \in Lifecycles, life'[p].pc = "write", life'[p].conn = c PROVE FALSE
    <3>1. life'[p] # life[p]
      BY <1>1, <2>2 DEF Settled, InFlight
    <3>2. MayMove("disconnected", TargetStatus(life[p].action))
      BY <1>1, <2>2, <3>1, EnterWrite DEF Settled
    <3> QED BY <3>2, Transitions DEF Statuses
  <2>3. ASSUME NEW w \in Workers, NEW s \in work'[w].batch, s.conn = c PROVE FALSE
    BY <1>1, <2>3, BatchStep DEF Settled, InFlight, Candidates
  <2> QED BY <2>1, <2>2, <2>3 DEF Settled, InFlight
<1>2. TypeOK /\ [Next]_vars => [\A c \in Connections : Settled(c) => Settled(c)']_vars
  BY <1>1
<1> QED BY TypeCorrect, <1>2, PTL DEF Spec, DisconnectedSettles

\* Of two concurrent requests with one idempotency key, only the one that stores
\* its result changes the connection.
THEOREM LoserChangesNothing == Spec => LosingRetryChangesNothing
<1> DEFINE Keyed == \A p \in Lifecycles :
       /\ life[p].pc = "write" /\ life'[p] # life[p] /\ life[p].key # NoKey
       /\ table' # table
       => /\ FindIdempotent(life[p].org, life[p].key) = {}
          /\ idem' # idem
<1>1. ASSUME TypeOK, Next, NEW p \in Lifecycles, life[p].pc = "write", life'[p] # life[p],
             life[p].key # NoKey, table' # table
      PROVE  FindIdempotent(life[p].org, life[p].key) = {} /\ idem' # idem
  <2>1. PICK r \in Lifecycles : SaveLifecycle(r)
    BY <1>1
    DEF Next, table, ConnectNext, LifecycleNext, CommandNext, WorkerNext, WorkerStep,
        BeginConnect, CreateConnection, BeginLifecycle, LookupKey, ReplayResult, FindConnection,
        LoseLifecycle, BeginCommand, CheckCommand, SendCommand, StartTick,
        InspectConnection, SaveReconciled, FailTick, StopWorker, StartWorker
  <2>2. r = p
    BY <1>1, <2>1 DEF SaveLifecycle, Answer, Reject, TypeOK
  <2>3. FindIdempotent(life[p].org, life[p].key) = {}
    BY <1>1, <2>1, <2>2 DEF SaveLifecycle, KeyFree
  <2>4. \E row : row.org = life[p].org /\ row.key = life[p].key /\ row \in idem'
    BY <1>1, <2>1, <2>2 DEF SaveLifecycle
  <2> QED BY <2>3, <2>4 DEF FindIdempotent
<1>2. TypeOK /\ [Next]_vars => [Keyed]_vars
  BY <1>1
<1> QED BY TypeCorrect, <1>2, PTL DEF Spec, LosingRetryChangesNothing

-----------------------------------------------------------------------------
(* The refinement of ConnectionLifecycle.  The step that is not immediate is  *)
(* the worker's write: the decision it carries has to be legal for the        *)
(* snapshot it is written to, so a batch must have one snapshot per           *)
(* connection and the decision must stem from the head that is still there.   *)

Grounded(batch, pc, decision) ==
  /\ \A s, t \in batch : s.conn = t.conn => s = t
  /\ pc = "write" => \A s \in batch : IsHead(s, batch) => Applies(s, decision)

WorkerGrounded ==
  \A w \in Workers : Grounded(work[w].batch, work[w].pc, work[w].decision)

\* A batch with one snapshot per connection has one head.
LEMMA OneHead ==
  ASSUME NEW batch \in SUBSET Snapshots, NEW s \in batch, NEW t \in batch,
         \A x, y \in batch : x.conn = y.conn => x = y,
         IsHead(s, batch), IsHead(t, batch)
  PROVE  s = t
<1>1. s.conn \in Nat /\ t.conn \in Nat
  BY ConstantsAssumption DEF Snapshots
<1>2. s.conn = t.conn
  BY <1>1 DEF IsHead
<1> QED BY <1>2

\* A tick decides on the head of its batch and writes that head, or is over.
LEMMA GroundedStep == IInv /\ WorkerGrounded /\ [Next]_vars => WorkerGrounded'
<1> SUFFICES ASSUME IInv, WorkerGrounded, [Next]_vars, NEW w \in Workers
             PROVE  Grounded(work'[w].batch, work'[w].pc, work'[w].decision)
  BY DEF WorkerGrounded
<1> USE DEF table
<1>0. /\ work[w].batch \in SUBSET Snapshots /\ w \in DOMAIN work /\ DOMAIN work = Workers
      /\ \A s, t \in work[w].batch : s.conn = t.conn => s = t
  BY DEF IInv, TypeOK, WorkerGrounded, Grounded
<1>1. CASE work'[w] = work[w]
  BY <1>1 DEF WorkerGrounded
<1>2. ASSUME NEW s, work' = [work EXCEPT ![w] = AfterItem(work[w].batch \ {s})]
      PROVE Grounded(work'[w].batch, work'[w].pc, work'[w].decision)
  <2>1. work'[w].batch = work[w].batch \ {s} /\ work'[w].pc # "write"
    BY <1>0, <1>2 DEF AfterItem, IdleWorker
  <2> QED BY <1>0, <2>1 DEF Grounded
<1>3. CASE StartTick(w)
  <2>1. work'[w].batch = Batch /\ work'[w].pc = "inspect"
    BY <1>0, <1>3 DEF StartTick, IInv, TypeOK
  <2>2. \A s, t \in Batch : s.conn = t.conn => s = t
    BY DEF Batch
  <2> QED BY <2>1, <2>2 DEF Grounded
<1>4. CASE InspectConnection(w)
  <2>1. PICK s \in work[w].batch :
          /\ IsHead(s, work[w].batch)
          /\ \/ work' = [work EXCEPT ![w] = AfterItem(work[w].batch \ {s})]
             \/ \E d : Applies(s, d) /\ work' = [work EXCEPT ![w] =
                                          [@ EXCEPT !.pc = "write", !.decision = d]]
    BY <1>4 DEF InspectConnection
  <2>2. ASSUME NEW d, Applies(s, d),
               work' = [work EXCEPT ![w] = [@ EXCEPT !.pc = "write", !.decision = d]]
        PROVE  Grounded(work'[w].batch, work'[w].pc, work'[w].decision)
    <3>1. work'[w].batch = work[w].batch /\ work'[w].decision = d
      BY <1>0, <2>2 DEF IInv, TypeOK
    <3>2. ASSUME NEW t \in work[w].batch, IsHead(t, work[w].batch) PROVE Applies(t, d)
      <4>1. s = t
        BY <1>0, <2>1, <3>2, OneHead
      <4> QED BY <2>2, <4>1
    <3> QED BY <1>0, <3>1, <3>2 DEF Grounded
  <2> QED BY <1>2, <2>1, <2>2
<1>5. CASE SaveReconciled(w)
  BY <1>2, <1>5 DEF SaveReconciled
<1>6. CASE FailTick(w) \/ StopWorker(w) \/ StartWorker(w)
  <2>1. work'[w].batch = {} /\ work'[w].pc # "write"
    BY <1>0, <1>6 DEF FailTick, StopWorker, StartWorker, IdleWorker
  <2> QED BY <2>1 DEF Grounded
<1>7. CASE work'[w] # work[w]
  <2>1. PICK v \in Workers : WorkerNext(v)
    BY <1>7
    DEF Next, vars, ConnectNext, LifecycleNext, CommandNext,
        BeginConnect, CreateConnection, BeginLifecycle, LookupKey, ReplayResult, FindConnection,
        SaveLifecycle, LoseLifecycle, BeginCommand, CheckCommand, SendCommand
  <2>2. \E x : work' = [work EXCEPT ![v] = x]
    <3>1. CASE StartTick(v) \/ StartWorker(v) \/ FailTick(v) \/ StopWorker(v)
      BY <3>1 DEF StartTick, StartWorker, FailTick, StopWorker
    <3>2. CASE InspectConnection(v)
      BY <3>2 DEF InspectConnection
    <3>3. CASE SaveReconciled(v)
      BY <3>3 DEF SaveReconciled
    <3> QED BY <2>1, <3>1, <3>2, <3>3 DEF WorkerNext, WorkerStep
  <2>3. v = w
    BY <1>0, <1>7, <2>2
  <2> QED BY <1>3, <1>4, <1>5, <1>6, <2>1, <2>3 DEF WorkerNext, WorkerStep
<1> QED BY <1>1, <1>7

\* A new intention stems from a status that was read in this very step.
LEMMA IntentStep ==
  ASSUME IInv, [Next]_vars, NEW c \in Connections, NEW t \in Intended'[c]
  PROVE  \/ t \in Intended[c]
         \/ /\ status' = status /\ status[c] # Absent
            /\ t \in AllowedTransitions[status[c]]
<1>0. t \in Statuses
  BY DEF Intended
<1>1. ASSUME NEW p \in Lifecycles, life'[p].pc = "write", life'[p].conn = c,
             TargetStatus(life'[p].action) = t
      PROVE  \/ t \in Intended[c]
             \/ /\ status' = status /\ status[c] # Absent
                /\ t \in AllowedTransitions[status[c]]
  <2>1. CASE life'[p] = life[p]
    BY <1>0, <1>1, <2>1 DEF Intended
  <2>2. CASE life'[p] # life[p]
    BY <1>1, <2>2, EnterWrite DEF IInv, MayMove, Visible
  <2> QED BY <2>1, <2>2
<1>2. ASSUME NEW w \in Workers, NEW s \in work'[w].batch, s.conn = c,
             t \in AllowedTransitions[s.seen]
      PROVE  \/ t \in Intended[c]
             \/ /\ status' = status /\ status[c] # Absent
                /\ t \in AllowedTransitions[status[c]]
  <2>1. CASE s \in work[w].batch
    BY <1>0, <1>2, <2>1 DEF Intended
  <2>2. CASE s \notin work[w].batch
    BY <1>2, <2>2, BatchStep DEF IInv, Candidates
  <2> QED BY <2>1, <2>2
<1> QED BY <1>1, <1>2 DEF Intended

\* Every step is a step of ConnectionLifecycle, or changes neither of its variables.
LEMMA TableStep ==
  ASSUME IInv, WorkerGrounded, [Next]_vars
  PROVE  Lifecycle!Next
<1> USE DEF table
<1>0. /\ Lifecycle!Absent = Absent
      /\ Lifecycle!AllowedTransitions = AllowedTransitions
  BY DEF Lifecycle!Absent, Absent, Lifecycle!Statuses, Statuses,
         Lifecycle!AllowedTransitions, AllowedTransitions
<1>1. CASE status' = status
  <2>1. \A c \in Connections :
          Intended'[c] \subseteq Intended[c] \cup Lifecycle!LegalFrom(status[c])
    BY <1>0, IntentStep DEF Lifecycle!LegalFrom
  <2> QED BY <1>1, <2>1 DEF Lifecycle!Next, Lifecycle!Read
<1>2. CASE status' # status
  <2>1. Lifecycle!NoNewIntent
    BY <1>2, IntentStep DEF Lifecycle!NoNewIntent
  <2>2. ASSUME NEW p \in Connects, CreateConnection(p) PROVE Lifecycle!Next
    <3>1. PICK c \in Connections :
            status[c] = Absent /\ status' = [status EXCEPT ![c] = "pending"]
      BY <1>2, <2>2 DEF CreateConnection
    <3> QED BY <1>0, <2>1, <3>1 DEF Lifecycle!Next, Lifecycle!Insert
  <2>3. ASSUME NEW c \in Connections, NEW t \in Intended[c],
               status' = [status EXCEPT ![c] = t]
        PROVE  Lifecycle!Next
    BY <2>1, <2>3 DEF Lifecycle!Next, Lifecycle!Write
  <2>4. ASSUME NEW p \in Lifecycles, SaveLifecycle(p) PROVE Lifecycle!Next
    <3> DEFINE c == life[p].conn
               t == TargetStatus(life[p].action)
    <3>1. /\ life[p].pc = "write" /\ c \in Connections
          /\ status' = [status EXCEPT ![c] = t]
      BY <1>2, <2>4 DEF SaveLifecycle, SetStatus, Visible
    <3>2. t \in Statuses
      <4>1. life[p].action \in LifecycleActions
        BY <3>1 DEF IInv, TypeOK, LifeStates, IdleLife
      <4> QED BY <4>1, LifecycleTargets
    <3>3. t \in Intended[c]
      BY <3>1, <3>2 DEF Intended
    <3> HIDE DEF c, t
    <3> QED BY <2>3, <3>1, <3>3
  <2>5. ASSUME NEW w \in Workers, SaveReconciled(w) PROVE Lifecycle!Next
    <3>1. PICK s \in work[w].batch :
            /\ IsHead(s, work[w].batch)
            /\ status' = [status EXCEPT ![s.conn] = work[w].decision.target]
      BY <2>5 DEF SaveReconciled, SetStatus
    <3>2. s \in Snapshots /\ work[w].decision.target \in Statuses
      BY DecisionReasons DEF IInv, TypeOK
    <3>3. work[w].decision.target \in AllowedTransitions[s.seen]
      BY <2>5, <3>1 DEF SaveReconciled, WorkerGrounded, Grounded, Applies, MayMove
    <3>4. s.conn \in Connections /\ work[w].decision.target \in Intended[s.conn]
      BY <3>1, <3>2, <3>3 DEF Intended, Snapshots
    <3> QED BY <2>3, <3>1, <3>4
  <2> QED
    BY <1>2, <2>2, <2>4, <2>5
    DEF Next, vars, ConnectNext, LifecycleNext, CommandNext, WorkerNext, WorkerStep,
        BeginConnect, BeginLifecycle, LookupKey, ReplayResult, FindConnection,
        LoseLifecycle, BeginCommand, CheckCommand, SendCommand, StartTick,
        InspectConnection, FailTick, StopWorker, StartWorker
<1> QED BY <1>1, <1>2

\* The use cases implement ConnectionLifecycle for any number of overlapping requests
\* and workers: update_status, an UPDATE by identifier, only stores a status that the
\* table allowed from a status which an operation still in flight read.
THEOREM ImplementsLifecycle == Spec => FollowsTable
<1>1. Init => WorkerGrounded
  BY DEF Init, WorkerGrounded, Grounded, IdleWorker
<1>2. Init => Lifecycle!Init
  <2> SUFFICES ASSUME Init PROVE Lifecycle!Init
    OBVIOUS
  <2>1. \A c \in Connections : Intended[c] = {}
    BY DEF Init, Intended, IdleLife, IdleWorker
  <2>2. Intended = [c \in Connections |-> {}]
    BY <2>1 DEF Intended
  <2> QED BY <2>2 DEF Init, Lifecycle!Init, Lifecycle!Absent, Absent
<1>3. IInv /\ WorkerGrounded /\ [Next]_vars => [Lifecycle!Next]_<<status, Intended>>
  BY TableStep
<1> QED BY <1>1, <1>2, <1>3, GroundedStep, Inductive, PTL DEF Spec, FollowsTable, Lifecycle!Spec

=============================================================================
