# Muxivo Console: TLA+ verification project

Models of the Muxivo Console API (`apps/api/src/muxivo_console`, written `M/` below),
TLC configurations that check them on small instances, and TLAPS proofs for every size.
`PROJECT.json` maps each definition to the source lines it stands for and lists runs,
mutants, hazards, findings and theorems.

## 1. The system

The Console is a FastAPI control plane for organizations that operate bots on Discord and
Twitch. Use cases (`M/application`) are asyncio coroutines; their state is in PostgreSQL
(`M/infrastructure/persistence`) and, for short-lived secrets and counters, in Redis
(`M/infrastructure/redis_*`). Nearly every repository method opens its own session and
commits its own transaction, and every Redis command is a request of its own. A use case
is therefore a sequence of atomic steps, and whatever it read before an `await` may have
changed when it writes. Two background workers run in the same processes. There is no
lock, no version column and no serializable transaction: what protects the data are unique
constraints, the `WHERE` clauses of updates, single transactions, and Redis
compare-and-delete.

### Inventory

| Component | State | Operations | Hard behaviour | What makes it correct |
|---|---|---|---|---|
| Platform connections | `platform_connections`, `platform_connection_lifecycle_idempotency` | connect, revoke, reauthorize, disconnect, reconcile, command gate | reads before awaits; retries with one key; worker beside users; failed ticks, restarts | table-conform statuses; one owner per resource; tenant isolation; a key takes effect once; every connection is inspected again and again |
| Organizations, members | `organizations`, `organization_memberships`, `membership_resource_scopes` | create, add, update, remove, authorize | authority and target read in earlier transactions; role and scopes read by two statements | one owner, its creator; one seat per user; scopes within the role; decisions never above the membership |
| Invitations | `organization_invitations`, `organization_invitation_scopes` | invite, deliver, accept, revoke, expire | accept against revoke, add and expiry; mail and status are separate steps | settled at most once; no owner by invitation; truthful delivery status |
| E-mail registration | Redis pending value; `users`, `user_emails`, `login_identities`, `password_credentials` | start, resend, verify, complete, expire | read, decide, write over Redis; unconditional `SET`; failed mail | a flow that is over stays over; one account per address; undelivered flows stay closed |
| Browser sessions | `auth_sessions` | create, resolve and touch, reauthenticate, revoke, revoke all | revocation against requests that resolved the session earlier | a revoked session is over; recent authentication gates sensitive writes |
| Passwords and recovery | `password_credentials`, `password_recovery_transactions`, Redis reference | authenticate, change, request and complete recovery | three stores in order, each step may fail; login with the old password against revoke-all | a token sets one password; a recovery ends the sessions written before it |
| Login identities, OAuth | `login_identities`, `oauth_login_transactions`, `identity_link_transactions` | begin and complete login and link, unlink | count-then-delete; state consumed before the provider answers; one callback for two tables | a subject has one owner; a state is used once, for what it was started for; an account keeps an identity |
| Rate limiting | Redis counters, process memory | check | window edges, Redis failure, many processes | a bounded burst; closed on failure; a client is let in again |
| Cleanup worker | security tables | periodic deletion | cut-off taken once, runs beside requests | deletes only what can no longer be used |
| Platform control | remote platform, `audit_events` | thirteen reads and three updates | the service answers late, never or unreadably; audit row written after the remote change | a truthful audit trail; every policy change in it; own resources only |
| Audit trail | `audit_events` | record, list page by page | identifiers are UUIDv7, drawn by several processes before the commit: an older one may appear after a newer; writes between pages | a walk shows everything that was there, once |
| HTTP API | none of its own | session resolution, CSRF, rate limit, handler checks, use case | sessions that end meanwhile, lost answers, exceptions in middleware | who acts for a caller acts from the Console's own page; writes for anybody are limited; no use case for a session that had ended |

The other listing queries, SMTP clients, cryptographic adapters, logging and metrics,
settings, contracts, migrations and the web client keep no state that another part depends
on, or are pure I/O; `PROJECT.json` gives the reason for each.

## 2. Modules

| Module | Contents |
|---|---|
| `ConnectionStatus` | statuses, reasons, transition table, lifecycle actions, reconciliation decisions |
| `ConnectionLifecycle` | abstract specification: a connection is inserted pending, and a write moves it as the table allowed when an operation in flight read it |
| `PlatformConnections` | connect, lifecycle with idempotency keys, worker, command gate |
| `OrganizationRoles` | role ranks, assignment rule, capability matrix |
| `OrganizationMembership` | organizations, member management, authorization |
| `OrganizationInvitations` | invitations, composed with member management over one memberships table |
| `EmailRegistration` | registration over the Redis pending store |
| `AccountSecurity` | sessions, passwords, recovery, cleanup |
| `LoginIdentities` | OAuth login and link transactions, linking, unlinking |
| `RateLimiter` | fixed windows in Redis and in process memory |
| `ApiEndpoints` | every endpoint of `create_app` as a record; CSRF exemptions, limited scopes |
| `RequestGate` | the way of a request through middleware, limiter and handler; extends `ApiEndpoints` and `RateLimiter` |
| `ControlContracts` | client methods and use cases of the control calls, as records; parsers by whether they check types |
| `AuditTrail` | audit events and their paged listing |
| `PlatformControl` | a control call from its checks to its audit event; extends `ControlContracts`, `OrganizationRoles`, `ConnectionStatus` and `AuditTrail` |
| `MC*` | constants, model values and symmetry for TLC |
| `*Proofs` | inductive invariants and theorems |

Conventions. One action is one database transaction or one Redis command, with the
decisions the code takes up to the next `await`. A use case in progress is a record with a
`pc` and what it read; `Idle` is no use case. A refused request changes nothing and its
record returns to `Idle`. Identifiers, tokens, addresses and hashes are model values:
hashing is injective as far as the code relies on it. Definitions introduced by "Fault:"
are mutated forms of the definition after them, used to show that the properties can fail;
the specifications do not use them.

### Platform connections

`status`, `reason`, `owner`, `resource` are the columns of `platform_connections`
(`Absent` without a row); `idem` are the stored retry results. A lifecycle request is
`BeginLifecycle`, `LookupKey` or `ReplayResult`, `FindConnection` and `SaveLifecycle`, as in
`ManagePlatformConnectionLifecycle.execute`. `SaveLifecycle` writes the row and the key in one
transaction, and loses both on a duplicate key. The worker lists the oldest `BatchLimit`
connections that are not disconnected with the status they have at that moment
(`StartTick`), probes them in order (`InspectConnection`, any decision a probe may
return, or an unreachable platform) and writes by identifier (`SaveReconciled`). `FailTick`,
`StopWorker`, `StartWorker` and `LoseLifecycle` are failures and restarts, limited by
`MaxFaults`. `FollowsTable` is the refinement of `ConnectionLifecycle`, whose `intended` is mapped to the
moves of lifecycle requests about to write and of the snapshots in the worker's batch.

### Organizations and members

A membership row has an identifier that is never used again (`issued`), organization, user,
role and scopes. Update and removal read the actor (`BeginUpdate`, `BeginRemove`), then the
target (`ReadTarget`), and write by identifier (`WriteUpdate`, `WriteRemove`); an add reads
the actor and then inserts (`WriteAdd`). `get_membership` reads the role and then the
scopes: `BeginAuthorize` and `Decide`. `Abandon` ends a request anywhere.

### Invitations

`OrganizationInvitations` extends the member module: its next-state relation is member
management or a step of an invitation request or a tick of the clock. `WriteAccept` marks
the invitation and inserts the membership in one transaction, guarded by the `WHERE` clause
and the unique seat. The time stored and compared by an acceptance is the one read at its
start (`since`); a revocation reads the clock again. The notifier delivers, declines or
raises, and what raised may have been delivered.

### E-mail registration

`store` is Redis. Every value of a flow has the address, password and name of its start, so a
value is `[code, attempts]`. `Put` is `SET NX`, `Replace` a plain `SET` that also creates an absent
key, `Consume` the Lua compare-and-delete. Tokens are known to clients only after the first
mail was accepted; verification and resend act on known tokens. Any code may be presented,
right by luck or not. Codes are distinct numbers: a repeated six-digit code is not
considered. A command that took effect but whose answer was lost is the step followed by
`Abandon`. A value may expire at any moment (`Expire`).

### Sessions, passwords, recovery and cleanup

`session` and `recovery` are tables with a row per token, `reference` the Redis keys of
recovery tokens, `mailed` the tokens somebody received. A request that acts for a user first
resolves its session (`Resolve`, then `TouchLastSeen` after the status of the user was read), and
keeps the principal it found: `Recent` looks at that principal, not at the row. The updates
of a session compare what their `WHERE` clause compares (`Writable`), the update of a password
only the user. `RequestPasswordRecovery` is `BeginRecovery`, `PutReference`, `CreateRow`, `Mail` and on
failure `Discard`; `CompletePasswordRecovery` is `BeginComplete`, `Complete` (one transaction) and
`ConsumeReference`. A failed step may have taken effect. `epoch`, `born`, `proof` and `resets` are history: recoveries
of a user, and passwords set per token. The cleanup takes its time once and deletes from the two tables
in turn. Wrong passwords are refused before anything is written and are left out. Users are
suspended from outside the Console.

### Login identities

One record per OAuth state stands for the row in the login or the link table. The provider
is external: somebody authorizes a state (`Authorize`), and an exchange of a code answers only
to the verifier of the code's state; the clients accept what `ProfileSubject` and, for
Telegram's identity token, `IdTokenSubject` accept. `Callback` starts a request with any state, any code and
any provider's path; it claims a login transaction, and when that fails a link transaction, in
both cases before the provider is asked. `PersistLink` is guarded by the unique constraint alone. `Unlink`
deletes by identifier and user what `BeginUnlink` counted earlier, and its `DELETE` refuses the identity of the registration
once more (`Unlinkable`). A transaction remembers the browser that began it (`browser`), which the code does not: it
is history, for the statement of the docs about it.

### Rate limiter, endpoints and the gate

A bucket holds the time it has left, so time never ends and liveness can be checked. With
Redis one bucket per key is shared and counts refused calls too; in memory each process has its own and
does not. Redis may fail before or after it counted; both refuse. `recent` is history: the calls
admitted within the last window, with their ages.

An endpoint is the record of its method, the caller it needs, its rate limit scope, whether
its use case may be missing, the statuses of its answers, whether it writes, and what it does
to the session and its cookies. A request is `Arrive` (CSRF), `resolve_session`, `enforce_auth_rate_limit`, `CheckCaller`,
`Succeed` or `Fail`, and `Receive` when the answer carries cookies. Middleware runs in the reverse order of its
registration, so CSRF is compared before the session is resolved. The token of a session also stands
for its CSRF token: both are issued together. A request remembers the page it comes from
(`origin`): another page can make the browser send its cookies but knows no token. `create_app` may run without a limiter
(`LimiterConfigured`), and then counts nothing; the composition always supplies one (`M/composition.py:1072`), so the run sets it. The use cases themselves are the actions of the
other modules; here they only open and end sessions.

### Platform control and the audit trail

A use case is a record: what it authorizes, whether it names a connection, which statuses it
accepts, its client for each platform. A client method is what it claims in the assertion, whether
it needs a linked identity, and its parser: one that checks what it is given answers
"unavailable" to a wrong value, one that calls `strip` or `int` on it may raise instead. A call is `Begin`, `Find`, `Sign`, then `Serve` at the platform, `Receive` or `TimeOut`, and for the audited policy update
`RecordAudit`. `Serve` may come after `TimeOut`: the Console gave up, the service did not. Roles, statuses and identities
change elsewhere at any moment, `MaxChanges` times. `AuditTrail` walks the events of one organization page by page
while events are inserted anywhere among the old ones. Identifiers are UUIDv7 (`M/composition.py:250`): ordered by the
clock of the process that draws them and committed later, so an event may appear below a newer one; the model allows
every position, which is more than happens.

## 3. Runs

| Run | Bounds | Shows |
|---|---|---|
| `connections_requests` | two organizations, two connects of one resource, two lifecycle requests with or without one key, a command | retry results are sound, a losing retry changes nothing, tenant isolation, one owner per resource |
| `connections_worker` | two connections, one probed, one lifecycle request, one worker, two faults | reasons fit statuses, a disconnected connection that nobody still works on stays disconnected, writes were legal when they were decided (refinement of `ConnectionLifecycle`), and liveness: a listed connection is inspected infinitely often |
| `connections_terminal` | one request, one worker | violation: a tick revives a disconnected connection |
| `members` | two users, two organizations, two requests, four rows | ownership, scopes, stale and torn reads, writes hit the row that was read |
| `invitations` | two users, one invitation, two invitation requests and one management request, three rows, lifetime 1 | settled once and for good, truthful delivery, one owner although the inviter may be gone, and one seat per user although adds and acceptances race |
| `registration` | two addresses, two flows, two requests, three attempts, two codes per flow | one account per address, undelivered flows stay closed, a flow that is over does not come back |
| `account_security` | one user, one session, one recovery token, two requests, time to 2 | a revoked session is over, a recovery ends the sessions before it, one reset per token, the cleanup spares what is in use |
| `login_identities` | two users, two providers, two states, two requests | one owner per subject, one use per state and only for what it was started for, an account keeps an identity |
| `login_identities_browser` | one state, two requests from two browsers | violation: a state is used by a browser that did not start it |
| `rate_limiter` | two processes, either backend, limit 2, window 3 | the burst over a window's edge, and liveness: a client that keeps calling is let in again |
| `request_gate` | two requests to any of 65 endpoints, two sessions, two processes, limit 1 | a write for a caller comes from the Console's own page, a write open to anybody was counted by a limiter, and a use case acts only for a session that was live when the request arrived |
| `platform_control` | one request of every kind, two connections of two organizations, three events, two changes elsewhere | truthful and complete audit, the audit walk |

Why these bounds are enough. Every race in the code is between two use cases, or a use case
and a worker, over one row or key: the runs have two requests, or a request and a worker. A second
organization, invitation, flow or connection shows mixing of objects. Rows are limited to
the number that lets a member be removed and added again (`MaxMemberships` is 4 in `members`, with one or two creators, and 3 in `invitations`). Three attempts let the counter be lost, reach its limit and exceed it under
the mutant. An invitation can be created, expire, and be answered or revoked by a request that read it before (the clock
starts at 1, `MaxTime = 2`). With two users an administrator can invite the own address, be removed, and accept: the case of an
inviter without authority. The grant of that run is one every role supports, else administrators could invite nobody;
that stored scopes fit is checked in `members` and proved for the composition. In `account_security` the clock lets a session be touched, expire,
and its revoked row or a consumed recovery be cleaned; rows that are due only because they
expired would need a later clock. In `request_gate` every endpoint is tried by both requests, so each pair
of them is. In `platform_control` calls of several requests do not touch each other's state, so one request
is enough; what races with it is the service, the clock, the changes elsewhere and the reader.
What does not depend on sizes is proved (section 4). Symmetry permutes processes, users, flows and invitations. It
is not declared in the runs with liveness, and connections are never permuted, because their
identifiers are ordered.

Deadlock is not checked where requests are made once or clocks end, since the instance then
comes to rest: `account_security`, `login_identities` (both runs), `request_gate` and `platform_control`.

Fairness. In the connections only the worker is fair: weak fairness of its step, since the event loop keeps
running a task whose timer fired and whose calls have timeouts. Failures are limited by
`MaxFaults`; in the code a failed tick is caught and the loop goes on. Requests have no
fairness: clients may vanish anywhere. `InspectedRepeatedly` claims nothing for a connection
beyond the first `BatchLimit`: the listing has no cursor, so such a connection waits until
older ones are disconnected.

In the rate limiter time passes (weak fairness), the client of the property keeps calling, which
is its hypothesis, and Redis does not fail it for ever (strong fairness of an admitted call):
`AdmittedAgain` says what the counting must not prevent, and claims nothing of a Redis that stays down.

### Disagreements found

- `connections_terminal`: `update_status` has no condition on the status that was read, so a
  tick overlapping a disconnect writes over it, although the table gives `disconnected` no
  successor. `DisconnectedSettles` is what remains true.
- `login_identities_browser`: `docs/architecture/identity-and-access.md:197` says that an OAuth `state` is bound to the
  browser session and the redirect URI. The callback (`M/presentation/api.py:1417`) reads no session and no cookie, and
  the transaction stores neither, so a consent given in another browser links its subject to the account that started.
  The redirect URI is no part of the state either; it is fixed in each provider's client. `BoundToItsStart` is what holds: user, provider, kind
  and the subject that consented.

Seen while modelling, and part of the models' behaviour without a run of their own:

- `docs/architecture/identity-and-access.md:193` asks for CSRF protection on all mutations. The paths of `CSRF_EXEMPT_PATHS`
  (`M/presentation/api.py:334`) are not compared, nor is the OAuth callback, a `GET` that writes. The narrower promise for
  authenticated mutations (`docs/operations/production-readiness.md:262`) holds: `CallersWriteFromConsole`.
  `tests/api/test_email_password_registration_verification_api.py:66` shows that the exemptions are meant.
- `docs/architecture/identity-and-access.md:212` says that revocation immediately blocks new platform actions. A revoked
  connection is `reauth_required`, and a healthy probe makes it `active` again
  (`M/application/reconcile_platform_connections_use_case.py:141`); only its reason knew of the revocation. `FollowsTable` accepts this,
  since the table does.
- A lifecycle request that finds its target status already there is answered before its key is
  stored, so its retry may take effect later.
- The rank of actor and target is compared in earlier transactions than the write of a membership.
- A failed verification attempt stores the value it read with a plain `SET`
  (`M/application/verify_email_password_registration.py:66`). After a redemption it creates the value again, and the same code
  is redeemed a second time, against "to prevent replay races" (`:40`); only the unique address stops a second account.
  `OverForGood` bounds this: it ends with the attempts that were in flight. Over a larger count, or a code rotated since, it sets
  the count or the code back, so more than `MAX_VERIFICATION_ATTEMPTS` codes can be tried.
- A login verified before a recovery may insert its session after it (`RecoveryClosesSessions` speaks of
  the sessions written before), and a password change begun before it overwrites the recovered password.
- An account can link two subjects of one provider; `find_provider_subject` then raises for every call
  that needs the subject. `docs/architecture/identity-and-access.md:113` allows several only as a future requirement.
- The assertions of the three updates claim the action `read`
  (`M/infrastructure/discord_control_api.py:493`, `:537`, `:652`), although `manage` was authorized.
- When the session resolver raises, its handler reads a correlation identifier that is not set
  yet (`M/presentation/api.py:782`): a bare 500 without the headers that
  `tests/api/test_security_headers_api.py` expects.
- Some parsers call `strip` or `int` on values of unchecked type: a wrong answer of the service becomes a 500
  where the others give 503.
- Unreadable connection rows are dropped after the SQL limit, so a page may end a listing
  early, and platform health looks at the first hundred connections only (not modelled).

## 4. Proofs

All theorems hold for every value of the constants that satisfies the module's named
assumption: special values are outside the sets they must differ from, bounds are naturals,
and connection and event identifiers are finite sets of naturals (UUIDs are ordered). The
limiter needs a limit and a window of at least one, as `RateLimitRule` checks; the gate needs
that every limited scope has a bucket. Every property of the passing runs is a theorem, except
the two of liveness; the properties of the two violation runs are false. The type invariants are proved (`TypeCorrect`, `MembershipTypes`,
`InvitationTypes`, `RegistrationTypes`, `SecurityTypes`, `IdentityTypes`, `ControlTypes`, and within `LimiterIInv` and `GateIInv`),
so most runs spend their time on the other properties.

An invariant that a suspended use case could break with a late write is not inductive. Each
proof therefore adds what every suspended request still relies on, and shows that no step of
another process takes it away. That part is the argument; the rest is one step per action.

*Connections.* `IInv` is `TypeOK`, the four state properties (reason, resource, tenant, idempotency)
and `WorkerWritesSound`: a decision the worker is about to write does not lead to `pending`, and
every connection in its batch has a row. Without it the late write could pair a status with a
reason that does not explain it, or write where nothing was inserted. `TypeCorrect`, `Inductive` and `SafetyHolds` give the
invariants; `SettledForever` and `LoserChangesNothing` are action properties derived from them.
For the first: nobody lists or finds for writing a disconnected connection, so once those
that had read it earlier are gone no step leaves the status.
`ImplementsLifecycle` is the refinement of `ConnectionLifecycle`, for any number of overlapping requests and workers.
Its invariant `WorkerGrounded` says that a worker's batch has one snapshot per connection and that the decision it is about
to write is legal for the head of the batch; without it a write might not be among `intended`. Each step
then is a `Read`, an `Insert` or a `Write` of the abstract specification.

*Members.* `OneOwner` is not inductive: a suspended request may be about to write. `StaleReadsHold`
supplies what such a request still relies on: the role it will write is below owner and
supports its scopes, the row it names is not an owner's row, and an authorization that read
"owner" belongs to the creator. It holds because the owner's row is never changed and
identifiers are not used again. `IInv` joins it with types, ownership, seats and scopes.
`TornReads` follows: the decision from two statements never exceeds the membership
at the second one, since scopes always fit the role stored with them. `WritesHit` follows too:
a row a suspended request names still has the user and the organization it was read with.

*Invitations.* `InvInv` joins the member invariant with `InvTypeOK`, `OffersSound` and `SettledOnce`. Member
steps leave the invitation tables alone; the one invitation step that writes memberships is
`WriteAccept`, which meets the hypotheses of the member module's lemma on insertion because offers
are sound. So the member theorems carry over (`OwnerSurvivesInvitations`), and `InvitationSettledOnce`
and `InvitationTypes` are new. `StaysSettled` is an action property from the same
invariant: both writes repeat the `WHERE` clause. `TruthfulDelivery` needs `DeliveryInv`: between the
insertion and the status one request alone knows the invitation, so nobody mails it again or stores another status.

*Registration.* `IInv` adds `TokensIssued` to the properties: a token that anyone holds has an address, which
never changes again, so the account written after the redemption belongs to the flow that was
started. `AddressRegisteredOnce` and `ClosedFlows` follow. `FlowsStayOver` says that an ended flow stays ended. Two lemmas
carry it: a request is about to write only because it read a usable value (`WritersReadFirst`), and a value comes
back only by such a request (`ValuesReturnByWriters`).

*Sessions and recovery.* `IInv` joins `RecoveryClosesSessions` and `OneResetPerToken` with: a completion
took the time it will write in the past and has a mailed token; a recovery about to insert its row finds none, and
no other request inserts the row of that token; a token without a row set no password; the cut-off of the cleanup is in the past.
The last is what `CleanupIsSafe` rests on: what is older than an earlier cut-off is over now.
`RevocationIsFinal` is the `WHERE` clause of each update of a session, and `RevokedAllRows` that of the bulk ones.

*Login identities.* A callback that claimed a state and has not used it holds it. `IInv` says that a held
state is consumed, is of the table it was claimed for, has led to nothing, and
was authorized by the subject the callback carries; that two requests never hold one state; that
nothing comes of a state nobody claimed; and that the identity of the registration stays.
`SpentOnce` and `Bound` follow from the first three, `LoginKept` from the last,
which says why counting in one transaction and deleting in another is safe: that identity is never unlinked, since the use case and the
`DELETE` both refuse its provider.

*Rate limiter.* The history is the set of admitted calls of the last window, each with its age. `SlotSound`
divides them by the start of the window that is open: at most `Limit` calls belong to it and at
most `Limit - 1` to the window before, because the call that opened that one is by now older than a window, or was
counted and not admitted (Redis failed after it counted). So a span of one window has at most `2 * Limit - 1`, for each backend.
The proofs of the two actions count sets: ageing drops calls and never makes two of one.

*Gate.* `TableAgrees` goes through the 65 endpoints: one that writes for a caller has its CSRF token compared, and one that writes
for anybody has a limited scope. `GateIInv` carries that along a request: what was compared came from the Console's page, and
a write for anybody was counted or is on its way to a limiter that will, if one is configured (`ProtectedCallers`, `CountedOpenWrites`); the actor is the session of the cookie, and that session had not ended when the request
arrived. A session is issued once, so one that ended does not come back (`SoundAcross`). The limiter's
invariant holds in the composition (`GateIsLimited`), since the gate changes buckets only by `Check` and by the time that passes.

*Control and audit.* `ControlIInv` follows a call: a connection that was found is of the stated organization; a call on its
way or applied belongs to a request that got that far, and a policy change is remembered by its request until its event
is there or the answer says neither "done" nor "failed"; who reports success has a change that was applied; and a request writes its
event as it ends. `UseCaseTable` derives from the thirteen reads and three updates which calls are audited and which
name a connection. `TrailIInv` is for the walk: the cursor divides what was shown from what is left, nothing shown is
below it, and what was there at the start is shown or below it. Identifiers that are inserted above the cursor are
missed and below it are shown, and neither breaks that. `PageDivides` is the lemma about the listing: the
page is the newest `PageLimit` identifiers below the cursor, and the next cursor is its least.

Only model-checked: `InspectedRepeatedly` and `AdmittedAgain`, since liveness under fairness is
beyond the prover.

## 5. Plan

Done: connections; members; invitations composed with members; registration; sessions,
recovery and cleanup; login identities; the limiter and the request gate; control calls and
the audit trail; and a theorem for every safety property of these. Next:

1. Registration: a history of guesses, for a bound on them in the number of concurrent requests.
2. A later clock for `account_security`, once its states are fewer.

## Not modelled

- Task handling of the background workers beyond ticks, failures, stop and start: the cleanup
  worker has the same loop as the reconciliation worker.
- Listing queries other than the audit trail: reads whose authorization is the one
  `OrganizationMembership` models; `GetPlatformRolePurposes`, which no composition wires.
- Notifiers, cryptographic adapters, logging, redaction, metrics: pure I/O or stateless; their
  outcomes are choices of the actions that call them.
- Settings, composition, contracts, migrations, deployment scripts: wiring, shapes and schema, with no
  behaviour of their own at run time; what they decide (clients per platform, the limiter's
  backend, unique constraints) is in the modules that depend on it.
- The web client: the API is modelled for any order of requests.

## 6. Running

    tlc -workers 2 -config Members.cfg MCOrganizationMembership
    tlapm OrganizationMembershipProofs.tla
