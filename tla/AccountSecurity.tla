---------------------------- MODULE AccountSecurity ----------------------------
(***************************************************************************)
(* Browser sessions, passwords and password recovery of accounts, and the  *)
(* periodic cleanup of the rows they leave behind.                         *)
(*                                                                         *)
(* A request reads, decides, and writes with one later transaction, so     *)
(* whatever it read may have changed. A session row is written only under  *)
(* the conditions of its UPDATE, a password unconditionally. Recovery      *)
(* keeps a reference in Redis beside its database row; the token itself    *)
(* is known only to whoever got the mail.                                  *)
(*                                                                         *)
(* Wrong passwords, malformed tokens and passwords outside the policy are  *)
(* refused before anything is read or written and are left out.            *)
(***************************************************************************)
EXTENDS Integers

CONSTANTS
  Users, Passwords,
  Sessions,          \* session identifiers, one for each token issued
  Tokens,            \* recovery tokens
  Requests,          \* concurrent requests
  None,              \* no user
  SessionLifetime, RecoveryLifetime,
  MaximumAge,        \* of a recent authentication
  TouchInterval,     \* last_seen_update_interval
  SessionRetention, RecoveryRetention,
  MaxTime            \* bound on the clock

ASSUME SecurityAssumption ==
  /\ None \notin Users
  /\ SessionLifetime \in Nat \ {0} /\ RecoveryLifetime \in Nat \ {0}
  /\ MaximumAge \in Nat /\ TouchInterval \in Nat \ {0}
  /\ SessionRetention \in Nat \ {0} /\ RecoveryRetention \in Nat \ {0}
  /\ MaxTime \in Nat

VARIABLES
  now,        \* the clock of the processes
  suspended,  \* users whose status is not active
  password,   \* the password of each user
  epoch,      \* recoveries completed for each user
  session,    \* auth_sessions
  recovery,   \* password_recovery_transactions
  reference,  \* Redis: tokens with a stored reference
  mailed,     \* tokens that reached their user
  resets,     \* passwords set with each token
  cleaner,    \* local state of the cleanup tick
  req         \* local state of each request

vars == <<now, suspended, password, epoch, session, recovery, reference, mailed,
          resets, cleaner, req>>

-----------------------------------------------------------------------------
Times == 0..MaxTime

Never == -1

Epochs == Nat

\* born and proof are the user's recoveries when the row was written and when the
\* login that asked for it was verified. Every login opens a recently
\* authenticated session, so the assurance level is left out.
SessionRow ==
  [user : Users, expires : Nat, revoked : Times \cup {Never},
   authenticated : Times, seen : Times, born : Epochs, proof : Epochs]

RecoveryRow == [user : Users, expires : Nat, consumed : Times \cup {Never}]

NoRow == [user |-> None]     \* not written yet

Deleted == [user |-> None, deleted |-> TRUE]

Stored(row) == row.user # None

\* AuthSession.is_active_at
is_active_at(s, t) ==
  Stored(session[s]) /\ session[s].revoked = Never /\ t < session[s].expires

\* What a resolved request knows of its session.
Principal == [user : Users, session : Sessions, authenticated : Times]

Idle == [pc |-> "idle"]

RequestStates ==
  {Idle}
  \cup [pc : {"open"}, user : Users, proof : Epochs]
  \cup [pc : {"insert"}, user : Users, proof : Epochs, at : Times]
  \cup [pc : {"touch"}, principal : Principal, at : Times, stale : BOOLEAN]
  \cup [pc : {"ready"}, principal : Principal]
  \cup [pc : {"elevate"}, principal : Principal, at : Times]
  \cup [pc : {"change"}, principal : Principal, new : Passwords]
  \cup [pc : {"put"}, user : Users]
  \cup [pc : {"row"}, user : Users, token : Tokens, at : Times]
  \cup [pc : {"mail", "discard", "consume"}, token : Tokens]
  \cup [pc : {"complete"}, token : Tokens, new : Passwords, at : Times]

Asleep == [pc |-> "asleep"]

CleanerStates == {Asleep} \cup [pc : {"sessions", "recoveries"}, at : Times]

Init ==
  /\ now = 0
  /\ suspended = {}
  /\ password \in [Users -> Passwords]
  /\ epoch = [u \in Users |-> 0]
  /\ session = [s \in Sessions |-> NoRow]
  /\ recovery = [t \in Tokens |-> NoRow]
  /\ reference = {} /\ mailed = {}
  /\ resets = [t \in Tokens |-> 0]
  /\ cleaner = Asleep
  /\ req = [r \in Requests |-> Idle]

Becomes(r, q) == req' = [req EXCEPT ![r] = q]

accountVars == <<password, epoch>>
recoveryVars == <<recovery, reference, mailed, resets>>

-----------------------------------------------------------------------------
(* Sessions.                                                                 *)

\* AuthenticateEmailPassword: the account is read and its password verified.
BeginLogin(r) ==
  /\ req[r] = Idle
  /\ \E u \in Users \ suspended : Becomes(r, [pc |-> "open", user |-> u, proof |-> epoch[u]])
  /\ UNCHANGED <<now, suspended, accountVars, session, recoveryVars, cleaner>>

\* CreateBrowserSession: the status is read again, then the clock.
OpenSession(r) ==
  LET q == req[r] IN
  /\ q.pc = "open"
  /\ Becomes(r, IF q.user \in suspended THEN Idle
                ELSE [pc |-> "insert", user |-> q.user, proof |-> q.proof, at |-> now])
  /\ UNCHANGED <<now, suspended, accountVars, session, recoveryVars, cleaner>>

\* The row and its audit event.
InsertSession(r) ==
  LET q == req[r] IN
  /\ q.pc = "insert"
  /\ \E s \in Sessions :
       /\ session[s] = NoRow
       /\ session' = [session EXCEPT ![s] =
            [user |-> q.user, expires |-> q.at + SessionLifetime, revoked |-> Never,
             authenticated |-> q.at, seen |-> q.at, born |-> epoch[q.user], proof |-> q.proof]]
  /\ Becomes(r, Idle)
  /\ UNCHANGED <<now, suspended, accountVars, recoveryVars, cleaner>>

\* ResolveBrowserSession: a live session of the cookie's token. The time of the
\* last-seen update and whether it is due are decided here.
Resolve(r) ==
  /\ req[r] = Idle
  /\ \E s \in Sessions :
       /\ is_active_at(s, now)
       /\ Becomes(r,
            [pc |-> "touch", at |-> now, stale |-> now - session[s].seen >= TouchInterval,
             principal |-> [user |-> session[s].user, session |-> s,
                            authenticated |-> session[s].authenticated]])
  /\ UNCHANGED <<now, suspended, accountVars, session, recoveryVars, cleaner>>

\* Fault: the row is found by its identifier alone.
WritableAnyway(s, u, t) == Stored(session[s])

\* The WHERE clause of reauthenticate and of touch_last_seen.
Writable(s, u, t) == is_active_at(s, t) /\ session[s].user = u

\* _touch_last_seen after the status check; a failed update is only logged.
TouchLastSeen(r) ==
  LET q == req[r]
      s == q.principal.session
  IN
  /\ q.pc = "touch"
  /\ \/ q.principal.user \in suspended /\ Becomes(r, Idle) /\ UNCHANGED session
     \/ /\ q.principal.user \notin suspended
        /\ Becomes(r, [pc |-> "ready", principal |-> q.principal])
        /\ \/ /\ q.stale /\ Writable(s, q.principal.user, q.at)
              /\ session' = [session EXCEPT ![s].seen = q.at]
           \/ UNCHANGED session
  /\ UNCHANGED <<now, suspended, accountVars, recoveryVars, cleaner>>

\* RequireRecentAuthentication.check, on what the request resolved.
Recent(p) == p.authenticated <= now /\ now - p.authenticated <= MaximumAge

\* ReauthenticateBrowserSession: the current password is verified.
BeginReauthenticate(r) ==
  LET q == req[r] IN
  /\ q.pc = "ready"
  /\ q.principal.user \notin suspended
  /\ Becomes(r, [pc |-> "elevate", principal |-> q.principal, at |-> now])
  /\ UNCHANGED <<now, suspended, accountVars, session, recoveryVars, cleaner>>

\* Fault: the end of the recent authentication is stored, not its time.
ReauthenticateUntil(r) ==
  LET q == req[r]
      s == q.principal.session
  IN
  /\ q.pc = "elevate"
  /\ Writable(s, q.principal.user, q.at)
  /\ session' = [session EXCEPT ![s].authenticated = q.at + SessionLifetime, ![s].seen = q.at]
  /\ Becomes(r, Idle)
  /\ UNCHANGED <<now, suspended, accountVars, recoveryVars, cleaner>>

Reauthenticate(r) ==
  LET q == req[r]
      s == q.principal.session
  IN
  /\ q.pc = "elevate"
  /\ session' = IF Writable(s, q.principal.user, q.at)
                  THEN [session EXCEPT ![s].authenticated = q.at, ![s].seen = q.at]
                  ELSE session
  /\ Becomes(r, Idle)
  /\ UNCHANGED <<now, suspended, accountVars, recoveryVars, cleaner>>

\* Signing out ends the request's own session, even an expired one.
Revoke(r) ==
  LET q == req[r]
      s == q.principal.session
  IN
  /\ q.pc = "ready"
  /\ session' = IF Stored(session[s]) /\ session[s].revoked = Never
                  THEN [session EXCEPT ![s].revoked = now]
                  ELSE session
  /\ Becomes(r, Idle)
  /\ UNCHANGED <<now, suspended, accountVars, recoveryVars, cleaner>>

\* The UPDATE that ends every live session of a user.
RevokedAll(u, t) ==
  [s \in Sessions |-> IF is_active_at(s, t) /\ session[s].user = u
                        THEN [session[s] EXCEPT !.revoked = t]
                        ELSE session[s]]

RevokeAll(r) ==
  LET q == req[r] IN
  /\ q.pc = "ready"
  /\ Recent(q.principal)
  /\ session' = RevokedAll(q.principal.user, now)
  /\ Becomes(r, Idle)
  /\ UNCHANGED <<now, suspended, accountVars, recoveryVars, cleaner>>

-----------------------------------------------------------------------------
(* Passwords.                                                                *)

\* ChangeEmailPassword: recent authentication, status, the current password and a
\* different new one.
BeginChange(r) ==
  LET q == req[r] IN
  /\ q.pc = "ready"
  /\ Recent(q.principal)
  /\ q.principal.user \notin suspended
  /\ \E p \in Passwords \ {password[q.principal.user]} :
       Becomes(r, [pc |-> "change", principal |-> q.principal, new |-> p])
  /\ UNCHANGED <<now, suspended, accountVars, session, recoveryVars, cleaner>>

\* The UPDATE names only the user.
ChangePassword(r) ==
  LET q == req[r] IN
  /\ q.pc = "change"
  /\ password' = [password EXCEPT ![q.principal.user] = q.new]
  /\ Becomes(r, Idle)
  /\ UNCHANGED <<now, suspended, epoch, session, recoveryVars, cleaner>>

-----------------------------------------------------------------------------
(* Recovery.                                                                 *)

\* RequestPasswordRecovery: an unknown or inactive account is answered alike.
BeginRecovery(r) ==
  /\ req[r] = Idle
  /\ \E u \in Users \ suspended : Becomes(r, [pc |-> "put", user |-> u])
  /\ UNCHANGED <<now, suspended, accountVars, session, recoveryVars, cleaner>>

\* A new token gets its Redis reference first.
PutReference(r) ==
  LET q == req[r] IN
  /\ q.pc = "put"
  /\ \E t \in Tokens :
       /\ recovery[t] = NoRow /\ t \notin reference
       /\ \A x \in Requests : req[x].pc = "row" => req[x].token # t
       /\ reference' = reference \cup {t}
       /\ Becomes(r, [pc |-> "row", user |-> q.user, token |-> t, at |-> now])
  /\ UNCHANGED <<now, suspended, accountVars, session, recovery, mailed, resets, cleaner>>

\* The row and its audit event. A failure, after the row was written or before,
\* discards the token.
CreateRow(r) ==
  LET q == req[r]
      row == [user |-> q.user, expires |-> q.at + RecoveryLifetime, consumed |-> Never]
  IN
  /\ q.pc = "row"
  /\ \/ /\ recovery' = [recovery EXCEPT ![q.token] = row]
        /\ \E pc \in {"mail", "discard"} : Becomes(r, [pc |-> pc, token |-> q.token])
     \/ UNCHANGED recovery /\ Becomes(r, [pc |-> "discard", token |-> q.token])
  /\ UNCHANGED <<now, suspended, accountVars, session, reference, mailed, resets, cleaner>>

\* A delivery that raises may have gone out all the same.
Mail(r) ==
  LET q == req[r] IN
  /\ q.pc = "mail"
  /\ \/ mailed' = mailed \cup {q.token} /\ Becomes(r, Idle)
     \/ mailed' \in {mailed, mailed \cup {q.token}} /\ Becomes(r, [q EXCEPT !.pc = "discard"])
  /\ UNCHANGED <<now, suspended, accountVars, session, recovery, reference, resets, cleaner>>

\* _discard_token; a failure is only logged.
Discard(r) ==
  LET q == req[r] IN
  /\ q.pc = "discard"
  /\ reference' \in {reference, reference \ {q.token}}
  /\ Becomes(r, Idle)
  /\ UNCHANGED <<now, suspended, accountVars, session, recovery, mailed, resets, cleaner>>

\* CompletePasswordRecovery: Redis must have the reference; then the clock.
BeginComplete(r) ==
  /\ req[r] = Idle
  /\ \E t \in mailed \cap reference, p \in Passwords :
       Becomes(r, [pc |-> "complete", token |-> t, new |-> p, at |-> now])
  /\ UNCHANGED <<now, suspended, accountVars, session, recoveryVars, cleaner>>

\* Fault: the row is found by its token alone.
RedeemableAnyway(t, at) == Stored(recovery[t]) /\ at < recovery[t].expires

\* The WHERE clause of the first UPDATE.
Redeemable(t, at) ==
  Stored(recovery[t]) /\ recovery[t].consumed = Never /\ at < recovery[t].expires

\* Fault: the sessions are left alone.
CompleteOnly(r) ==
  LET q == req[r]
      u == recovery[q.token].user
  IN
  /\ q.pc = "complete"
  /\ Redeemable(q.token, q.at)
  /\ recovery' = [recovery EXCEPT ![q.token].consumed = q.at]
  /\ password' = [password EXCEPT ![u] = q.new]
  /\ epoch' = [epoch EXCEPT ![u] = @ + 1]
  /\ resets' = [resets EXCEPT ![q.token] = @ + 1]
  /\ Becomes(r, [pc |-> "consume", token |-> q.token])
  /\ UNCHANGED <<now, suspended, session, reference, mailed, cleaner>>

\* One transaction: the row is consumed, the password set and the live sessions end.
\* Every account has a password row from its registration, so it is always found.
Complete(r) ==
  LET q == req[r]
      u == recovery[q.token].user
  IN
  /\ q.pc = "complete"
  /\ \/ /\ Redeemable(q.token, q.at)
        /\ recovery' = [recovery EXCEPT ![q.token].consumed = q.at]
        /\ password' = [password EXCEPT ![u] = q.new]
        /\ epoch' = [epoch EXCEPT ![u] = @ + 1]
        /\ session' = RevokedAll(u, q.at)
        /\ resets' = [resets EXCEPT ![q.token] = @ + 1]
        /\ Becomes(r, [pc |-> "consume", token |-> q.token])
     \/ /\ ~Redeemable(q.token, q.at)
        /\ Becomes(r, Idle)
        /\ UNCHANGED <<accountVars, session, recovery, resets>>
  /\ UNCHANGED <<now, suspended, reference, mailed, cleaner>>

\* The reference goes after the commit; a failure is only logged, and the notice of
\* the change is sent either way.
ConsumeReference(r) ==
  LET q == req[r] IN
  /\ q.pc = "consume"
  /\ reference' \in {reference, reference \ {q.token}}
  /\ Becomes(r, Idle)
  /\ UNCHANGED <<now, suspended, accountVars, session, recovery, mailed, resets, cleaner>>

-----------------------------------------------------------------------------
(* Cleanup.                                                                  *)

\* CleanupSecurityRecords takes the time once for both deletions.
BeginCleanup ==
  /\ cleaner = Asleep
  /\ cleaner' = [pc |-> "sessions", at |-> now]
  /\ UNCHANGED <<now, suspended, accountVars, session, recoveryVars, req>>

\* Fault: rows that were not seen for the retention period are deleted.
SessionDueUnseen(row, before) == Stored(row) /\ row.seen <= before

\* expires_at < before or revoked_at < before
SessionDue(row, before) ==
  Stored(row) /\ (row.expires < before \/ (row.revoked # Never /\ row.revoked < before))

DeleteSessions ==
  LET before == cleaner.at - SessionRetention IN
  /\ cleaner.pc = "sessions"
  /\ session' = [s \in Sessions |-> IF SessionDue(session[s], before) THEN Deleted ELSE session[s]]
  /\ cleaner' = [cleaner EXCEPT !.pc = "recoveries"]
  /\ UNCHANGED <<now, suspended, accountVars, recoveryVars, req>>

RecoveryDue(row, before) ==
  Stored(row) /\ (row.expires < before \/ (row.consumed # Never /\ row.consumed < before))

DeleteRecoveries ==
  LET before == cleaner.at - RecoveryRetention IN
  /\ cleaner.pc = "recoveries"
  /\ recovery' = [t \in Tokens |-> IF RecoveryDue(recovery[t], before) THEN Deleted ELSE recovery[t]]
  /\ cleaner' = Asleep
  /\ UNCHANGED <<now, suspended, accountVars, session, reference, mailed, resets, req>>

\* A tick that fails is logged and the worker waits for the next one.
CleanupFails ==
  /\ cleaner # Asleep
  /\ cleaner' = Asleep
  /\ UNCHANGED <<now, suspended, accountVars, session, recoveryVars, req>>

-----------------------------------------------------------------------------
Tick ==
  /\ now < MaxTime
  /\ now' = now + 1
  /\ UNCHANGED <<suspended, accountVars, session, recoveryVars, cleaner, req>>

\* The status of a user is changed outside the Console.
Suspend(u) ==
  /\ u \notin suspended
  /\ suspended' = suspended \cup {u}
  /\ UNCHANGED <<now, accountVars, session, recoveryVars, cleaner, req>>

\* The time to live of a reference ends.
ExpireReference(t) ==
  /\ t \in reference
  /\ reference' = reference \ {t}
  /\ UNCHANGED <<now, suspended, accountVars, session, recovery, mailed, resets, cleaner, req>>

\* The request is refused, its store fails, or its process restarts.
Abandon(r) ==
  /\ req[r] # Idle
  /\ Becomes(r, Idle)
  /\ UNCHANGED <<now, suspended, accountVars, session, recoveryVars, cleaner>>

Step(r) ==
  \/ BeginLogin(r) \/ OpenSession(r) \/ InsertSession(r)
  \/ Resolve(r) \/ TouchLastSeen(r) \/ BeginReauthenticate(r) \/ Reauthenticate(r)
  \/ Revoke(r) \/ RevokeAll(r) \/ BeginChange(r) \/ ChangePassword(r)
  \/ BeginRecovery(r) \/ PutReference(r) \/ CreateRow(r) \/ Mail(r) \/ Discard(r)
  \/ BeginComplete(r) \/ Complete(r) \/ ConsumeReference(r)
  \/ Abandon(r)

Next ==
  \/ \E r \in Requests : Step(r)
  \/ BeginCleanup \/ DeleteSessions \/ DeleteRecoveries \/ CleanupFails
  \/ Tick
  \/ \E u \in Users : Suspend(u)
  \/ \E t \in Tokens : ExpireReference(t)

Spec == Init /\ [][Next]_vars

-----------------------------------------------------------------------------
(* Properties.                                                               *)

\* Type invariant of the tables, the Redis references and the requests.
TypeOK ==
  /\ now \in Times
  /\ suspended \subseteq Users
  /\ password \in [Users -> Passwords]
  /\ epoch \in [Users -> Epochs]
  /\ session \in [Sessions -> SessionRow \cup {NoRow, Deleted}]
  /\ recovery \in [Tokens -> RecoveryRow \cup {NoRow, Deleted}]
  /\ reference \subseteq Tokens /\ mailed \subseteq Tokens
  /\ resets \in [Tokens -> Nat]
  /\ cleaner \in CleanerStates
  /\ req \in [Requests -> RequestStates]

\* A revoked session is over: no request that resolved it earlier can touch it,
\* authenticate it again or bring it back, and its row only ever disappears.
RevokedIsFinal ==
  [][\A s \in Sessions : Stored(session[s]) /\ session[s].revoked # Never =>
       session'[s] \in {session[s], Deleted}
    ]_vars

\* A completed recovery ends every session written before it: a live session of a
\* user was written after the last recovery of that user. (A login that verified
\* its password before the recovery may still write its row after it.)
RecoveryClosesSessions ==
  \A s \in Sessions : is_active_at(s, now) => session[s].born = epoch[session[s].user]

\* A recovery token sets a password at most once, whichever of its Redis reference
\* and its row outlives the other, and only if it was mailed; a row is marked as
\* consumed exactly when it did set one.
OneResetPerToken ==
  \A t \in Tokens :
    /\ resets[t] <= 1
    /\ resets[t] = 1 => t \in mailed
    /\ Stored(recovery[t]) => (recovery[t].consumed # Never <=> resets[t] = 1)

\* The cleanup, whose cut-off is older than the rows it looks at, deletes no live
\* session and no recovery that could still be completed.
CleanupSparesLive ==
  [][/\ \A s \in Sessions : session'[s] = Deleted => ~is_active_at(s, now)
     /\ \A t \in Tokens : recovery'[t] = Deleted => ~Redeemable(t, now)
    ]_vars
=============================================================================
