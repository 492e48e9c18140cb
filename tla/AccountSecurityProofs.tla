------------------------- MODULE AccountSecurityProofs -------------------------
(* Proofs about AccountSecurity, for every set of users, sessions, tokens and *)
(* concurrent requests, and all lifetimes and retention periods.              *)
EXTENDS AccountSecurity, TLAPS

\* What holds of the local state of a request while others write: a completion read the
\* clock earlier and has a mailed token, a recovery about to write its row finds none.
SoundAt(q, time, posted, rows) ==
  /\ q \in RequestStates
  /\ q.pc = "complete" => q.at <= time /\ q.token \in posted
  /\ q.pc = "row" => rows[q.token] = NoRow

RequestSound(q) == SoundAt(q, now, mailed, recovery)

SoundNext(q) == SoundAt(q, now', mailed', recovery')

RequestsSound == \A r \in Requests : RequestSound(req[r])

\* Two requests never write the row of the same token.
RowsApart ==
  \A r, x \in Requests :
    req[r].pc = "row" /\ req[x].pc = "row" /\ req[r].token = req[x].token => r = x

\* A token without a row set no password.
UnusedBeforeRow == \A t \in Tokens : recovery[t] = NoRow => resets[t] = 0

\* The cut-off of the cleanup is in the past.
CutOffPast == cleaner # Asleep => cleaner.at <= now

\* The inductive invariant.
IInv ==
  /\ TypeOK /\ RequestsSound /\ RowsApart /\ UnusedBeforeRow /\ CutOffPast
  /\ RecoveryClosesSessions /\ OneResetPerToken

-----------------------------------------------------------------------------
(* Local states and rows.                                                    *)

\* What a request at each point of its code knows.
LEMMA RequestShape ==
  ASSUME NEW q \in RequestStates
  PROVE  /\ q.pc = "open" => q.user \in Users /\ q.proof \in Epochs
         /\ q.pc = "insert" => q.user \in Users /\ q.proof \in Epochs /\ q.at \in Times
         /\ q.pc = "touch" => q.principal \in Principal /\ q.at \in Times
         /\ q.pc = "ready" => q.principal \in Principal
         /\ q.pc = "elevate" => q.principal \in Principal /\ q.at \in Times
         /\ q.pc = "change" => q.principal \in Principal /\ q.new \in Passwords
         /\ q.pc = "put" => q.user \in Users
         /\ q.pc = "row" => q.user \in Users /\ q.token \in Tokens /\ q.at \in Times
         /\ q.pc \in {"mail", "discard", "consume"} => q.token \in Tokens
         /\ q.pc \in {"mail", "discard", "consume"} => q = [pc |-> q.pc, token |-> q.token]
         /\ q.pc = "complete" => q.token \in Tokens /\ q.new \in Passwords /\ q.at \in Times
BY DEF RequestStates, Idle

\* Idle requests hold nothing.
LEMMA IdleSound == RequestSound(Idle)
BY DEF RequestSound, SoundAt, RequestStates, Idle

\* A row that is stored is a row of the table, and the marks for its absence differ.
LEMMA Rows ==
  ASSUME TypeOK
  PROVE  /\ \A s \in Sessions : Stored(session[s]) <=> session[s] \in SessionRow
         /\ \A t \in Tokens : Stored(recovery[t]) <=> recovery[t] \in RecoveryRow
         /\ \A row \in SessionRow \cup RecoveryRow : row # NoRow /\ row # Deleted /\ Stored(row)
         /\ ~Stored(NoRow) /\ ~Stored(Deleted)
BY SecurityAssumption DEF TypeOK, Stored, SessionRow, RecoveryRow, NoRow, Deleted

\* Both marks are told apart by their field.
LEMMA NoRowIsNotDeleted == NoRow # Deleted
BY DEF NoRow, Deleted

-----------------------------------------------------------------------------
(* Steps of a request.                                                       *)

\* A request that goes on with q keeps what is said of all requests, as long as time
\* does not go back, mails stay sent and no row appears.
LEMMA RequestsKeep ==
  ASSUME TypeOK, RequestsSound, NEW r \in Requests, NEW q, Becomes(r, q), SoundNext(q),
         now' \in Times, now <= now', mailed \subseteq mailed',
         \A t \in Tokens : recovery[t] = NoRow => recovery'[t] = NoRow
  PROVE  req' \in [Requests -> RequestStates] /\ RequestsSound'
<1>1. req' \in [Requests -> RequestStates]
  BY DEF TypeOK, Becomes, SoundAt, SoundNext
<1>2. ASSUME NEW x \in Requests PROVE RequestSound(req[x])'
  <2>1. CASE x = r
    BY <2>1 DEF Becomes, TypeOK, RequestSound, SoundNext
  <2>2. CASE x # r
    <3>1. req'[x] = req[x] /\ req[x] \in RequestStates /\ RequestSound(req[x])
      BY <2>2 DEF Becomes, TypeOK, RequestsSound
    <3>2. req[x].pc = "complete" => req[x].at <= now'
      BY <3>1, RequestShape, SecurityAssumption DEF RequestSound, SoundAt, TypeOK, Times
    <3> QED BY <3>1, <3>2, RequestShape DEF RequestSound, SoundAt, SoundNext
  <2> QED BY <2>1, <2>2
<1> QED BY <1>1, <1>2 DEF RequestsSound

\* A request that is not about to write a row leaves the others apart.
LEMMA RowsKeepApart ==
  ASSUME TypeOK, RowsApart, NEW r \in Requests, NEW q, Becomes(r, q), q.pc # "row"
  PROVE  RowsApart'
BY DEF TypeOK, RowsApart, Becomes

\* A step that changes its request and at most the sessions, none of which outlives
\* a recovery.
LEMMA SessionStep ==
  ASSUME IInv, NEW r \in Requests, NEW q, Becomes(r, q), RequestSound(q), q.pc # "row",
         UNCHANGED <<now, suspended, accountVars, recoveryVars, cleaner>>,
         session' \in [Sessions -> SessionRow \cup {NoRow, Deleted}],
         RecoveryClosesSessions'
  PROVE  IInv'
<1>1. SoundNext(q)
  BY DEF RequestSound, SoundAt, SoundNext, recoveryVars
<1>2. req' \in [Requests -> RequestStates] /\ RequestsSound'
  BY <1>1, RequestsKeep DEF IInv, TypeOK, recoveryVars, Times
<1>3. RowsApart'
  BY RowsKeepApart DEF IInv
<1>4. TypeOK'
  BY <1>2 DEF IInv, TypeOK, accountVars, recoveryVars
<1> QED BY <1>2, <1>3, <1>4
        DEF IInv, UnusedBeforeRow, CutOffPast, OneResetPerToken, recoveryVars

\* A step that changes nothing but its request.
LEMMA QuietStep ==
  ASSUME IInv, NEW r \in Requests, NEW q, Becomes(r, q), RequestSound(q), q.pc # "row",
         UNCHANGED <<now, suspended, accountVars, session, recoveryVars, cleaner>>
  PROVE  IInv'
<1>1. session' \in [Sessions -> SessionRow \cup {NoRow, Deleted}] /\ RecoveryClosesSessions'
  BY DEF IInv, TypeOK, RecoveryClosesSessions, is_active_at, accountVars
<1> QED BY <1>1, SessionStep

\* The requests that only read.
LEMMA ReadingSteps ==
  ASSUME IInv, NEW r \in Requests,
         \/ BeginLogin(r) \/ OpenSession(r) \/ Resolve(r) \/ BeginReauthenticate(r)
         \/ BeginChange(r) \/ BeginRecovery(r) \/ BeginComplete(r) \/ Abandon(r)
  PROVE  IInv'
<1> USE DEF IInv
<1>0. req[r] \in RequestStates /\ now \in Times
  BY DEF TypeOK
<1>1. CASE BeginLogin(r)
  <2>1. PICK u \in Users : Becomes(r, [pc |-> "open", user |-> u, proof |-> epoch[u]])
    BY <1>1 DEF BeginLogin
  <2>2. RequestSound([pc |-> "open", user |-> u, proof |-> epoch[u]])
    BY DEF RequestSound, SoundAt, RequestStates, TypeOK
  <2> QED BY <1>1, <2>1, <2>2, QuietStep DEF BeginLogin
<1>2. CASE OpenSession(r)
  <2> DEFINE q == IF req[r].user \in suspended THEN Idle
                  ELSE [pc |-> "insert", user |-> req[r].user, proof |-> req[r].proof, at |-> now]
  <2>1. RequestSound(q) /\ q.pc # "row"
    BY <1>0, <1>2, RequestShape, IdleSound
    DEF OpenSession, RequestSound, SoundAt, RequestStates, Idle
  <2>2. Becomes(r, q)
    BY <1>2 DEF OpenSession
  <2> HIDE DEF q
  <2> QED BY <1>2, <2>1, <2>2, QuietStep DEF OpenSession
<1>3. CASE Resolve(r)
  <2> DEFINE q(s) == [pc |-> "touch", at |-> now, stale |-> now - session[s].seen >= TouchInterval,
                      principal |-> [user |-> session[s].user, session |-> s,
                                     authenticated |-> session[s].authenticated]]
  <2>1. PICK s \in Sessions : is_active_at(s, now) /\ Becomes(r, q(s))
    BY <1>3 DEF Resolve
  <2>2. session[s].user \in Users /\ session[s].authenticated \in Times
    BY <2>1, Rows DEF is_active_at, SessionRow
  <2>3. RequestSound(q(s)) /\ q(s).pc # "row"
    BY <1>0, <2>2 DEF RequestSound, SoundAt, RequestStates, Principal
  <2> HIDE DEF q
  <2> QED BY <1>3, <2>1, <2>3, QuietStep DEF Resolve
<1>4. CASE BeginReauthenticate(r)
  <2> DEFINE q == [pc |-> "elevate", principal |-> req[r].principal, at |-> now]
  <2>1. RequestSound(q) /\ q.pc # "row"
    BY <1>0, <1>4, RequestShape DEF BeginReauthenticate, RequestSound, SoundAt, RequestStates
  <2>2. Becomes(r, q)
    BY <1>4 DEF BeginReauthenticate
  <2> HIDE DEF q
  <2> QED BY <1>4, <2>1, <2>2, QuietStep DEF BeginReauthenticate
<1>5. CASE BeginChange(r)
  <2> DEFINE q(p) == [pc |-> "change", principal |-> req[r].principal, new |-> p]
  <2>1. PICK p \in Passwords : Becomes(r, q(p))
    BY <1>5 DEF BeginChange
  <2>2. RequestSound(q(p)) /\ q(p).pc # "row"
    BY <1>0, <1>5, RequestShape DEF BeginChange, RequestSound, SoundAt, RequestStates
  <2> HIDE DEF q
  <2> QED BY <1>5, <2>1, <2>2, QuietStep DEF BeginChange
<1>6. CASE BeginRecovery(r)
  <2>1. PICK u \in Users : Becomes(r, [pc |-> "put", user |-> u])
    BY <1>6 DEF BeginRecovery
  <2>2. RequestSound([pc |-> "put", user |-> u])
    BY DEF RequestSound, SoundAt, RequestStates
  <2> QED BY <1>6, <2>1, <2>2, QuietStep DEF BeginRecovery
<1>7. CASE BeginComplete(r)
  <2> DEFINE q(t, p) == [pc |-> "complete", token |-> t, new |-> p, at |-> now]
  <2>1. PICK t \in mailed \cap reference, p \in Passwords : Becomes(r, q(t, p))
    BY <1>7 DEF BeginComplete
  <2>2. RequestSound(q(t, p)) /\ q(t, p).pc # "row"
    BY <1>0, SecurityAssumption DEF RequestSound, SoundAt, RequestStates, TypeOK, Times
  <2> HIDE DEF q
  <2> QED BY <1>7, <2>1, <2>2, QuietStep DEF BeginComplete
<1>8. CASE Abandon(r)
  BY <1>8, IdleSound, QuietStep DEF Abandon, Idle
<1> QED BY <1>1, <1>2, <1>3, <1>4, <1>5, <1>6, <1>7, <1>8

-----------------------------------------------------------------------------
(* Steps that write sessions.                                                *)

\* A session that was live and keeps its user, its recovery and its end may be
\* written without reviving it.
Alike(new, old) ==
  /\ new.user = old.user /\ new.born = old.born /\ new.expires = old.expires
  /\ old.revoked # Never => new.revoked # Never

\* The rows that the updates of a session leave.
LEMMA SessionUpdates ==
  ASSUME NEW row \in SessionRow, NEW t \in Times
  PROVE  /\ [row EXCEPT !.seen = t] \in SessionRow
         /\ [row EXCEPT !.authenticated = t, !.seen = t] \in SessionRow
         /\ [row EXCEPT !.revoked = t] \in SessionRow
         /\ [row EXCEPT !.revoked = t].revoked # Never
         /\ Alike([row EXCEPT !.seen = t], row)
         /\ Alike([row EXCEPT !.authenticated = t, !.seen = t], row)
         /\ Alike([row EXCEPT !.revoked = t], row)
<1>1. t # Never
  BY SecurityAssumption DEF Times, Never
<1>2. /\ [row EXCEPT !.seen = t] \in SessionRow
      /\ [row EXCEPT !.authenticated = t, !.seen = t] \in SessionRow
      /\ [row EXCEPT !.revoked = t] \in SessionRow
      /\ [row EXCEPT !.revoked = t].revoked = t
  BY DEF SessionRow
<1>3. Alike([row EXCEPT !.seen = t], row)
  BY DEF SessionRow, Alike
<1>4. Alike([row EXCEPT !.authenticated = t, !.seen = t], row)
  BY DEF SessionRow, Alike
<1>5. Alike([row EXCEPT !.revoked = t], row)
  BY <1>1 DEF SessionRow, Alike
<1> QED BY <1>1, <1>2, <1>3, <1>4, <1>5

\* Rows that stay alike keep the sessions closed that a recovery closed.
LEMMA AlikeStaysClosed ==
  ASSUME IInv, UNCHANGED <<now, epoch>>,
         \A s \in Sessions : session'[s] = session[s]
                             \/ (Stored(session[s]) /\ Alike(session'[s], session[s]))
  PROVE  RecoveryClosesSessions'
<1> SUFFICES ASSUME NEW s \in Sessions, is_active_at(s, now)'
             PROVE  session'[s].born = epoch[session'[s].user]
  BY DEF RecoveryClosesSessions, is_active_at
<1>1. is_active_at(s, now) => session[s].born = epoch[session[s].user]
  BY DEF IInv, RecoveryClosesSessions
<1>2. CASE session'[s] = session[s]
  BY <1>1, <1>2 DEF is_active_at
<1>3. CASE Stored(session[s]) /\ Alike(session'[s], session[s])
  BY <1>1, <1>3 DEF is_active_at, Alike
<1> QED BY <1>2, <1>3

\* revoke_all: live rows of the user end, all others stay as they are.
LEMMA RevokedAllRows ==
  ASSUME TypeOK, NEW u \in Users, NEW t \in Times
  PROVE  /\ RevokedAll(u, t) \in [Sessions -> SessionRow \cup {NoRow, Deleted}]
         /\ \A s \in Sessions :
              \/ RevokedAll(u, t)[s] = session[s] /\ ~(is_active_at(s, t) /\ session[s].user = u)
              \/ /\ Stored(session[s]) /\ session[s].revoked = Never
                 /\ Alike(RevokedAll(u, t)[s], session[s]) /\ RevokedAll(u, t)[s].revoked # Never
                 /\ RevokedAll(u, t)[s] \in SessionRow
<1> SUFFICES ASSUME NEW s \in Sessions
             PROVE  /\ RevokedAll(u, t)[s] \in SessionRow \cup {NoRow, Deleted}
                    /\ \/ /\ RevokedAll(u, t)[s] = session[s]
                          /\ ~(is_active_at(s, t) /\ session[s].user = u)
                       \/ /\ Stored(session[s]) /\ session[s].revoked = Never
                          /\ Alike(RevokedAll(u, t)[s], session[s])
                          /\ RevokedAll(u, t)[s].revoked # Never
                          /\ RevokedAll(u, t)[s] \in SessionRow
  BY DEF RevokedAll
<1>1. CASE is_active_at(s, t) /\ session[s].user = u
  <2>1. session[s] \in SessionRow /\ RevokedAll(u, t)[s] = [session[s] EXCEPT !.revoked = t]
    BY <1>1, Rows DEF is_active_at, RevokedAll
  <2> QED BY <1>1, <2>1, SessionUpdates DEF is_active_at
<1>2. CASE ~(is_active_at(s, t) /\ session[s].user = u)
  BY <1>2 DEF RevokedAll, TypeOK
<1> QED BY <1>1, <1>2

\* A new row carries the recoveries of its user, and an update leaves the row alike.
LEMMA SessionWrites ==
  ASSUME IInv, NEW r \in Requests,
         \/ InsertSession(r) \/ TouchLastSeen(r) \/ Reauthenticate(r) \/ Revoke(r) \/ RevokeAll(r)
  PROVE  IInv'
<1> USE DEF IInv
<1>0. req[r] \in RequestStates /\ now \in Times /\ Idle.pc # "row" /\ RequestSound(Idle)
  BY IdleSound DEF TypeOK, Idle
<1>1. CASE InsertSession(r)
  <2> DEFINE row == [user |-> req[r].user, expires |-> req[r].at + SessionLifetime,
                     revoked |-> Never, authenticated |-> req[r].at, seen |-> req[r].at,
                     born |-> epoch[req[r].user], proof |-> req[r].proof]
  <2>1. PICK s \in Sessions : session' = [session EXCEPT ![s] = row]
    BY <1>1 DEF InsertSession
  <2>2. row \in SessionRow
    BY <1>0, <1>1, RequestShape, SecurityAssumption
    DEF InsertSession, SessionRow, TypeOK, Times, Never, Epochs
  <2>3. row.born = epoch[row.user]
    OBVIOUS
  <2> HIDE DEF row
  <2>4. RecoveryClosesSessions'
    BY <1>1, <2>1, <2>3 DEF InsertSession, RecoveryClosesSessions, is_active_at, TypeOK, accountVars
  <2>5. session' \in [Sessions -> SessionRow \cup {NoRow, Deleted}]
    BY <2>1, <2>2 DEF TypeOK
  <2> QED BY <1>0, <1>1, <2>4, <2>5, SessionStep DEF InsertSession
<1>2. CASE TouchLastSeen(r)
  <2> DEFINE p == req[r].principal
             q == [pc |-> "ready", principal |-> p]
  <2>1. p \in Principal /\ req[r].at \in Times
    BY <1>0, <1>2, RequestShape DEF TouchLastSeen
  <2>2. RequestSound(q) /\ q.pc # "row"
    BY <2>1 DEF RequestSound, SoundAt, RequestStates
  <2>3. Becomes(r, Idle) \/ Becomes(r, q)
    BY <1>2 DEF TouchLastSeen
  <2>4. CASE UNCHANGED session
    <3> HIDE DEF q
    <3> QED BY <1>0, <1>2, <2>2, <2>3, <2>4, QuietStep DEF TouchLastSeen
  <2>5. CASE /\ Writable(p.session, p.user, req[r].at)
             /\ session' = [session EXCEPT ![p.session].seen = req[r].at]
    <3>1. p.session \in Sessions /\ session[p.session] \in SessionRow
      BY <2>1, <2>5, Rows DEF Principal, Writable, is_active_at
    <3>2. session'[p.session] = [session[p.session] EXCEPT !.seen = req[r].at]
      BY <2>5, <3>1 DEF TypeOK
    <3>3. session' \in [Sessions -> SessionRow \cup {NoRow, Deleted}]
      BY <2>1, <2>5, <3>1, SessionUpdates DEF TypeOK
    <3>4. RecoveryClosesSessions'
      <4>1. Alike(session'[p.session], session[p.session])
        BY <2>1, <3>1, <3>2, SessionUpdates
      <4>2. \A s \in Sessions \ {p.session} : session'[s] = session[s]
        BY <2>5 DEF TypeOK
      <4>3. UNCHANGED <<now, epoch>>
        BY <1>2 DEF TouchLastSeen, accountVars
      <4> QED BY <2>5, <4>1, <4>2, <4>3, AlikeStaysClosed DEF Writable, is_active_at
    <3> HIDE DEF q, p
    <3> QED BY <1>0, <1>2, <2>2, <2>3, <3>3, <3>4, SessionStep DEF TouchLastSeen
  <2> QED BY <1>2, <2>4, <2>5 DEF TouchLastSeen
<1>3. CASE Reauthenticate(r)
  <2> DEFINE p == req[r].principal
  <2>1. p \in Principal /\ req[r].at \in Times
    BY <1>0, <1>3, RequestShape DEF Reauthenticate
  <2>2. CASE UNCHANGED session
    BY <1>0, <1>3, <2>2, QuietStep DEF Reauthenticate
  <2>3. CASE /\ Writable(p.session, p.user, req[r].at)
             /\ session' = [session EXCEPT ![p.session].authenticated = req[r].at,
                                           ![p.session].seen = req[r].at]
    <3>1. p.session \in Sessions /\ session[p.session] \in SessionRow
      BY <2>1, <2>3, Rows DEF Principal, Writable, is_active_at
    <3> DEFINE row == [session[p.session] EXCEPT !.authenticated = req[r].at, !.seen = req[r].at]
    <3>2. session' = [session EXCEPT ![p.session] = row]
      BY <2>3, <3>1 DEF TypeOK
    <3>3. row \in SessionRow
      BY <2>1, <3>1, SessionUpdates
    <3>4. Alike(row, session[p.session])
      BY <2>1, <3>1, SessionUpdates
    <3> HIDE DEF row
    <3>5. session' \in [Sessions -> SessionRow \cup {NoRow, Deleted}]
      BY <3>1, <3>2, <3>3 DEF TypeOK
    <3>6. RecoveryClosesSessions'
      <4>1. session'[p.session] = row /\ Stored(session[p.session])
        BY <2>3, <3>1, <3>2 DEF TypeOK, Writable, is_active_at
      <4>2. \A s \in Sessions \ {p.session} : session'[s] = session[s]
        BY <3>2 DEF TypeOK
      <4>3. UNCHANGED <<now, epoch>>
        BY <1>3 DEF Reauthenticate, accountVars
      <4> QED BY <3>4, <4>1, <4>2, <4>3, AlikeStaysClosed
    <3> QED BY <1>0, <1>3, <3>5, <3>6, SessionStep DEF Reauthenticate
  <2> QED BY <1>3, <2>2, <2>3 DEF Reauthenticate
<1>4. CASE Revoke(r)
  <2> DEFINE s == req[r].principal.session
  <2>1. s \in Sessions
    BY <1>0, <1>4, RequestShape DEF Revoke, Principal
  <2>2. CASE UNCHANGED session
    BY <1>0, <1>4, <2>2, QuietStep DEF Revoke
  <2>3. CASE Stored(session[s]) /\ session' = [session EXCEPT ![s].revoked = now]
    <3>1. session[s] \in SessionRow
      BY <2>1, <2>3, Rows
    <3> DEFINE row == [session[s] EXCEPT !.revoked = now]
    <3>2. session' = [session EXCEPT ![s] = row]
      BY <2>1, <2>3 DEF TypeOK
    <3>3. row \in SessionRow /\ Alike(row, session[s])
      BY <1>0, <3>1, SessionUpdates
    <3> HIDE DEF row
    <3>4. session' \in [Sessions -> SessionRow \cup {NoRow, Deleted}]
      BY <2>1, <3>2, <3>3 DEF TypeOK
    <3>5. RecoveryClosesSessions'
      <4>1. session'[s] = row /\ Stored(session[s])
        BY <2>1, <2>3, <3>2 DEF TypeOK
      <4>2. \A x \in Sessions \ {s} : session'[x] = session[x]
        BY <3>2 DEF TypeOK
      <4>3. UNCHANGED <<now, epoch>>
        BY <1>4 DEF Revoke, accountVars
      <4> QED BY <3>3, <4>1, <4>2, <4>3, AlikeStaysClosed
    <3> QED BY <1>0, <1>4, <3>4, <3>5, SessionStep DEF Revoke
  <2> QED BY <1>4, <2>2, <2>3 DEF Revoke
<1>5. CASE RevokeAll(r)
  <2>1. req[r].principal.user \in Users
    BY <1>0, <1>5, RequestShape DEF RevokeAll, Principal
  <2>2. session' = RevokedAll(req[r].principal.user, now)
    BY <1>5 DEF RevokeAll
  <2>3. RecoveryClosesSessions'
    <3>1. \A s \in Sessions : session'[s] = session[s]
                               \/ (Stored(session[s]) /\ Alike(session'[s], session[s]))
      BY <1>0, <2>1, <2>2, RevokedAllRows
    <3>2. UNCHANGED <<now, epoch>>
      BY <1>5 DEF RevokeAll, accountVars
    <3> QED BY <3>1, <3>2, AlikeStaysClosed
  <2>4. session' \in [Sessions -> SessionRow \cup {NoRow, Deleted}]
    BY <1>0, <2>1, <2>2, RevokedAllRows
  <2> QED BY <1>0, <1>5, <2>3, <2>4, SessionStep DEF RevokeAll
<1> QED BY <1>1, <1>2, <1>3, <1>4, <1>5

-----------------------------------------------------------------------------
(* Steps of a recovery and of a password change.                             *)

\* A step that changes passwords, references or mails besides its request.
LEMMA OutsideStep ==
  ASSUME IInv, NEW r \in Requests, NEW q, Becomes(r, q), SoundNext(q), q.pc # "row",
         UNCHANGED <<now, suspended, epoch, session, recovery, resets, cleaner>>,
         password' \in [Users -> Passwords],
         reference' \subseteq Tokens, mailed \subseteq mailed', mailed' \subseteq Tokens
  PROVE  IInv'
<1> USE DEF IInv
<1>1. req' \in [Requests -> RequestStates] /\ RequestsSound'
  BY RequestsKeep DEF TypeOK, Times
<1>2. RowsApart'
  BY RowsKeepApart
<1>3. TypeOK'
  BY <1>1 DEF TypeOK
<1>4. RecoveryClosesSessions'
  BY DEF RecoveryClosesSessions, is_active_at
<1>5. OneResetPerToken'
  BY DEF OneResetPerToken
<1> QED BY <1>1, <1>2, <1>3, <1>4, <1>5 DEF UnusedBeforeRow, CutOffPast

\* The writes beside the session and recovery tables: passwords, references, mails.
LEMMA OutsideWrites ==
  ASSUME IInv, NEW r \in Requests,
         \/ ChangePassword(r) \/ Mail(r) \/ Discard(r) \/ ConsumeReference(r)
  PROVE  IInv'
<1> USE DEF IInv
<1>0. req[r] \in RequestStates /\ Idle.pc # "row" /\ SoundNext(Idle)
  BY DEF TypeOK, Idle, SoundAt, SoundNext, RequestStates
<1>1. CASE ChangePassword(r)
  <2>1. password' \in [Users -> Passwords]
    BY <1>0, <1>1, RequestShape DEF ChangePassword, TypeOK, Principal
  <2> QED BY <1>0, <1>1, <2>1, OutsideStep DEF ChangePassword, recoveryVars, TypeOK
<1>2. CASE Mail(r)
  <2> DEFINE q == [req[r] EXCEPT !.pc = "discard"]
  <2>1. req[r].token \in Tokens /\ req[r] = [pc |-> "mail", token |-> req[r].token]
    BY <1>0, <1>2, RequestShape DEF Mail
  <2>2. q = [pc |-> "discard", token |-> req[r].token]
    BY <2>1
  <2>3. SoundNext(q) /\ q.pc # "row"
    BY <2>1, <2>2 DEF SoundAt, SoundNext, RequestStates
  <2>4. Becomes(r, Idle) \/ Becomes(r, q)
    BY <1>2 DEF Mail
  <2>5. mailed \subseteq mailed' /\ mailed' \subseteq Tokens
    BY <1>2, <2>1 DEF Mail, TypeOK
  <2> HIDE DEF q
  <2> QED BY <1>0, <1>2, <2>3, <2>4, <2>5, OutsideStep DEF Mail, accountVars, TypeOK
<1>3. CASE Discard(r)
  BY <1>0, <1>3, OutsideStep DEF Discard, accountVars, TypeOK
<1>4. CASE ConsumeReference(r)
  BY <1>0, <1>4, OutsideStep DEF ConsumeReference, accountVars, TypeOK
<1> QED BY <1>1, <1>2, <1>3, <1>4

\* The token of a new reference has no row, and nobody else writes one for it.
LEMMA PutReferenceKeeps ==
  ASSUME IInv, NEW r \in Requests, PutReference(r)
  PROVE  IInv'
<1> USE DEF IInv
<1> DEFINE q(t) == [pc |-> "row", user |-> req[r].user, token |-> t, at |-> now]
<1>1. PICK t \in Tokens :
        /\ recovery[t] = NoRow
        /\ \A x \in Requests : req[x].pc = "row" => req[x].token # t
        /\ reference' = reference \cup {t}
        /\ Becomes(r, q(t))
  BY DEF PutReference
<1>2. UNCHANGED <<now, suspended, password, epoch, session, recovery, mailed, resets, cleaner>>
  BY DEF PutReference, accountVars
<1>3. req[r].user \in Users /\ now \in Times
  BY RequestShape DEF PutReference, TypeOK
<1>4. SoundNext(q(t)) /\ q(t).pc = "row" /\ q(t).token = t
  BY <1>1, <1>2, <1>3 DEF SoundAt, SoundNext, RequestStates
<1> HIDE DEF q
<1>5. req' \in [Requests -> RequestStates] /\ RequestsSound'
  BY <1>1, <1>2, <1>3, <1>4, RequestsKeep DEF Times
<1>6. RowsApart'
  BY <1>1, <1>4 DEF RowsApart, Becomes, TypeOK
<1>7. TypeOK'
  BY <1>1, <1>2, <1>5 DEF TypeOK
<1>8. RecoveryClosesSessions' /\ OneResetPerToken'
  BY <1>2 DEF RecoveryClosesSessions, is_active_at, OneResetPerToken
<1> QED BY <1>2, <1>5, <1>6, <1>7, <1>8 DEF UnusedBeforeRow, CutOffPast

\* The row is written once: before it there was none, so its token is unused.
LEMMA CreateRowKeeps ==
  ASSUME IInv, NEW r \in Requests, CreateRow(r)
  PROVE  IInv'
<1> USE DEF IInv
<1> DEFINE t == req[r].token
           q(pc) == [pc |-> pc, token |-> t]
           row == [user |-> req[r].user, expires |-> req[r].at + RecoveryLifetime,
                   consumed |-> Never]
<1>0. req[r] \in RequestStates /\ req[r].pc = "row" /\ RequestSound(req[r])
  BY DEF TypeOK, RequestsSound, CreateRow
<1>1. t \in Tokens /\ req[r].user \in Users /\ req[r].at \in Times /\ recovery[t] = NoRow
  BY <1>0, RequestShape DEF RequestSound, SoundAt
<1>2. row \in RecoveryRow /\ row.consumed = Never
  BY <1>1, SecurityAssumption DEF RecoveryRow, Times
<1>3. PICK pc \in {"mail", "discard"} : Becomes(r, q(pc))
  BY DEF CreateRow
<1>4. UNCHANGED <<now, suspended, password, epoch, session, reference, mailed, resets, cleaner>>
  BY DEF CreateRow, accountVars
<1>5. recovery' = [recovery EXCEPT ![t] = row] \/ recovery' = recovery
  BY DEF CreateRow
<1>6. SoundNext(q(pc)) /\ q(pc).pc # "row"
  BY <1>1 DEF SoundAt, SoundNext, RequestStates
<1> HIDE DEF q, row
<1>7. RowsApart'
  BY <1>3, <1>6, RowsKeepApart
<1>8. \A x \in Tokens \ {t} : recovery'[x] = recovery[x]
  BY <1>5 DEF TypeOK
<1>9. recovery' \in [Tokens -> RecoveryRow \cup {NoRow, Deleted}]
  BY <1>1, <1>2, <1>5 DEF TypeOK
<1>10. req' \in [Requests -> RequestStates]
  BY <1>3, <1>6 DEF Becomes, TypeOK, SoundAt, SoundNext
<1>11. RequestsSound'
  <2>1. ASSUME NEW x \in Requests PROVE RequestSound(req[x])'
    <3>1. CASE x = r
      BY <1>3, <1>6, <3>1 DEF Becomes, TypeOK, RequestSound, SoundNext
    <3>2. CASE x # r
      <4>1. req'[x] = req[x] /\ RequestSound(req[x])
        BY <1>3, <3>2 DEF Becomes, TypeOK, RequestsSound
      <4>2. req[x].pc = "row" => req[x].token \in Tokens \ {t}
        BY <1>0, <3>2, <4>1, RequestShape DEF RowsApart, RequestSound, SoundAt
      <4> QED BY <1>4, <1>8, <4>1, <4>2 DEF RequestSound, SoundAt, SoundNext
    <3> QED BY <3>1, <3>2
  <2> QED BY <2>1 DEF RequestsSound
<1>12. OneResetPerToken' /\ UnusedBeforeRow'
  <2>1. resets[t] = 0
    BY <1>1 DEF UnusedBeforeRow
  <2>2. CASE recovery' = recovery
    BY <1>4, <2>2 DEF OneResetPerToken, UnusedBeforeRow
  <2>3. CASE recovery' = [recovery EXCEPT ![t] = row]
    <3>1. recovery'[t] = row
      BY <1>1, <2>3 DEF TypeOK
    <3> QED BY <1>2, <1>4, <1>8, <2>1, <3>1, Rows DEF OneResetPerToken, UnusedBeforeRow
  <2> QED BY <1>5, <2>2, <2>3
<1>13. TypeOK'
  BY <1>4, <1>9, <1>10 DEF TypeOK
<1>14. RecoveryClosesSessions' /\ CutOffPast'
  BY <1>4 DEF RecoveryClosesSessions, is_active_at, CutOffPast
<1> QED BY <1>7, <1>11, <1>12, <1>13, <1>14

\* The transaction of a recovery: a row that is not consumed set no password yet, and
\* what is live now was live when the request read the clock.
LEMMA CompleteKeeps ==
  ASSUME IInv, NEW r \in Requests, Complete(r)
  PROVE  IInv'
<1> USE DEF IInv
<1> DEFINE t == req[r].token
           at == req[r].at
           u == recovery[t].user
           q == [pc |-> "consume", token |-> t]
<1>0. req[r] \in RequestStates /\ req[r].pc = "complete" /\ RequestSound(req[r])
  BY DEF TypeOK, RequestsSound, Complete
<1>1. /\ t \in Tokens /\ req[r].new \in Passwords /\ at \in Times
      /\ at <= now /\ t \in mailed
  BY <1>0, RequestShape DEF RequestSound, SoundAt
<1>2. CASE ~Redeemable(t, at)
  BY <1>2, IdleSound, QuietStep DEF Complete, Idle, recoveryVars
<1>3. CASE Redeemable(t, at)
  <2>1. /\ recovery' = [recovery EXCEPT ![t].consumed = at]
        /\ password' = [password EXCEPT ![u] = req[r].new]
        /\ epoch' = [epoch EXCEPT ![u] = @ + 1]
        /\ session' = RevokedAll(u, at)
        /\ resets' = [resets EXCEPT ![t] = @ + 1]
        /\ Becomes(r, q)
        /\ UNCHANGED <<now, suspended, reference, mailed, cleaner>>
    BY <1>3 DEF Complete
  <2>2. recovery[t] \in RecoveryRow /\ recovery[t].consumed = Never /\ u \in Users
    BY <1>1, <1>3, Rows DEF Redeemable, RecoveryRow
  <2> DEFINE row == [recovery[t] EXCEPT !.consumed = at]
  <2>3. row \in RecoveryRow /\ row.consumed # Never
    BY <1>1, <2>2, SecurityAssumption DEF RecoveryRow, Times, Never
  <2>4. recovery' = [recovery EXCEPT ![t] = row]
    BY <1>1, <2>1 DEF TypeOK
  <2>5. SoundNext(q) /\ q.pc # "row"
    BY <1>1 DEF SoundNext, SoundAt, RequestStates
  <2> HIDE DEF q, row
  <2>6. \A x \in Tokens : /\ x # t => recovery'[x] = recovery[x]
                          /\ recovery[x] = NoRow => recovery'[x] = NoRow
    BY <2>2, <2>4, Rows DEF TypeOK
  <2>7. recovery' \in [Tokens -> RecoveryRow \cup {NoRow, Deleted}] /\ recovery'[t] = row
    BY <1>1, <2>3, <2>4 DEF TypeOK
  <2>8. req' \in [Requests -> RequestStates] /\ RequestsSound'
    BY <2>1, <2>5, <2>6, RequestsKeep DEF TypeOK, Times
  <2>9. RowsApart'
    BY <2>1, <2>5, RowsKeepApart
  <2>10. resets[t] = 0
    BY <1>1, <1>3, <2>2 DEF OneResetPerToken, Redeemable, TypeOK
  <2>11. OneResetPerToken'
    <3>1. resets'[t] = 1 /\ \A x \in Tokens \ {t} : resets'[x] = resets[x]
      BY <1>1, <2>1, <2>10 DEF TypeOK
    <3>2. \A x \in Tokens \ {t} : /\ resets'[x] <= 1
                                  /\ resets'[x] = 1 => x \in mailed'
                                  /\ Stored(recovery'[x]) => (recovery'[x].consumed # Never <=> resets'[x] = 1)
      BY <2>1, <2>6, <3>1 DEF OneResetPerToken
    <3>3. Stored(recovery'[t]) => (recovery'[t].consumed # Never <=> resets'[t] = 1)
      BY <2>3, <2>7, <3>1
    <3> QED BY <1>1, <2>1, <3>1, <3>2, <3>3 DEF OneResetPerToken
  <2>12. UnusedBeforeRow'
    BY <2>1, <2>3, <2>6, <2>7, Rows DEF UnusedBeforeRow, TypeOK
  <2>13. session' \in [Sessions -> SessionRow \cup {NoRow, Deleted}]
    BY <1>1, <2>1, <2>2, RevokedAllRows
  <2>14. RecoveryClosesSessions'
    <3> SUFFICES ASSUME NEW s \in Sessions, Stored(session'[s]), session'[s].revoked = Never,
                        now < session'[s].expires
                 PROVE  session'[s].born = epoch'[session'[s].user]
      BY <2>1 DEF RecoveryClosesSessions, is_active_at
    <3>1. session'[s] = session[s] /\ ~(is_active_at(s, at) /\ session[s].user = u)
      BY <1>1, <2>1, <2>2, RevokedAllRows
    <3>2. session[s] \in SessionRow
      BY <3>1, Rows
    <3>3. is_active_at(s, now) /\ is_active_at(s, at)
      BY <1>1, <3>1, <3>2, SecurityAssumption DEF is_active_at, SessionRow, Times, TypeOK
    <3>4. session[s].user \in Users /\ session[s].user # u
      BY <3>1, <3>2, <3>3 DEF SessionRow
    <3> QED BY <2>1, <3>1, <3>3, <3>4 DEF RecoveryClosesSessions, TypeOK
  <2>15. TypeOK'
    <3>1. password' \in [Users -> Passwords] /\ epoch' \in [Users -> Epochs]
      BY <1>1, <2>1, <2>2 DEF TypeOK, Epochs
    <3>2. resets' \in [Tokens -> Nat]
      BY <1>1, <2>1 DEF TypeOK
    <3> QED BY <2>1, <2>7, <2>8, <2>13, <3>1, <3>2 DEF TypeOK
  <2> QED BY <2>1, <2>8, <2>9, <2>11, <2>12, <2>14, <2>15 DEF CutOffPast
<1> QED BY <1>2, <1>3

-----------------------------------------------------------------------------
(* The cleanup and what happens outside.                                     *)

\* The two deletions of the cleanup, and its failure between them.
LEMMA CleanupKeeps ==
  ASSUME IInv, BeginCleanup \/ DeleteSessions \/ DeleteRecoveries \/ CleanupFails
  PROVE  IInv'
<1> USE DEF IInv
<1>0. now \in Times /\ now \in Int
  BY SecurityAssumption DEF TypeOK, Times
<1>1. CASE BeginCleanup \/ CleanupFails
  <2>1. cleaner' = Asleep \/ cleaner' = [pc |-> "sessions", at |-> now]
    BY <1>1 DEF BeginCleanup, CleanupFails
  <2>2. cleaner' \in CleanerStates /\ CutOffPast'
    BY <1>0, <1>1, <2>1 DEF CleanerStates, CutOffPast, BeginCleanup, CleanupFails
  <2>3. UNCHANGED <<now, suspended, password, epoch, session, recovery, reference, mailed, resets, req>>
    BY <1>1 DEF BeginCleanup, CleanupFails, accountVars, recoveryVars
  <2> QED BY <2>2, <2>3
          DEF TypeOK, RequestsSound, RequestSound, RowsApart, UnusedBeforeRow,
              RecoveryClosesSessions, is_active_at, OneResetPerToken
<1>2. CASE DeleteSessions
  <2>1. UNCHANGED <<now, suspended, password, epoch, recovery, reference, mailed, resets, req>>
    BY <1>2 DEF DeleteSessions, accountVars, recoveryVars
  <2>2. /\ session' \in [Sessions -> SessionRow \cup {NoRow, Deleted}]
        /\ \A s \in Sessions : session'[s] \in {session[s], Deleted}
    BY <1>2 DEF DeleteSessions, TypeOK
  <2>3. cleaner \in [pc : {"sessions", "recoveries"}, at : Times] /\ cleaner.pc = "sessions"
    BY <1>2 DEF DeleteSessions, TypeOK, CleanerStates, Asleep
  <2>4. cleaner' = [cleaner EXCEPT !.pc = "recoveries"]
    BY <1>2 DEF DeleteSessions
  <2>5. cleaner' \in CleanerStates /\ cleaner'.at = cleaner.at /\ cleaner # Asleep
    BY <2>3, <2>4 DEF CleanerStates, Asleep
  <2>6. CutOffPast'
    BY <2>1, <2>5 DEF CutOffPast
  <2>7. RecoveryClosesSessions'
    BY <2>1, <2>2, Rows DEF RecoveryClosesSessions, is_active_at
  <2> QED BY <2>1, <2>2, <2>5, <2>6, <2>7
          DEF TypeOK, RequestsSound, RequestSound, RowsApart, UnusedBeforeRow, OneResetPerToken
<1>3. CASE DeleteRecoveries
  <2>1. /\ UNCHANGED <<now, suspended, password, epoch, session, reference, mailed, resets, req>>
        /\ cleaner' = Asleep
    BY <1>3 DEF DeleteRecoveries, accountVars
  <2>2. /\ recovery' \in [Tokens -> RecoveryRow \cup {NoRow, Deleted}]
        /\ \A t \in Tokens : recovery'[t] = recovery[t]
                             \/ (recovery'[t] = Deleted /\ Stored(recovery[t]))
    BY <1>3 DEF DeleteRecoveries, TypeOK, RecoveryDue
  <2>3. \A t \in Tokens : recovery[t] = NoRow <=> recovery'[t] = NoRow
    BY <2>2, Rows, NoRowIsNotDeleted
  <2>4. RequestsSound'
    BY <2>1, <2>3, RequestShape DEF RequestsSound, RequestSound, SoundAt
  <2>5. UnusedBeforeRow' /\ OneResetPerToken'
    BY <2>1, <2>2, <2>3, Rows DEF UnusedBeforeRow, OneResetPerToken
  <2> QED BY <2>1, <2>2, <2>4, <2>5
          DEF TypeOK, CleanerStates, RowsApart, CutOffPast, RecoveryClosesSessions, is_active_at
<1> QED BY <1>1, <1>2, <1>3

\* The clock, the suspension of a user and the expiry of a reference.
LEMMA EnvironmentKeeps ==
  ASSUME IInv, \/ Tick \/ (\E u \in Users : Suspend(u)) \/ (\E t \in Tokens : ExpireReference(t))
  PROVE  IInv'
<1> USE DEF IInv
<1>1. CASE Tick
  <2>1. now \in Nat /\ now' \in Times /\ now' = now + 1 /\ now' \in Nat
    BY <1>1, SecurityAssumption DEF Tick, TypeOK, Times
  <2>2. UNCHANGED <<suspended, password, epoch, session, recovery, reference, mailed, resets, cleaner, req>>
    BY <1>1 DEF Tick, accountVars, recoveryVars
  <2>3. TypeOK'
    BY <2>1, <2>2 DEF TypeOK
  <2>4. RequestsSound'
    <3> SUFFICES ASSUME NEW r \in Requests PROVE SoundNext(req[r])
      BY <2>2 DEF RequestsSound, RequestSound, SoundNext
    <3>1. req[r] \in RequestStates /\ RequestSound(req[r])
      BY DEF TypeOK, RequestsSound
    <3>2. req[r].pc = "complete" => req[r].at \in Nat
      BY <3>1, RequestShape, SecurityAssumption DEF Times
    <3> QED BY <2>1, <2>2, <3>1, <3>2 DEF RequestSound, SoundNext, SoundAt
  <2>5. CutOffPast'
    <3>1. cleaner # Asleep => cleaner.at \in Nat
      BY SecurityAssumption DEF TypeOK, CleanerStates, Times
    <3> QED BY <2>1, <2>2, <3>1 DEF CutOffPast
  <2>6. RecoveryClosesSessions'
    <3> SUFFICES ASSUME NEW s \in Sessions, is_active_at(s, now')
                 PROVE  session[s].born = epoch[session[s].user]
      BY <2>2 DEF RecoveryClosesSessions, is_active_at
    <3>1. session[s].expires \in Nat
      BY Rows DEF is_active_at, SessionRow
    <3>2. is_active_at(s, now)
      BY <2>1, <3>1 DEF is_active_at
    <3> QED BY <3>2 DEF RecoveryClosesSessions
  <2> QED BY <2>2, <2>3, <2>4, <2>5, <2>6 DEF RowsApart, UnusedBeforeRow, OneResetPerToken
<1>2. CASE (\E u \in Users : Suspend(u)) \/ (\E t \in Tokens : ExpireReference(t))
  <2>1. UNCHANGED <<now, password, epoch, session, recovery, mailed, resets, cleaner, req>>
    BY <1>2 DEF Suspend, ExpireReference, accountVars, recoveryVars
  <2>2. suspended' \subseteq Users /\ reference' \subseteq Tokens
    BY <1>2 DEF Suspend, ExpireReference, accountVars, recoveryVars, TypeOK
  <2> QED BY <2>1, <2>2
          DEF TypeOK, RequestsSound, RequestSound, RowsApart, UnusedBeforeRow, CutOffPast,
              RecoveryClosesSessions, is_active_at, OneResetPerToken
<1> QED BY <1>1, <1>2

\* Every step keeps the invariant.
LEMMA StepKeeps ==
  ASSUME IInv, [Next]_vars
  PROVE  IInv'
<1>1. CASE UNCHANGED vars
  BY <1>1 DEF vars, IInv, TypeOK, RequestsSound, RequestSound, RowsApart, UnusedBeforeRow,
              CutOffPast, RecoveryClosesSessions, is_active_at, OneResetPerToken
<1>2. ASSUME NEW r \in Requests, Step(r) PROVE IInv'
  BY <1>2, ReadingSteps, SessionWrites, OutsideWrites, PutReferenceKeeps, CreateRowKeeps,
     CompleteKeeps DEF Step
<1> QED BY <1>1, <1>2, CleanupKeeps, EnvironmentKeeps DEF Next

-----------------------------------------------------------------------------
(* Theorems.                                                                 *)

\* The invariant holds from the start.
THEOREM Inductive == Spec => []IInv
<1>1. Init => IInv
  <2> SUFFICES ASSUME Init PROVE IInv
    OBVIOUS
  <2>1. TypeOK
    BY SecurityAssumption
    DEF Init, TypeOK, Times, Epochs, CleanerStates, RequestStates
  <2>2. RequestsSound /\ RowsApart
    BY IdleSound DEF Init, RequestsSound, RowsApart, Idle
  <2>3. ~Stored(NoRow)
    BY DEF Stored, NoRow
  <2> QED BY <2>1, <2>2, <2>3
          DEF Init, IInv, UnusedBeforeRow, CutOffPast, RecoveryClosesSessions, is_active_at,
              OneResetPerToken
<1> QED BY <1>1, StepKeeps, PTL DEF Spec

\* Type correctness of sessions, recoveries and requests, for AccountSecurity's tables.
THEOREM SecurityTypes == Spec => []TypeOK
<1>1. IInv => TypeOK
  BY DEF IInv
<1> QED BY <1>1, Inductive, PTL

\* Completing a recovery ends every session written before it, although the UPDATE uses
\* the time that the request read earlier.
THEOREM RecoveryEndsSessions == Spec => []RecoveryClosesSessions
<1>1. IInv => RecoveryClosesSessions
  BY DEF IInv
<1> QED BY <1>1, Inductive, PTL

\* A recovery token sets one password at most, however references, rows and mails fail.
THEOREM TokenResetsOnce == Spec => []OneResetPerToken
<1>1. IInv => OneResetPerToken
  BY DEF IInv
<1> QED BY <1>1, Inductive, PTL

\* No step of the requests, suspended or not, writes to a session that was revoked.
THEOREM RevocationIsFinal == Spec => RevokedIsFinal
<1> DEFINE Final == \A s \in Sessions : Stored(session[s]) /\ session[s].revoked # Never =>
                      session'[s] \in {session[s], Deleted}
<1>1. ASSUME IInv, [Next]_vars PROVE Final
  <2> SUFFICES ASSUME NEW s \in Sessions, Stored(session[s]), session[s].revoked # Never
               PROVE  session'[s] \in {session[s], Deleted}
    OBVIOUS
  <2> USE <1>1 DEF IInv
  <2>1. CASE UNCHANGED session
    BY <2>1
  <2>2. ASSUME NEW r \in Requests,
               \/ InsertSession(r) \/ TouchLastSeen(r) \/ Reauthenticate(r) \/ Revoke(r)
        PROVE  session'[s] = session[s]
    <3>1. session[s] # NoRow /\ \A u, t : ~Writable(s, u, t)
      BY Rows DEF Writable, is_active_at
    <3> QED BY <2>2, <3>1 DEF InsertSession, TouchLastSeen, Reauthenticate, Revoke, TypeOK
  <2>3. ASSUME NEW r \in Requests, RevokeAll(r) \/ Complete(r)
        PROVE  session'[s] = session[s]
    <3>1. \A u, t : RevokedAll(u, t)[s] = session[s]
      BY DEF RevokedAll, is_active_at
    <3> QED BY <2>3, <3>1 DEF RevokeAll, Complete
  <2>4. CASE DeleteSessions
    BY <2>4 DEF DeleteSessions
  <2>5. ASSUME NEW r \in Requests, Step(r) PROVE session'[s] = session[s]
    BY <2>2, <2>3, <2>5
    DEF Step, BeginLogin, OpenSession, Resolve, BeginReauthenticate, BeginChange, ChangePassword,
        BeginRecovery, PutReference, CreateRow, Mail, Discard, BeginComplete, ConsumeReference, Abandon
  <2> QED BY <2>1, <2>4, <2>5
          DEF Next, vars, BeginCleanup, DeleteRecoveries, CleanupFails, Tick, Suspend, ExpireReference
<1> QED BY <1>1, Inductive, PTL DEF Spec, RevokedIsFinal

\* The cleanup deletes no live session and no open recovery, although it runs with the
\* time at which its tick began.
THEOREM CleanupIsSafe == Spec => CleanupSparesLive
<1> DEFINE Spared == /\ \A s \in Sessions : session'[s] = Deleted => ~is_active_at(s, now)
                     /\ \A t \in Tokens : recovery'[t] = Deleted => ~Redeemable(t, now)
<1>1. ASSUME IInv, [Next]_vars PROVE Spared
  <2> USE <1>1 DEF IInv
  <2>0. now \in Nat
    BY SecurityAssumption DEF TypeOK, Times
  <2>1. ASSUME NEW s \in Sessions, is_active_at(s, now) PROVE session'[s] # Deleted
    <3>0. session[s] \in SessionRow
      BY <2>1, Rows DEF is_active_at
    <3>1. CASE UNCHANGED session
      BY <3>0, <3>1, Rows
    <3>2. ASSUME NEW r \in Requests,
                 InsertSession(r) \/ TouchLastSeen(r) \/ Reauthenticate(r) \/ Revoke(r)
          PROVE  session'[s] # Deleted
      <4>1. req[r] \in RequestStates /\ now \in Times /\ session[s] # NoRow
        BY <3>0, Rows DEF TypeOK
      <4>2. CASE InsertSession(r)
        BY <3>0, <4>1, <4>2, Rows DEF InsertSession, TypeOK
      <4>3. CASE TouchLastSeen(r)
        <5>1. \/ session'[s] = session[s]
              \/ session'[s] = [session[s] EXCEPT !.seen = req[r].at]
          BY <4>3 DEF TouchLastSeen, TypeOK
        <5> QED BY <3>0, <4>1, <4>3, <5>1, Rows, RequestShape, SessionUpdates DEF TouchLastSeen
      <4>4. CASE Reauthenticate(r)
        <5>1. \/ session'[s] = session[s]
              \/ session'[s] = [session[s] EXCEPT !.authenticated = req[r].at, !.seen = req[r].at]
          BY <4>4 DEF Reauthenticate, TypeOK
        <5> QED BY <3>0, <4>1, <4>4, <5>1, Rows, RequestShape, SessionUpdates DEF Reauthenticate
      <4>5. CASE Revoke(r)
        BY <3>0, <4>1, <4>5, Rows, SessionUpdates DEF Revoke, TypeOK
      <4> QED BY <3>2, <4>2, <4>3, <4>4, <4>5
    <3>3. ASSUME NEW u \in Users, NEW t \in Times, session' = RevokedAll(u, t)
          PROVE  session'[s] # Deleted
      BY <3>0, <3>3, RevokedAllRows, Rows
    <3>4. ASSUME NEW r \in Requests, RevokeAll(r) \/ Complete(r) PROVE session'[s] # Deleted
      <4>1. req[r] \in RequestStates /\ now \in Times
        BY DEF TypeOK
      <4>2. CASE RevokeAll(r)
        BY <3>3, <4>1, <4>2, RequestShape DEF RevokeAll, Principal
      <4>3. CASE Complete(r)
        <5>1. CASE Redeemable(req[r].token, req[r].at)
          <6>1. recovery[req[r].token].user \in Users /\ req[r].at \in Times
            BY <4>1, <4>3, <5>1, RequestShape, Rows DEF Complete, Redeemable, RecoveryRow
          <6> QED BY <3>3, <4>3, <5>1, <6>1 DEF Complete
        <5>2. CASE ~Redeemable(req[r].token, req[r].at)
          BY <3>1, <4>3, <5>2 DEF Complete
        <5> QED BY <5>1, <5>2
      <4> QED BY <3>4, <4>2, <4>3
    <3>5. CASE DeleteSessions
      <4>1. cleaner # Asleep /\ cleaner.at \in Nat
        BY <3>5, SecurityAssumption DEF DeleteSessions, TypeOK, CleanerStates, Asleep, Times
      <4>2. ~SessionDue(session[s], cleaner.at - SessionRetention)
        BY <2>0, <2>1, <3>0, <4>1, SecurityAssumption
        DEF SessionDue, is_active_at, SessionRow, CutOffPast
      <4> QED BY <3>0, <3>5, <4>2, Rows DEF DeleteSessions
    <3>6. ASSUME NEW r \in Requests, Step(r) PROVE session'[s] # Deleted
      BY <3>1, <3>2, <3>4, <3>6
      DEF Step, BeginLogin, OpenSession, Resolve, BeginReauthenticate, BeginChange, ChangePassword,
          BeginRecovery, PutReference, CreateRow, Mail, Discard, BeginComplete, ConsumeReference, Abandon
    <3> QED BY <3>1, <3>5, <3>6
            DEF Next, vars, BeginCleanup, DeleteRecoveries, CleanupFails, Tick, Suspend, ExpireReference
  <2>2. ASSUME NEW t \in Tokens, Redeemable(t, now) PROVE recovery'[t] # Deleted
    <3>0. recovery[t] \in RecoveryRow
      BY <2>2, Rows DEF Redeemable
    <3>1. CASE UNCHANGED recovery
      BY <3>0, <3>1, Rows
    <3>2. ASSUME NEW r \in Requests, CreateRow(r) PROVE recovery'[t] # Deleted
      <4> DEFINE row == [user |-> req[r].user, expires |-> req[r].at + RecoveryLifetime,
                         consumed |-> Never]
      <4>1. recovery[req[r].token] = NoRow /\ req[r].token \in Tokens
        BY <3>2, RequestShape DEF CreateRow, RequestsSound, RequestSound, SoundAt
      <4>2. recovery' = [recovery EXCEPT ![req[r].token] = row] \/ recovery' = recovery
        BY <3>2 DEF CreateRow
      <4> HIDE DEF row
      <4> QED BY <3>0, <4>1, <4>2, Rows DEF TypeOK
    <3>3. ASSUME NEW r \in Requests, Complete(r) PROVE recovery'[t] # Deleted
      <4>1. \/ recovery' = recovery
            \/ recovery' = [recovery EXCEPT ![req[r].token].consumed = req[r].at]
        BY <3>3 DEF Complete
      <4>2. [recovery[t] EXCEPT !.consumed = req[r].at].user = recovery[t].user
        BY <3>0 DEF RecoveryRow
      <4> QED BY <3>0, <4>1, <4>2, Rows DEF TypeOK, Stored, Deleted
    <3>4. CASE DeleteRecoveries
      <4>1. cleaner # Asleep /\ cleaner.at \in Nat
        BY <3>4, SecurityAssumption DEF DeleteRecoveries, TypeOK, CleanerStates, Asleep, Times
      <4>2. ~RecoveryDue(recovery[t], cleaner.at - RecoveryRetention)
        BY <2>0, <2>2, <3>0, <4>1, SecurityAssumption
        DEF RecoveryDue, Redeemable, RecoveryRow, CutOffPast
      <4> QED BY <3>0, <3>4, <4>2, Rows DEF DeleteRecoveries
    <3>5. ASSUME NEW r \in Requests, Step(r) PROVE recovery'[t] # Deleted
      BY <3>1, <3>2, <3>3, <3>5
      DEF Step, BeginLogin, OpenSession, InsertSession, Resolve, TouchLastSeen, BeginReauthenticate,
          Reauthenticate, Revoke, RevokeAll, BeginChange, ChangePassword, BeginRecovery, PutReference,
          Mail, Discard, BeginComplete, ConsumeReference, Abandon, recoveryVars
    <3> QED BY <3>1, <3>4, <3>5
            DEF Next, vars, BeginCleanup, DeleteSessions, CleanupFails, Tick, Suspend, ExpireReference,
                recoveryVars
  <2> QED BY <2>1, <2>2
<1> QED BY <1>1, Inductive, PTL DEF Spec, CleanupSparesLive
=============================================================================
