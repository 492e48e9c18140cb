---------------------------- MODULE LoginIdentities ----------------------------
(***************************************************************************)
(* Login identities of an account and the OAuth transactions that use and  *)
(* create them. A transaction is named by the opaque state that travels    *)
(* through the provider. A login transaction and a link transaction come   *)
(* back to the same callback, which tries the login table first and the    *)
(* link table afterwards.                                                  *)
(*                                                                         *)
(* An authorization code is written as the state whose challenge it was    *)
(* issued for: the provider redeems it only with that state's verifier.    *)
(***************************************************************************)
EXTENDS Integers, FiniteSets

CONSTANTS
  Users, Subjects,
  Providers,   \* external providers
  Email,       \* the provider of the identity an account is registered with
  States,      \* OAuth states, one for each transaction
  Ids,         \* identifiers of linked identities
  Requests,    \* concurrent requests
  Browsers,    \* browsers, each with its session cookie
  BrowserOf,   \* the browser each request comes from
  None

ASSUME IdentityAssumption ==
  /\ Email \notin Providers /\ None \notin Users /\ None \notin Subjects
  /\ Users \cap Ids = {}
  /\ BrowserOf \in [Requests -> Browsers]

VARIABLES
  suspended,   \* users whose status is not active
  identities,  \* login_identities; via is the state that linked it
  used,        \* identifiers given to an identity
  transaction, \* oauth_login_transactions and identity_link_transactions
  consent,     \* the subject that authorized each state at its provider
  opened,      \* sessions opened by a login transaction
  results,     \* sessions and identities that came from each state
  req          \* local state of each request

vars == <<suspended, identities, used, transaction, consent, opened, results, req>>

-----------------------------------------------------------------------------
\* A login transaction has no user. The tables have no column for the browser that
\* started the transaction: it is history.
Transaction ==
  LET statuses == {"open", "consumed", "expired"} IN
  [kind : {"login"}, user : {None}, provider : Providers, browser : Browsers, status : statuses]
  \cup
  [kind : {"link"}, user : Users, provider : Providers, browser : Browsers, status : statuses]

NoTransaction == [kind |-> "none", status |-> "none"]

\* The identity of a registration has the identifier and the subject of its user.
Identity ==
  [id : Ids, user : Users, provider : Providers, subject : Subjects, via : States]
  \cup [id : Users, user : Users, provider : {Email}, subject : Users, via : {None}]

Registered(u) == [id |-> u, user |-> u, provider |-> Email, subject |-> u, via |-> None]

Idle == [pc |-> "idle"]

RequestStates ==
  {Idle}
  \cup [pc : {"login", "ask", "fallback", "link"}, state : States, provider : Providers, code : States]
  \cup [pc : {"find", "persist"}, state : States, subject : Subjects]
  \cup [pc : {"open"}, state : States, subject : Subjects, user : Users]
  \cup [pc : {"unlink"}, id : Ids, user : Users]

Init ==
  /\ suspended = {}
  /\ identities = {Registered(u) : u \in Users}
  /\ used = {}
  /\ transaction = [s \in States |-> NoTransaction]
  /\ consent = [s \in States |-> None]
  /\ opened = {}
  /\ results = [s \in States |-> 0]
  /\ req = [r \in Requests |-> Idle]

Becomes(r, q) == req' = [req EXCEPT ![r] = q]

-----------------------------------------------------------------------------
(* Starting a transaction.                                                   *)

Start(s, row) ==
  /\ transaction[s] = NoTransaction
  /\ transaction' = [transaction EXCEPT ![s] = row]
  /\ UNCHANGED <<suspended, identities, used, consent, opened, results, req>>

\* BeginOAuthLogin: anybody may start one.
BeginOAuthLogin(s) ==
  \E p \in Providers, b \in Browsers :
    Start(s, [kind |-> "login", user |-> None, provider |-> p, browser |-> b, status |-> "open"])

\* Fault: the transaction does not keep its user.
BeginLinkForNobody(s) ==
  \E u \in Users \ suspended, p \in Providers, b \in Browsers :
    Start(s, [kind |-> "link", user |-> None, provider |-> p, browser |-> b, status |-> "open"])

\* BeginIdentityLink: the signed-in user, if active.
BeginIdentityLink(s) ==
  \E u \in Users \ suspended, p \in Providers, b \in Browsers :
    Start(s, [kind |-> "link", user |-> u, provider |-> p, browser |-> b, status |-> "open"])

\* Somebody signs in at the provider and authorizes the request of state s.
Authorize(s) ==
  /\ transaction[s] # NoTransaction /\ consent[s] = None
  /\ \E x \in Subjects : consent' = [consent EXCEPT ![s] = x]
  /\ UNCHANGED <<suspended, identities, used, transaction, opened, results, req>>

Expire(s) ==
  /\ transaction[s].status = "open"
  /\ transaction' = [transaction EXCEPT ![s].status = "expired"]
  /\ UNCHANGED <<suspended, identities, used, consent, opened, results, req>>

-----------------------------------------------------------------------------
(* The callback.                                                             *)

Callback(r) ==
  /\ req[r] = Idle
  /\ \E s, c \in {x \in States : transaction[x] # NoTransaction}, p \in Providers :
       Becomes(r, [pc |-> "login", state |-> s, provider |-> p, code |-> c])
  /\ UNCHANGED <<suspended, identities, used, transaction, consent, opened, results>>

\* Fault: a consumed transaction is found again.
ClaimableAgain(s, kind) ==
  transaction[s].kind = kind /\ transaction[s].status \in {"open", "consumed"}

\* The WHERE clause of both consume statements.
Claimable(s, kind) == transaction[s].kind = kind /\ transaction[s].status = "open"

Claimed(s) == [transaction EXCEPT ![s].status = "consumed"]

\* The answer of a provider to an exchange: the token and the profile it leads to.
\* exp and iat tell whether the identity token is unexpired and not from the future.
Answers == [reachable : BOOLEAN, profile : Subjects \cup {None},
            signed : BOOLEAN, audience : BOOLEAN, exp : BOOLEAN, iat : BOOLEAN]

\* Discord, Twitch and the OpenID clients: a token, then a profile with a subject.
ProfileSubject(a) == IF a.reachable THEN a.profile ELSE None

\* Telegram: the subject of an identity token that passes every check.
IdTokenSubject(a) ==
  IF a.reachable /\ a.signed /\ a.audience /\ a.exp /\ a.iat THEN a.profile ELSE None

\* Fault: no challenge is sent, so a code is redeemed with any verifier.
AnswersToAny(s, c) == {a \in Answers : a.reachable => a.profile \in {consent[c], None}}

\* A provider answers with the subject that authorized the code, for the verifier of
\* the same state; anything else fails.
AnswersTo(s, c) ==
  {a \in Answers : a.reachable => s = c /\ a.profile \in {consent[c], None}}

\* The subjects that resolve_subject may return, None when it raises.
Resolved(s, c) ==
  {ProfileSubject(a) : a \in AnswersTo(s, c)} \cup {IdTokenSubject(a) : a \in AnswersTo(s, c)}

ProviderAgrees(s, p) == transaction[s].provider = p

\* CompleteOAuthLogin: the state is claimed before its provider is compared and
\* before the provider is asked; a failure goes on with the link table.
CompleteOAuthLogin(r) ==
  LET q == req[r] IN
  /\ q.pc = "login"
  /\ \/ /\ Claimable(q.state, "login")
        /\ transaction' = Claimed(q.state)
        /\ IF ProviderAgrees(q.state, q.provider) THEN Becomes(r, [q EXCEPT !.pc = "ask"])
           ELSE Becomes(r, [q EXCEPT !.pc = "fallback"])
     \/ /\ ~Claimable(q.state, "login")
        /\ Becomes(r, [q EXCEPT !.pc = "fallback"])
        /\ UNCHANGED transaction
  /\ UNCHANGED <<suspended, identities, used, consent, opened, results>>

AskProvider(r) ==
  LET q == req[r] IN
  /\ q.pc = "ask"
  /\ \E x \in Resolved(q.state, q.code) :
       Becomes(r, IF x = None THEN [q EXCEPT !.pc = "fallback"]
                  ELSE [pc |-> "find", state |-> q.state, subject |-> x])
  /\ UNCHANGED <<suspended, identities, used, transaction, consent, opened, results>>

\* find_user_id. A subject that is not linked goes on with the link table, where a
\* login state is never found.
FindUser(r) ==
  LET q == req[r]
      owners == {i \in identities : i.provider = transaction[q.state].provider
                                    /\ i.subject = q.subject}
  IN
  /\ q.pc = "find"
  /\ \/ \E i \in owners :
          Becomes(r, [pc |-> "open", state |-> q.state, subject |-> q.subject, user |-> i.user])
     \/ owners = {} /\ Becomes(r, Idle)
  /\ UNCHANGED <<suspended, identities, used, transaction, consent, opened, results>>

\* CreateBrowserSession.
OpenSession(r) ==
  LET q == req[r] IN
  /\ q.pc = "open"
  /\ \/ /\ q.user \notin suspended
        /\ opened' = opened \cup {[state |-> q.state, subject |-> q.subject, user |-> q.user]}
        /\ results' = [results EXCEPT ![q.state] = @ + 1]
     \/ q.user \in suspended /\ UNCHANGED <<opened, results>>
  /\ Becomes(r, Idle)
  /\ UNCHANGED <<suspended, identities, used, transaction, consent>>

\* CompleteIdentityLink, in the same order. An inactive user is refused.
CompleteIdentityLink(r) ==
  LET q == req[r] IN
  /\ q.pc = "fallback"
  /\ \/ /\ Claimable(q.state, "link")
        /\ transaction' = Claimed(q.state)
        /\ IF ProviderAgrees(q.state, q.provider) THEN Becomes(r, [q EXCEPT !.pc = "link"])
           ELSE Becomes(r, Idle)
     \/ ~Claimable(q.state, "link") /\ Becomes(r, Idle) /\ UNCHANGED transaction
  /\ UNCHANGED <<suspended, identities, used, consent, opened, results>>

\* LinkVerifiedIdentity reads the status once the subject is known.
VerifyLink(r) ==
  LET q == req[r] IN
  /\ q.pc = "link"
  /\ \E x \in Resolved(q.state, q.code) :
       Becomes(r, IF x = None \/ transaction[q.state].user \in suspended THEN Idle
                  ELSE [pc |-> "persist", state |-> q.state, subject |-> x])
  /\ UNCHANGED <<suspended, identities, used, transaction, consent, opened, results>>

\* Fault: no unique constraint.
UnownedAnyway(p, x) == TRUE

\* uq_login_identity_provider_subject
Unowned(p, x) == \A i \in identities : ~(i.provider = p /\ i.subject = x)

PersistLink(r) ==
  LET q == req[r]
      t == transaction[q.state]
  IN
  /\ q.pc = "persist"
  /\ \/ /\ Unowned(t.provider, q.subject)
        /\ \E i \in Ids \ used :
             /\ used' = used \cup {i}
             /\ identities' = identities \cup
                  {[id |-> i, user |-> t.user, provider |-> t.provider, subject |-> q.subject,
                    via |-> q.state]}
        /\ results' = [results EXCEPT ![q.state] = @ + 1]
     \/ ~Unowned(t.provider, q.subject) /\ UNCHANGED <<identities, used, results>>
  /\ Becomes(r, Idle)
  /\ UNCHANGED <<suspended, transaction, consent, opened>>

-----------------------------------------------------------------------------
(* Unlinking.                                                                *)

Of(u) == {i \in identities : i.user = u}

\* Fault: neither the use case nor the DELETE looks at the provider.
UnlinkableAny(i) == TRUE

\* The identity of the registration is never unlinked: the use case refuses it, and
\* the WHERE clause of the DELETE repeats the condition.
Unlinkable(i) == i.provider # Email

\* UnlinkLoginIdentity: the identities are listed; the one of the registration and
\* the last one are refused.
BeginUnlink(r) ==
  /\ req[r] = Idle
  /\ \E u \in Users \ suspended : \E i \in Of(u) :
       /\ Unlinkable(i)
       /\ Cardinality(Of(u)) > 1
       /\ Becomes(r, [pc |-> "unlink", id |-> i.id, user |-> u])
  /\ UNCHANGED <<suspended, identities, used, transaction, consent, opened, results>>

Unlink(r) ==
  LET q == req[r] IN
  /\ q.pc = "unlink"
  /\ identities' = {i \in identities : ~(i.id = q.id /\ i.user = q.user /\ Unlinkable(i))}
  /\ Becomes(r, Idle)
  /\ UNCHANGED <<suspended, used, transaction, consent, opened, results>>

-----------------------------------------------------------------------------
\* The status of a user is changed outside the Console.
Suspend(u) ==
  /\ u \notin suspended
  /\ suspended' = suspended \cup {u}
  /\ UNCHANGED <<identities, used, transaction, consent, opened, results, req>>

\* The request fails or its process restarts.
Abandon(r) ==
  /\ req[r] # Idle
  /\ Becomes(r, Idle)
  /\ UNCHANGED <<suspended, identities, used, transaction, consent, opened, results>>

Step(r) ==
  \/ Callback(r) \/ CompleteOAuthLogin(r) \/ AskProvider(r) \/ FindUser(r) \/ OpenSession(r)
  \/ CompleteIdentityLink(r) \/ VerifyLink(r) \/ PersistLink(r)
  \/ BeginUnlink(r) \/ Unlink(r)
  \/ Abandon(r)

Next ==
  \/ \E s \in States : BeginOAuthLogin(s) \/ BeginIdentityLink(s) \/ Authorize(s) \/ Expire(s)
  \/ \E r \in Requests : Step(r)
  \/ \E u \in Users : Suspend(u)

Spec == Init /\ [][Next]_vars

-----------------------------------------------------------------------------
(* Properties.                                                               *)

\* Type invariant of the tables and the requests.
TypeOK ==
  /\ suspended \subseteq Users
  /\ identities \subseteq Identity
  /\ used \subseteq Ids
  /\ transaction \in [States -> Transaction \cup {NoTransaction}]
  /\ consent \in [States -> Subjects \cup {None}]
  /\ opened \subseteq [state : States, subject : Subjects, user : Users]
  /\ results \in [States -> Nat]
  /\ req \in [Requests -> RequestStates]

\* A subject of a provider belongs to one account, whichever of two link callbacks
\* writes first.
SubjectOwnedOnce ==
  \A i, j \in identities : i.provider = j.provider /\ i.subject = j.subject => i = j

\* A state leads to one session or one identity at most, however often its callback
\* arrives, and whether or not the provider answers.
StateUsedOnce == \A s \in States : results[s] <= 1

\* What comes of a state is what it was started for: a link goes to the user and the
\* provider that started it, a login only opens a session, and the subject is the one
\* that authorized this state and no other, whatever state, code and path a callback
\* combines. The browser is not among what a state is bound to (BoundToItsBrowser).
BoundToItsStart ==
  /\ \A i \in identities : i.via # None =>
       /\ transaction[i.via].kind = "link"
       /\ transaction[i.via].user = i.user /\ transaction[i.via].provider = i.provider
       /\ i.subject = consent[i.via]
  /\ \A o \in opened : transaction[o.state].kind = "login" /\ o.subject = consent[o.state]

\* "Removing the final usable login identity is forbidden": two unlink requests that
\* each counted the same identities still leave the account one.
KeepsALogin == \A u \in Users : \E i \in identities : i.user = u

-----------------------------------------------------------------------------
(* A statement of the docs that the code does not keep.                      *)

\* A state is bound to the browser session as well: a callback that is about to open
\* a session or to link an identity comes from the browser that started the state.
BoundToItsBrowser ==
  \A r \in Requests : req[r].pc \in {"open", "persist"} =>
    transaction[req[r].state].browser = BrowserOf[r]
=============================================================================
