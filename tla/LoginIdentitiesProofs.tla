------------------------- MODULE LoginIdentitiesProofs -------------------------
(* Proofs about LoginIdentities, for every set of users, providers, OAuth      *)
(* states and concurrent callbacks.                                            *)
EXTENDS LoginIdentities, TLAPS

-----------------------------------------------------------------------------
(* The inductive invariant.                                                  *)

\* The callback has claimed its state and has not used it up.
Holding(q) == q.pc \in {"ask", "find", "open", "link", "persist"}

\* What a suspended callback relies on, in tables tr, cs and rs: the state it claimed
\* is spent, is of the table it was claimed from, has led to nothing, and was
\* authorized by the subject the callback carries.
SoundIn(q, tr, cs, rs) ==
  /\ Holding(q) => tr[q.state].status = "consumed" /\ rs[q.state] = 0
  /\ q.pc \in {"ask", "find", "open"} => tr[q.state].kind = "login"
  /\ q.pc \in {"link", "persist"} => tr[q.state].kind = "link"
  /\ q.pc \in {"find", "open", "persist"} => q.subject = cs[q.state]

SoundNow(q) == SoundIn(q, transaction, consent, results)

SoundNext(q) == SoundIn(q, transaction', consent', results')

RequestsSound == \A r \in Requests : SoundNow(req[r])

\* Two callbacks of one state: one of them claims it.
HeldOnce ==
  \A r, o \in Requests :
    Holding(req[r]) /\ Holding(req[o]) /\ req[r].state = req[o].state => r = o

\* Nothing comes from a state that was not claimed.
ResultsClosed == \A s \in States : results[s] > 0 => transaction[s].status = "consumed"

\* An unlink spares the identity of the registration.
RegisteredKept == \A u \in Users : Registered(u) \in identities

IInv ==
  /\ TypeOK /\ RequestsSound /\ HeldOnce /\ ResultsClosed /\ StateUsedOnce
  /\ SubjectOwnedOnce /\ BoundToItsStart /\ RegisteredKept

-----------------------------------------------------------------------------
(* Shapes.                                                                   *)

\* What a request at each point of its code knows.
LEMMA RequestShape ==
  ASSUME TypeOK, NEW r \in Requests
  PROVE  /\ req[r].pc \in {"login", "ask", "fallback", "link"} =>
              req[r] \in [pc : {"login", "ask", "fallback", "link"}, state : States,
                          provider : Providers, code : States]
         /\ req[r].pc \in {"find", "persist"} =>
              req[r] \in [pc : {"find", "persist"}, state : States, subject : Subjects]
         /\ req[r].pc = "open" =>
              req[r] \in [pc : {"open"}, state : States, subject : Subjects, user : Users]
         /\ req[r].pc = "unlink" => req[r] \in [pc : {"unlink"}, id : Ids, user : Users]
         /\ Holding(req[r]) => req[r].state \in States
BY DEF TypeOK, RequestStates, Idle, Holding

\* A transaction with a kind is a row, with a user if it is a link.
LEMMA TransactionShape ==
  ASSUME TypeOK, NEW s \in States
  PROVE  /\ transaction[s].kind \in {"login", "link"} <=> transaction[s] # NoTransaction
         /\ transaction[s] # NoTransaction =>
              transaction[s] \in Transaction /\ transaction[s].provider \in Providers
         /\ transaction[s].kind = "link" => transaction[s].user \in Users
         /\ transaction[s].status \in {"open", "consumed"} => transaction[s] # NoTransaction
BY DEF TypeOK, Transaction, NoTransaction

\* The idle request and the ones that hold no state rely on nothing.
LEMMA RelyOnNothing ==
  ASSUME NEW q, q.pc \notin {"ask", "find", "open", "link", "persist"}
  PROVE  ~Holding(q) /\ SoundNext(q)
BY DEF Holding, SoundNext, SoundIn

\* An idle request is well formed.
LEMMA IdleShape == Idle \in RequestStates /\ ~Holding(Idle) /\ SoundNext(Idle)
BY RelyOnNothing DEF RequestStates, Idle

-----------------------------------------------------------------------------
(* How the tables change.                                                    *)

\* A transaction keeps its kind, user and provider, and a spent one stays spent.
Kept(s) ==
  /\ transaction'[s].kind = transaction[s].kind
  /\ transaction'[s].user = transaction[s].user
  /\ transaction'[s].provider = transaction[s].provider
  /\ transaction[s].status = "consumed" => transaction'[s].status = "consumed"

Evolves ==
  /\ \A s \in States : transaction[s] = NoTransaction \/ Kept(s)
  /\ \A s \in States : consent[s] # None => consent'[s] = consent[s]

\* Tables left alone.
LEMMA NothingEvolves ==
  ASSUME UNCHANGED <<transaction, consent>>
  PROVE  Evolves
BY DEF Evolves, Kept

\* A claim or an expiry changes the status of an open transaction, and nothing else.
LEMMA StatusChange ==
  ASSUME TypeOK, NEW s \in States, NEW st \in {"consumed", "expired"},
         transaction[s].status = "open",
         transaction' = [transaction EXCEPT ![s].status = st], UNCHANGED consent
  PROVE  /\ transaction' \in [States -> Transaction \cup {NoTransaction}]
         /\ transaction'[s].status = st /\ Kept(s)
         /\ \A x \in States \ {s} : transaction'[x] = transaction[x]
         /\ Evolves
<1>1. transaction[s] \in Transaction
  BY TransactionShape
<1>2. [transaction[s] EXCEPT !.status = st] \in Transaction
  BY <1>1 DEF Transaction
<1>3. /\ transaction' = [transaction EXCEPT ![s] = [transaction[s] EXCEPT !.status = st]]
      /\ transaction'[s] = [transaction[s] EXCEPT !.status = st]
      /\ \A x \in States \ {s} : transaction'[x] = transaction[x]
  BY DEF TypeOK
<1>4. transaction' \in [States -> Transaction \cup {NoTransaction}]
  BY <1>2, <1>3 DEF TypeOK
<1>5. transaction'[s].status = st /\ Kept(s)
  BY <1>1, <1>3 DEF Transaction, Kept
<1>6. Evolves
  BY <1>3, <1>5 DEF Evolves, Kept
<1> QED BY <1>3, <1>4, <1>5, <1>6

\* What came of a state stays bound to the start of that state.
LEMMA BoundKept ==
  ASSUME IInv, Evolves, identities' \subseteq identities, UNCHANGED opened
  PROVE  BoundToItsStart'
<1> USE DEF IInv
<1>1. ASSUME NEW i \in identities', i.via # None
      PROVE  /\ transaction'[i.via].kind = "link"
             /\ transaction'[i.via].user = i.user /\ transaction'[i.via].provider = i.provider
             /\ i.subject = consent'[i.via]
  <2>1. i \in Identity /\ i.via \in States /\ i.subject \in Subjects
    BY <1>1 DEF TypeOK, Identity
  <2>2. transaction[i.via] # NoTransaction /\ consent[i.via] # None
    BY <1>1, <2>1, TransactionShape, IdentityAssumption DEF BoundToItsStart
  <2> QED BY <1>1, <2>1, <2>2 DEF BoundToItsStart, Evolves, Kept
<1>2. ASSUME NEW o \in opened
      PROVE  transaction'[o.state].kind = "login" /\ o.subject = consent'[o.state]
  <2>1. o.state \in States /\ o.subject \in Subjects
    BY DEF TypeOK
  <2>2. transaction[o.state] # NoTransaction /\ consent[o.state] # None
    BY <2>1, TransactionShape, IdentityAssumption DEF BoundToItsStart
  <2> QED BY <2>1, <2>2 DEF BoundToItsStart, Evolves, Kept
<1> QED BY <1>1, <1>2 DEF BoundToItsStart

-----------------------------------------------------------------------------
(* How the requests change.                                                  *)

\* What a request relies on stays true while others write.
LEMMA StaysSound ==
  ASSUME IInv, Evolves, NEW o \in Requests,
         Holding(req[o]) => results'[req[o].state] = results[req[o].state]
  PROVE  SoundNext(req[o])
<1> USE DEF IInv
<1>1. SoundNow(req[o])
  BY DEF RequestsSound
<1>2. CASE Holding(req[o])
  <2>1. req[o].state \in States /\ transaction[req[o].state] # NoTransaction
    BY <1>1, <1>2, RequestShape, TransactionShape DEF SoundNow, SoundIn
  <2>2. req[o].pc \in {"find", "open", "persist"} => consent[req[o].state] # None
    BY <1>1, RequestShape, IdentityAssumption DEF SoundNow, SoundIn
  <2> QED BY <1>1, <1>2, <2>1, <2>2 DEF SoundNow, SoundNext, SoundIn, Evolves, Kept
<1>3. CASE ~Holding(req[o])
  BY <1>3, RelyOnNothing DEF Holding
<1> QED BY <1>2, <1>3

\* A request that goes on with q, holding no state that another one holds.
LEMMA RequestGoesOn ==
  ASSUME IInv, Evolves, NEW r \in Requests, NEW q \in RequestStates, Becomes(r, q), SoundNext(q),
         \A o \in Requests \ {r} : Holding(req[o]) => results'[req[o].state] = results[req[o].state],
         Holding(q) => \A o \in Requests \ {r} : Holding(req[o]) => req[o].state # q.state
  PROVE  req' \in [Requests -> RequestStates] /\ RequestsSound' /\ HeldOnce'
<1> USE DEF IInv
<1>1. /\ req' \in [Requests -> RequestStates] /\ req'[r] = q
      /\ \A o \in Requests \ {r} : req'[o] = req[o]
  BY DEF Becomes, TypeOK
<1>2. \A o \in Requests \ {r} : SoundNext(req[o])
  BY StaysSound
<1>3. RequestsSound'
  BY <1>1, <1>2 DEF RequestsSound, SoundNow, SoundNext
<1>4. HeldOnce'
  BY <1>1 DEF HeldOnce
<1> QED BY <1>1, <1>3, <1>4

\* A step that changes only its request.
LEMMA QuietStep ==
  ASSUME IInv, NEW r \in Requests, NEW q \in RequestStates, Becomes(r, q), SoundNow(q),
         Holding(q) => Holding(req[r]) /\ q.state = req[r].state,
         UNCHANGED <<suspended, identities, used, transaction, consent, opened, results>>
  PROVE  IInv'
<1> USE DEF IInv
<1>1. SoundNext(q) /\ Evolves
  BY NothingEvolves DEF SoundNow, SoundNext
<1>2. Holding(q) => \A o \in Requests \ {r} : Holding(req[o]) => req[o].state # q.state
  BY DEF HeldOnce
<1>3. req' \in [Requests -> RequestStates] /\ RequestsSound' /\ HeldOnce'
  BY <1>1, <1>2, RequestGoesOn
<1>4. TypeOK'
  BY <1>3 DEF TypeOK
<1>5. BoundToItsStart'
  BY <1>1, BoundKept
<1>6. ResultsClosed' /\ StateUsedOnce' /\ SubjectOwnedOnce' /\ RegisteredKept'
  BY DEF ResultsClosed, StateUsedOnce, SubjectOwnedOnce, RegisteredKept
<1> QED BY <1>3, <1>4, <1>5, <1>6

-----------------------------------------------------------------------------
(* The steps.                                                                *)

\* A provider names the subject that authorized the state, or none.
LEMMA ProviderNames ==
  ASSUME NEW s, NEW c, NEW x \in Resolved(s, c), x # None
  PROVE  x = consent[s]
<1>1. PICK a \in AnswersTo(s, c) : x = ProfileSubject(a) \/ x = IdTokenSubject(a)
  BY DEF Resolved
<1>2. a.reachable /\ x = a.profile
  BY <1>1 DEF ProfileSubject, IdTokenSubject
<1> QED BY <1>2 DEF AnswersTo

\* The steps of a callback that only read, and the ends of a request.
LEMMA ReadingSteps ==
  ASSUME IInv, NEW r \in Requests,
         \/ Callback(r) \/ AskProvider(r) \/ FindUser(r) \/ VerifyLink(r)
         \/ BeginUnlink(r) \/ Abandon(r)
  PROVE  IInv'
<1> USE DEF IInv
<1>0. SoundNow(req[r]) /\ SoundNow(Idle)
  BY DEF RequestsSound, SoundNow, SoundIn, Idle, Holding
<1>1. CASE Callback(r)
  <2>1. PICK s \in States, c \in States, p \in Providers :
          Becomes(r, [pc |-> "login", state |-> s, provider |-> p, code |-> c])
    BY <1>1 DEF Callback
  <2> DEFINE q == [pc |-> "login", state |-> s, provider |-> p, code |-> c]
  <2>2. q \in RequestStates /\ ~Holding(q) /\ SoundNow(q)
    BY DEF RequestStates, Holding, SoundNow, SoundIn
  <2> HIDE DEF q
  <2> QED BY <1>1, <2>1, <2>2, QuietStep DEF Callback, q
<1>2. CASE AskProvider(r)
  <2>1. PICK x \in Resolved(req[r].state, req[r].code) :
          Becomes(r, IF x = None THEN [req[r] EXCEPT !.pc = "fallback"]
                     ELSE [pc |-> "find", state |-> req[r].state, subject |-> x])
    BY <1>2 DEF AskProvider
  <2>2. /\ req[r].pc = "ask" /\ Holding(req[r]) /\ req[r].state \in States
        /\ req[r] \in [pc : {"login", "ask", "fallback", "link"}, state : States,
                       provider : Providers, code : States]
    BY <1>2, RequestShape DEF AskProvider, Holding
  <2>3. CASE x = None
    <3> DEFINE q == [req[r] EXCEPT !.pc = "fallback"]
    <3>1. q \in RequestStates /\ ~Holding(q) /\ SoundNow(q)
      BY <2>2 DEF RequestStates, Holding, SoundNow, SoundIn
    <3>2. Becomes(r, q)
      BY <2>1, <2>3
    <3> HIDE DEF q
    <3> QED BY <1>2, <3>1, <3>2, QuietStep DEF AskProvider
  <2>4. CASE x # None
    <3> DEFINE q == [pc |-> "find", state |-> req[r].state, subject |-> x]
    <3>1. x = consent[req[r].state] /\ x \in Subjects
      BY <2>2, <2>4, ProviderNames DEF TypeOK
    <3>2. q \in RequestStates /\ q.state = req[r].state
      BY <2>2, <3>1 DEF RequestStates
    <3>3. SoundNow(q)
      BY <1>0, <2>2, <3>1 DEF Holding, SoundNow, SoundIn
    <3>4. Becomes(r, q)
      BY <2>1, <2>4
    <3> HIDE DEF q
    <3> QED BY <1>2, <2>2, <3>2, <3>3, <3>4, QuietStep DEF AskProvider
  <2> QED BY <2>3, <2>4
<1>3. CASE FindUser(r)
  <2>1. /\ req[r].pc = "find" /\ Holding(req[r]) /\ req[r].state \in States
        /\ req[r].subject \in Subjects
    BY <1>3, RequestShape DEF FindUser, Holding
  <2>2. CASE Becomes(r, Idle)
    BY <1>0, <1>3, <2>2, IdleShape, QuietStep DEF FindUser
  <2>3. ASSUME NEW i \in identities,
               Becomes(r, [pc |-> "open", state |-> req[r].state, subject |-> req[r].subject,
                           user |-> i.user])
        PROVE  IInv'
    <3> DEFINE q == [pc |-> "open", state |-> req[r].state, subject |-> req[r].subject,
                     user |-> i.user]
    <3>1. i.user \in Users
      BY DEF TypeOK, Identity
    <3>2. q \in RequestStates /\ q.state = req[r].state
      BY <2>1, <3>1 DEF RequestStates
    <3>3. SoundNow(q)
      BY <1>0, <2>1 DEF Holding, SoundNow, SoundIn
    <3>4. Becomes(r, q)
      BY <2>3
    <3> HIDE DEF q
    <3> QED BY <1>3, <2>1, <3>2, <3>3, <3>4, QuietStep DEF FindUser
  <2> QED BY <1>3, <2>2, <2>3 DEF FindUser
<1>4. CASE VerifyLink(r)
  <2>1. PICK x \in Resolved(req[r].state, req[r].code) :
          Becomes(r, IF x = None \/ transaction[req[r].state].user \in suspended THEN Idle
                     ELSE [pc |-> "persist", state |-> req[r].state, subject |-> x])
    BY <1>4 DEF VerifyLink
  <2>2. req[r].pc = "link" /\ Holding(req[r]) /\ req[r].state \in States
    BY <1>4, RequestShape DEF VerifyLink, Holding
  <2>3. CASE Becomes(r, Idle)
    BY <1>0, <1>4, <2>3, IdleShape, QuietStep DEF VerifyLink
  <2>4. CASE x # None /\ Becomes(r, [pc |-> "persist", state |-> req[r].state, subject |-> x])
    <3> DEFINE q == [pc |-> "persist", state |-> req[r].state, subject |-> x]
    <3>1. x = consent[req[r].state] /\ x \in Subjects
      BY <2>2, <2>4, ProviderNames DEF TypeOK
    <3>2. q \in RequestStates /\ q.state = req[r].state
      BY <2>2, <3>1 DEF RequestStates
    <3>3. SoundNow(q)
      BY <1>0, <2>2, <3>1 DEF Holding, SoundNow, SoundIn
    <3>4. Becomes(r, q)
      BY <2>4
    <3> HIDE DEF q
    <3> QED BY <1>4, <2>2, <3>2, <3>3, <3>4, QuietStep DEF VerifyLink
  <2> QED BY <2>1, <2>3, <2>4
<1>5. CASE BeginUnlink(r)
  <2>1. PICK u \in Users, i \in identities :
          i.provider # Email /\ Becomes(r, [pc |-> "unlink", id |-> i.id, user |-> u])
    BY <1>5 DEF BeginUnlink, Of, Unlinkable
  <2> DEFINE q == [pc |-> "unlink", id |-> i.id, user |-> u]
  <2>2. i.id \in Ids
    BY <2>1 DEF TypeOK, Identity
  <2>3. q \in RequestStates /\ ~Holding(q) /\ SoundNow(q)
    BY <2>2 DEF RequestStates, Holding, SoundNow, SoundIn
  <2> HIDE DEF q
  <2> QED BY <1>5, <2>1, <2>3, QuietStep DEF BeginUnlink, q
<1>6. CASE Abandon(r)
  BY <1>0, <1>6, IdleShape, QuietStep DEF Abandon
<1> QED BY <1>1, <1>2, <1>3, <1>4, <1>5, <1>6

\* The two claims. The claim is what makes a state the request's own: an open state is
\* held by nobody, and has led to nothing.
LEMMA ClaimKeeps ==
  ASSUME IInv, NEW r \in Requests, NEW q \in RequestStates, NEW s \in States,
         transaction[s].status = "open", transaction' = Claimed(s), Becomes(r, q),
         Holding(q) => q.state = s,
         q.pc \notin {"find", "open", "persist"},
         q.pc = "ask" => transaction[s].kind = "login",
         q.pc = "link" => transaction[s].kind = "link",
         q.pc \in {"ask", "link"} => transaction[s].provider = q.provider,
         UNCHANGED <<suspended, identities, used, consent, opened, results>>
  PROVE  IInv'
<1> USE DEF IInv
<1>1. /\ transaction' \in [States -> Transaction \cup {NoTransaction}]
      /\ transaction'[s].status = "consumed" /\ Kept(s) /\ Evolves
      /\ \A x \in States \ {s} : transaction'[x] = transaction[x]
  BY StatusChange DEF Claimed
<1>2. results[s] = 0
  BY DEF TypeOK, ResultsClosed
<1>3. SoundNext(q)
  BY <1>1, <1>2 DEF SoundNext, SoundIn, Holding, Kept
<1>4. \A o \in Requests : Holding(req[o]) => req[o].state # s
  BY DEF RequestsSound, SoundNow, SoundIn
<1>5. req' \in [Requests -> RequestStates] /\ RequestsSound' /\ HeldOnce'
  BY <1>1, <1>3, <1>4, RequestGoesOn
<1>6. TypeOK'
  BY <1>1, <1>5 DEF TypeOK
<1>7. BoundToItsStart'
  BY <1>1, BoundKept
<1>8. ResultsClosed'
  BY <1>1, <1>2 DEF ResultsClosed
<1>9. StateUsedOnce' /\ SubjectOwnedOnce' /\ RegisteredKept'
  BY DEF StateUsedOnce, SubjectOwnedOnce, RegisteredKept
<1> QED BY <1>5, <1>6, <1>7, <1>8, <1>9

\* CompleteOAuthLogin and CompleteIdentityLink, each with its refusals.
LEMMA Claims ==
  ASSUME IInv, NEW r \in Requests, CompleteOAuthLogin(r) \/ CompleteIdentityLink(r)
  PROVE  IInv'
<1> USE DEF IInv
<1>1. /\ req[r] \in [pc : {"login", "ask", "fallback", "link"}, state : States,
                     provider : Providers, code : States]
      /\ SoundNow(Idle)
  BY RequestShape DEF CompleteOAuthLogin, CompleteIdentityLink, SoundNow, SoundIn, Idle, Holding
<1> DEFINE At(pc) == [req[r] EXCEPT !.pc = pc]
<1>2. \A pc \in {"ask", "fallback", "link"} :
        /\ At(pc) \in RequestStates /\ At(pc).pc = pc
        /\ At(pc).state = req[r].state /\ At(pc).provider = req[r].provider
  BY <1>1 DEF RequestStates
<1>3. ~Holding(At("fallback")) /\ SoundNow(At("fallback"))
  BY <1>2 DEF Holding, SoundNow, SoundIn
<1> HIDE DEF At
<1>4. CASE CompleteOAuthLogin(r)
  <2>1. CASE UNCHANGED transaction /\ Becomes(r, At("fallback"))
    BY <1>2, <1>3, <1>4, <2>1, QuietStep DEF CompleteOAuthLogin
  <2>2. CASE /\ Claimable(req[r].state, "login") /\ transaction' = Claimed(req[r].state)
             /\ \/ ProviderAgrees(req[r].state, req[r].provider) /\ Becomes(r, At("ask"))
                \/ Becomes(r, At("fallback"))
    <3>1. CASE ProviderAgrees(req[r].state, req[r].provider) /\ Becomes(r, At("ask"))
      BY <1>1, <1>2, <1>4, <2>2, <3>1, ClaimKeeps
      DEF CompleteOAuthLogin, Claimable, ProviderAgrees
    <3>2. CASE Becomes(r, At("fallback"))
      BY <1>1, <1>2, <1>3, <1>4, <2>2, <3>2, ClaimKeeps
      DEF CompleteOAuthLogin, Claimable
    <3> QED BY <2>2, <3>1, <3>2
  <2> QED BY <1>4, <2>1, <2>2 DEF CompleteOAuthLogin, At
<1>5. CASE CompleteIdentityLink(r)
  <2>1. CASE /\ Claimable(req[r].state, "link") /\ transaction' = Claimed(req[r].state)
             /\ ProviderAgrees(req[r].state, req[r].provider) /\ Becomes(r, At("link"))
    BY <1>1, <1>2, <1>5, <2>1, ClaimKeeps DEF CompleteIdentityLink, Claimable, ProviderAgrees
  <2>2. CASE /\ Claimable(req[r].state, "link") /\ transaction' = Claimed(req[r].state)
             /\ Becomes(r, Idle)
    <3>1. Idle.pc = "idle"
      BY DEF Idle
    <3> QED BY <1>1, <1>5, <2>2, <3>1, IdleShape, ClaimKeeps DEF CompleteIdentityLink, Claimable
  <2>3. CASE UNCHANGED transaction /\ Becomes(r, Idle)
    BY <1>1, <1>5, <2>3, IdleShape, QuietStep DEF CompleteIdentityLink
  <2> QED BY <1>5, <2>1, <2>2, <2>3 DEF CompleteIdentityLink, At
<1> QED BY <1>4, <1>5

\* A session is opened by the one request that holds the state.
LEMMA OpenSessionKeeps ==
  ASSUME IInv, NEW r \in Requests, OpenSession(r)
  PROVE  IInv'
<1> USE DEF IInv
<1>1. /\ req[r].pc = "open" /\ Holding(req[r]) /\ req[r].state \in States
      /\ req[r].subject \in Subjects /\ req[r].user \in Users
      /\ SoundNow(req[r]) /\ SoundNow(Idle)
  BY RequestShape DEF OpenSession, Holding, RequestsSound, SoundNow, SoundIn, Idle
<1>2. Becomes(r, Idle) /\ Evolves
  BY NothingEvolves DEF OpenSession
<1>3. CASE UNCHANGED <<opened, results>>
  BY <1>1, <1>2, <1>3, IdleShape, QuietStep DEF OpenSession
<1>4. CASE /\ opened' = opened \cup
                {[state |-> req[r].state, subject |-> req[r].subject, user |-> req[r].user]}
           /\ results' = [results EXCEPT ![req[r].state] = @ + 1]
  <2>1. \A o \in Requests \ {r} : Holding(req[o]) => req[o].state # req[r].state
    BY <1>1 DEF HeldOnce
  <2>2. /\ results' \in [States -> Nat]
        /\ results'[req[r].state] = 1
        /\ \A s \in States \ {req[r].state} : results'[s] = results[s]
    BY <1>1, <1>4 DEF TypeOK, SoundNow, SoundIn
  <2>3. \A o \in Requests \ {r} : Holding(req[o]) => results'[req[o].state] = results[req[o].state]
    BY <2>1, <2>2, RequestShape
  <2>4. req' \in [Requests -> RequestStates] /\ RequestsSound' /\ HeldOnce'
    BY <1>2, <2>3, IdleShape, RequestGoesOn
  <2>5. TypeOK'
    BY <1>1, <1>4, <2>2, <2>4 DEF OpenSession, TypeOK
  <2>6. ResultsClosed' /\ StateUsedOnce'
    BY <1>1, <2>2 DEF OpenSession, ResultsClosed, StateUsedOnce, SoundNow, SoundIn
  <2>7. SubjectOwnedOnce' /\ RegisteredKept'
    BY DEF OpenSession, SubjectOwnedOnce, RegisteredKept
  <2>8. BoundToItsStart'
    BY <1>1, <1>4 DEF OpenSession, BoundToItsStart, SoundNow, SoundIn
  <2> QED BY <2>4, <2>5, <2>6, <2>7, <2>8
<1> QED BY <1>3, <1>4 DEF OpenSession

\* An identity is linked by the one request that holds the state, to the user who
\* started it, and only when nobody owns the subject.
LEMMA PersistLinkKeeps ==
  ASSUME IInv, NEW r \in Requests, PersistLink(r)
  PROVE  IInv'
<1> USE DEF IInv
<1> DEFINE t == transaction[req[r].state]
<1>1. /\ req[r].pc = "persist" /\ Holding(req[r]) /\ req[r].state \in States
      /\ req[r].subject \in Subjects
      /\ SoundNow(req[r]) /\ SoundNow(Idle)
  BY RequestShape DEF PersistLink, Holding, RequestsSound, SoundNow, SoundIn, Idle
<1>2. t.kind = "link" /\ t.user \in Users /\ t.provider \in Providers
  BY <1>1, TransactionShape DEF SoundNow, SoundIn
<1>3. Becomes(r, Idle) /\ Evolves
  BY NothingEvolves DEF PersistLink
<1>4. CASE UNCHANGED <<identities, used, results>>
  BY <1>1, <1>3, <1>4, IdleShape, QuietStep DEF PersistLink
<1>5. ASSUME Unowned(t.provider, req[r].subject),
             results' = [results EXCEPT ![req[r].state] = @ + 1],
             NEW i \in Ids, used' = used \cup {i},
             identities' = identities \cup
               {[id |-> i, user |-> t.user, provider |-> t.provider, subject |-> req[r].subject,
                 via |-> req[r].state]}
      PROVE  IInv'
  <2> DEFINE new == [id |-> i, user |-> t.user, provider |-> t.provider,
                     subject |-> req[r].subject, via |-> req[r].state]
  <2>1. \A o \in Requests \ {r} : Holding(req[o]) => req[o].state # req[r].state
    BY <1>1 DEF HeldOnce
  <2>2. /\ results' \in [States -> Nat]
        /\ results'[req[r].state] = 1
        /\ \A s \in States \ {req[r].state} : results'[s] = results[s]
    BY <1>1, <1>5 DEF TypeOK, SoundNow, SoundIn
  <2>3. \A o \in Requests \ {r} : Holding(req[o]) => results'[req[o].state] = results[req[o].state]
    BY <2>1, <2>2, RequestShape
  <2>4. req' \in [Requests -> RequestStates] /\ RequestsSound' /\ HeldOnce'
    BY <1>3, <2>3, IdleShape, RequestGoesOn
  <2>5. new \in Identity /\ identities' = identities \cup {new}
    BY <1>1, <1>2, <1>5 DEF Identity
  <2>6. TypeOK'
    BY <1>5, <2>2, <2>4, <2>5 DEF PersistLink, TypeOK
  <2>7. ResultsClosed' /\ StateUsedOnce'
    BY <1>1, <2>2 DEF PersistLink, ResultsClosed, StateUsedOnce, SoundNow, SoundIn
  <2>8. SubjectOwnedOnce'
    BY <1>5, <2>5 DEF SubjectOwnedOnce, Unowned
  <2>9. BoundToItsStart'
    <3>1. /\ transaction[new.via].kind = "link" /\ transaction[new.via].user = new.user
          /\ transaction[new.via].provider = new.provider /\ new.subject = consent[new.via]
      BY <1>1, <1>2 DEF SoundNow, SoundIn
    <3> HIDE DEF new
    <3> QED BY <2>5, <3>1 DEF PersistLink, BoundToItsStart
  <2>10. RegisteredKept'
    BY <2>5 DEF RegisteredKept
  <2> QED BY <2>4, <2>6, <2>7, <2>8, <2>9, <2>10
<1> QED BY <1>4, <1>5 DEF PersistLink

\* An unlink removes linked identities only: the DELETE names the provider.
LEMMA UnlinkKeeps ==
  ASSUME IInv, NEW r \in Requests, Unlink(r)
  PROVE  IInv'
<1> USE DEF IInv
<1>1. Becomes(r, Idle) /\ Evolves /\ identities' \subseteq identities
  BY NothingEvolves DEF Unlink
<1>2. req' \in [Requests -> RequestStates] /\ RequestsSound' /\ HeldOnce'
  BY <1>1, IdleShape, RequestGoesOn DEF Unlink
<1>3. TypeOK'
  BY <1>1, <1>2 DEF Unlink, TypeOK
<1>4. BoundToItsStart'
  BY <1>1, BoundKept DEF Unlink
<1>5. RegisteredKept'
  <2>1. \A u \in Users : ~Unlinkable(Registered(u))
    BY DEF Registered, Unlinkable
  <2> QED BY <2>1 DEF Unlink, RegisteredKept
<1>6. ResultsClosed' /\ StateUsedOnce' /\ SubjectOwnedOnce'
  BY <1>1 DEF Unlink, ResultsClosed, StateUsedOnce, SubjectOwnedOnce
<1> QED BY <1>2, <1>3, <1>4, <1>5, <1>6

\* Starts, consents, expiries and suspensions disturb no callback under way.
LEMMA EnvironmentKeeps ==
  ASSUME IInv,
         \/ \E s \in States : BeginOAuthLogin(s) \/ BeginIdentityLink(s) \/ Authorize(s) \/ Expire(s)
         \/ \E u \in Users : Suspend(u)
  PROVE  IInv'
<1> USE DEF IInv
<1>1. ASSUME Evolves, UNCHANGED <<identities, used, opened, results, req>>,
             suspended' \subseteq Users,
             transaction' \in [States -> Transaction \cup {NoTransaction}],
             consent' \in [States -> Subjects \cup {None}]
      PROVE  IInv'
  <2>1. TypeOK'
    BY <1>1 DEF TypeOK
  <2>2. RequestsSound'
    BY <1>1, StaysSound DEF RequestsSound, SoundNow, SoundNext
  <2>3. BoundToItsStart'
    BY <1>1, BoundKept
  <2>4. ResultsClosed'
    <3> SUFFICES ASSUME NEW s \in States, results[s] > 0 PROVE transaction'[s].status = "consumed"
      BY <1>1 DEF ResultsClosed
    <3>1. transaction[s].status = "consumed" /\ transaction[s] # NoTransaction
      BY TransactionShape DEF ResultsClosed
    <3> QED BY <1>1, <3>1 DEF Evolves, Kept
  <2>5. HeldOnce' /\ StateUsedOnce' /\ SubjectOwnedOnce' /\ RegisteredKept'
    BY <1>1 DEF HeldOnce, StateUsedOnce, SubjectOwnedOnce, RegisteredKept
  <2> QED BY <2>1, <2>2, <2>3, <2>4, <2>5
<1>2. ASSUME NEW s \in States, NEW row \in Transaction, Start(s, row) PROVE IInv'
  <2>1. Evolves
    BY <1>2 DEF Start, Evolves, Kept, TypeOK
  <2> QED BY <1>1, <1>2, <2>1 DEF Start, TypeOK
<1>3. ASSUME NEW s \in States, BeginOAuthLogin(s) PROVE IInv'
  <2>1. PICK p \in Providers, b \in Browsers :
          Start(s, [kind |-> "login", user |-> None, provider |-> p, browser |-> b,
                    status |-> "open"])
    BY <1>3 DEF BeginOAuthLogin
  <2>2. [kind |-> "login", user |-> None, provider |-> p, browser |-> b, status |-> "open"]
          \in Transaction
    BY DEF Transaction
  <2> QED BY <1>2, <2>1, <2>2
<1>4. ASSUME NEW s \in States, BeginIdentityLink(s) PROVE IInv'
  <2>1. PICK u \in Users, p \in Providers, b \in Browsers :
          Start(s, [kind |-> "link", user |-> u, provider |-> p, browser |-> b,
                    status |-> "open"])
    BY <1>4 DEF BeginIdentityLink
  <2>2. [kind |-> "link", user |-> u, provider |-> p, browser |-> b, status |-> "open"]
          \in Transaction
    BY DEF Transaction
  <2> QED BY <1>2, <2>1, <2>2
<1>5. ASSUME NEW s \in States, Authorize(s) PROVE IInv'
  <2>1. Evolves
    BY <1>5 DEF Authorize, Evolves, Kept, TypeOK
  <2> QED BY <1>1, <1>5, <2>1 DEF Authorize, TypeOK
<1>6. ASSUME NEW s \in States, Expire(s) PROVE IInv'
  <2>1. Evolves /\ transaction' \in [States -> Transaction \cup {NoTransaction}]
    BY <1>6, StatusChange DEF Expire
  <2> QED BY <1>1, <1>6, <2>1 DEF Expire, TypeOK
<1>7. ASSUME NEW u \in Users, Suspend(u) PROVE IInv'
  <2>1. Evolves
    BY <1>7, NothingEvolves DEF Suspend
  <2> QED BY <1>1, <1>7, <2>1 DEF Suspend, TypeOK
<1> QED BY <1>3, <1>4, <1>5, <1>6, <1>7

-----------------------------------------------------------------------------
(* The theorems.                                                             *)

\* The invariant holds from the start and through every step.
THEOREM Inductive == Spec => []IInv
<1>1. Init => IInv
  <2> SUFFICES ASSUME Init PROVE IInv
    OBVIOUS
  <2>1. TypeOK
    BY DEF Init, TypeOK, Identity, Registered, RequestStates, Idle
  <2>2. RequestsSound /\ HeldOnce
    BY DEF Init, RequestsSound, HeldOnce, SoundNow, SoundIn, Holding, Idle
  <2>3. ResultsClosed /\ StateUsedOnce
    BY DEF Init, ResultsClosed, StateUsedOnce
  <2>4. SubjectOwnedOnce /\ BoundToItsStart /\ RegisteredKept
    BY DEF Init, SubjectOwnedOnce, BoundToItsStart, RegisteredKept, Registered
  <2> QED BY <2>1, <2>2, <2>3, <2>4 DEF IInv
<1>2. IInv /\ [Next]_vars => IInv'
  <2> SUFFICES ASSUME IInv, [Next]_vars PROVE IInv'
    OBVIOUS
  <2>1. CASE UNCHANGED vars
    BY <2>1 DEF vars, IInv, TypeOK, RequestsSound, SoundNow, HeldOnce, ResultsClosed,
                StateUsedOnce, SubjectOwnedOnce, BoundToItsStart, RegisteredKept
  <2>2. ASSUME NEW r \in Requests, Step(r) PROVE IInv'
    BY <2>2, ReadingSteps, Claims, OpenSessionKeeps, PersistLinkKeeps, UnlinkKeeps DEF Step
  <2> QED BY <2>1, <2>2, EnvironmentKeeps DEF Next
<1> QED BY <1>1, <1>2, PTL DEF Spec

\* The tables of LoginIdentities and its suspended requests keep their types.
THEOREM IdentityTypes == Spec => []TypeOK
<1>1. IInv => TypeOK
  BY DEF IInv
<1> QED BY <1>1, Inductive, PTL

\* A subject of a provider has one owner: the unique constraint decides between any
\* number of link callbacks that persist it.
THEOREM OneOwner == Spec => []SubjectOwnedOnce
<1>1. IInv => SubjectOwnedOnce
  BY DEF IInv
<1> QED BY <1>1, Inductive, PTL

\* A state is spent by its claim: any number of its callbacks get one session or one
\* identity from it together.
THEOREM SpentOnce == Spec => []StateUsedOnce
<1>1. IInv => StateUsedOnce
  BY DEF IInv
<1> QED BY <1>1, Inductive, PTL

\* Sessions and identities go to whom their state was started for and carry the
\* subject that authorized it, whatever codes the callbacks mix.
THEOREM Bound == Spec => []BoundToItsStart
<1>1. IInv => BoundToItsStart
  BY DEF IInv
<1> QED BY <1>1, Inductive, PTL

\* An account never loses its last login identity, for any number of unlink requests
\* that counted the identities before the others wrote.
THEOREM LoginKept == Spec => []KeepsALogin
<1>1. IInv => KeepsALogin
  BY DEF IInv, RegisteredKept, KeepsALogin, Registered
<1> QED BY <1>1, Inductive, PTL
=============================================================================
