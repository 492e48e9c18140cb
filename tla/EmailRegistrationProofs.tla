------------------------ MODULE EmailRegistrationProofs ------------------------
(* Proofs about EmailRegistration, for every set of addresses, tokens and     *)
(* concurrent requests and every limit on attempts.                           *)
EXTENDS EmailRegistration, TLAPS

\* Requests that hold a token.
Working == {"rotate", "mail", "discard", "count", "consume", "register"}

\* A token that a client, a request or an account holds was issued: the address
\* of its flow never changes again.
TokensIssued ==
  /\ \A t \in known : email[t] # None
  /\ \A r \in Requests : req[r].pc \in Working => email[req[r].token] # None

\* The inductive invariant.
IInv == TypeOK /\ TokensIssued /\ OneAccountPerAddress /\ UndeliveredStaysClosed

\* A working request carries a token and a value.
LEMMA WorkingRequest ==
  ASSUME TypeOK, NEW r \in Requests, req[r].pc \in Working
  PROVE  req[r] \in [pc : Working, token : Tokens, value : Pending]
BY DEF TypeOK, RequestStates, Idle, Working

\* A value keeps its type when a new code or another attempt is written into it.
LEMMA PendingUpdates ==
  ASSUME NEW v \in Pending, Usable(v), NEW c \in Codes
  PROVE  /\ [v EXCEPT !.code = c] \in Pending
         /\ [v EXCEPT !.attempts = @ + 1] \in Pending
BY RegistrationAssumption DEF Pending, Usable, Codes

\* A request that becomes q, a state that holds no token or one that is issued and
\* delivered, keeps what the invariant says of requests.
LEMMA RequestKeeps ==
  ASSUME IInv, NEW r \in Requests, NEW q \in RequestStates, Becomes(r, q),
         q.pc \in Working => email[q.token] # None,
         q.pc \in {"rotate", "count", "consume", "register"} => q.token \in delivered'
  PROVE  /\ req' \in [Requests -> RequestStates]
         /\ \A s \in Requests : req'[s].pc \in Working => email[req'[s].token] # None
         /\ delivered \subseteq delivered' =>
              \A s \in Requests :
                req'[s].pc \in {"rotate", "count", "consume", "register"} =>
                  req'[s].token \in delivered'
BY DEF IInv, TypeOK, TokensIssued, UndeliveredStaysClosed, Becomes

-----------------------------------------------------------------------------
(* Steps.                                                                    *)

\* Every step keeps the invariant.
LEMMA StepKeeps ==
  ASSUME IInv, [Next]_vars
  PROVE  IInv'
<1> USE RegistrationAssumption
<1>1. CASE UNCHANGED vars
  BY <1>1 DEF vars, IInv, TypeOK, TokensIssued, OneAccountPerAddress, UndeliveredStaysClosed
<1>2. ASSUME NEW t \in Tokens, Expire(t) PROVE IInv'
  BY <1>2 DEF Expire, IInv, TypeOK, TokensIssued, OneAccountPerAddress, UndeliveredStaysClosed
<1>3. ASSUME NEW r \in Requests, Step(r) PROVE IInv'
  <2> Idle \in RequestStates /\ Idle.pc \notin Working
    BY DEF Idle, RequestStates, Working
  <2>1. CASE BeginStart(r)
    <3>1. PICK e \in Emails : Becomes(r, [pc |-> "put", email |-> e])
      BY <2>1 DEF BeginStart
    <3>2. [pc |-> "put", email |-> e] \in RequestStates
      BY DEF RequestStates
    <3> QED BY <2>1, <3>1, <3>2, RequestKeeps
            DEF BeginStart, IInv, TypeOK, TokensIssued, OneAccountPerAddress,
                UndeliveredStaysClosed, Working
  <2>2. CASE PutPending(r)
    <3> DEFINE first == [code |-> 1, attempts |-> 0]
               q(t) == [pc |-> "mail", token |-> t, value |-> first]
    <3>1. PICK t \in Tokens :
            /\ email[t] = None
            /\ email' = [email EXCEPT ![t] = req[r].email]
            /\ store' = [store EXCEPT ![t] = first]
            /\ drawn' = [drawn EXCEPT ![t] = 1]
            /\ req' = [req EXCEPT ![r] = q(t)]
            /\ UNCHANGED <<known, delivered, accounts>>
      BY <2>2 DEF PutPending, Put, At, Becomes
    <3>2. req[r].email \in Emails
      BY <2>2 DEF PutPending, IInv, TypeOK, RequestStates, Idle
    <3>3. first \in Pending /\ q(t) \in RequestStates
      BY DEF Pending, RequestStates, Codes
    <3>4. \A x \in Tokens : email[x] # None => email'[x] = email[x]
      BY <3>1 DEF IInv, TypeOK
    <3>5. TypeOK'
      BY <3>1, <3>2, <3>3 DEF IInv, TypeOK
    <3>6. TokensIssued'
      <4>1. \A x \in known' : email'[x] # None
        BY <3>1, <3>4 DEF IInv, TypeOK, TokensIssued
      <4>2. ASSUME NEW s \in Requests, req'[s].pc \in Working PROVE email'[req'[s].token] # None
        <5>1. CASE s = r
          BY <3>1, <3>2, <5>1 DEF IInv, TypeOK
        <5>2. CASE s # r
          BY <3>1, <3>4, <4>2, <5>2, WorkingRequest DEF IInv, TypeOK, TokensIssued
        <5> QED BY <5>1, <5>2
      <4> QED BY <4>1, <4>2 DEF TokensIssued
    <3>7. UndeliveredStaysClosed'
      <4>1. \A a \in accounts : email[a.token] # None /\ a.token \in Tokens
        BY DEF IInv, TypeOK, UndeliveredStaysClosed, Accounts
      <4>2. \A a \in accounts' : a.token \in delivered' /\ a.email = email'[a.token]
        BY <3>1, <3>4, <4>1 DEF IInv, UndeliveredStaysClosed
      <4>3. \A s \in Requests :
              req'[s].pc \in {"rotate", "count", "consume", "register"} =>
                req'[s].token \in delivered'
        BY <3>1 DEF IInv, TypeOK, UndeliveredStaysClosed
      <4> QED BY <3>1, <4>2, <4>3 DEF IInv, UndeliveredStaysClosed
    <3> QED BY <3>1, <3>5, <3>6, <3>7 DEF IInv, OneAccountPerAddress
  <2>3. CASE BeginResend(r)
    <3>1. PICK t \in known :
            /\ Usable(store[t])
            /\ drawn[t] < MaxCodes
            /\ drawn' = [drawn EXCEPT ![t] = @ + 1]
            /\ At(r, "rotate", t, [store[t] EXCEPT !.code = drawn[t] + 1])
            /\ UNCHANGED <<email, store, known, delivered, accounts>>
      BY <2>3 DEF BeginResend
    <3> DEFINE q == [pc |-> "rotate", token |-> t,
                     value |-> [store[t] EXCEPT !.code = drawn[t] + 1]]
    <3>2. t \in Tokens /\ t \in delivered /\ email[t] # None
      BY DEF IInv, TypeOK, TokensIssued, UndeliveredStaysClosed
    <3>3. drawn[t] + 1 \in Codes /\ store[t] \in Pending
      BY <3>1, <3>2 DEF IInv, TypeOK, Codes, Usable
    <3>4. q \in RequestStates
      BY <3>1, <3>2, <3>3, PendingUpdates DEF RequestStates
    <3>5. drawn' \in [Tokens -> 0..MaxCodes]
      BY <3>1, <3>2, <3>3 DEF IInv, TypeOK, Codes
    <3>6. Becomes(r, q)
      BY <3>1 DEF At
    <3>7. /\ req' \in [Requests -> RequestStates]
          /\ \A s \in Requests : req'[s].pc \in Working => email[req'[s].token] # None
          /\ \A s \in Requests :
               req'[s].pc \in {"rotate", "count", "consume", "register"} =>
                 req'[s].token \in delivered'
      <4> HIDE DEF q
      <4>1. q.token \in delivered' /\ email[q.token] # None
        BY <3>1, <3>2 DEF q
      <4> QED BY <3>1, <3>4, <3>6, <4>1, RequestKeeps
    <3> QED BY <3>1, <3>5, <3>7
            DEF IInv, TypeOK, TokensIssued, OneAccountPerAddress, UndeliveredStaysClosed
  <2>4. CASE BeginVerify(r)
    <3>1. PICK t \in known, code \in 0..MaxCodes :
            \/ ~Usable(store[t]) /\ Becomes(r, Idle)
            \/ Usable(store[t]) /\ code = store[t].code /\ At(r, "consume", t, store[t])
            \/ Usable(store[t]) /\ code # store[t].code
               /\ At(r, "count", t, [store[t] EXCEPT !.attempts = @ + 1])
      BY <2>4 DEF BeginVerify
    <3>2. t \in Tokens /\ t \in delivered /\ email[t] # None
      BY DEF IInv, TypeOK, TokensIssued, UndeliveredStaysClosed
    <3>3. PICK q \in RequestStates : Becomes(r, q) /\ (q.pc \in Working => q.token = t)
      <4>1. CASE Becomes(r, Idle)
        BY <4>1
      <4>2. CASE Usable(store[t]) /\ At(r, "consume", t, store[t])
        <5>1. [pc |-> "consume", token |-> t, value |-> store[t]] \in RequestStates
          BY <3>2, <4>2 DEF IInv, TypeOK, Usable, RequestStates
        <5> QED BY <4>2, <5>1 DEF At
      <4>3. CASE Usable(store[t]) /\ At(r, "count", t, [store[t] EXCEPT !.attempts = @ + 1])
        <5>1. store[t] \in Pending /\ 1 \in Codes
          BY <3>2, <4>3 DEF IInv, TypeOK, Usable, Codes
        <5>2. [store[t] EXCEPT !.attempts = @ + 1] \in Pending
          BY <4>3, <5>1, PendingUpdates
        <5>3. [pc |-> "count", token |-> t, value |-> [store[t] EXCEPT !.attempts = @ + 1]]
                \in RequestStates
          BY <3>2, <5>2 DEF RequestStates
        <5> QED BY <4>3, <5>3 DEF At
      <4> QED BY <3>1, <4>1, <4>2, <4>3
    <3>4. UNCHANGED <<email, store, drawn, known, delivered, accounts>>
      BY <2>4 DEF BeginVerify
    <3> QED BY <3>2, <3>3, <3>4, RequestKeeps
            DEF IInv, TypeOK, TokensIssued, OneAccountPerAddress, UndeliveredStaysClosed, Working
  <2>5. CASE Rotate(r) \/ CountFailure(r) \/ Redeem(r) \/ Mail(r) \/ Discard(r) \/ Register(r)
    <3> DEFINE q == req[r]
    <3>1. /\ q \in [pc : Working, token : Tokens, value : Pending]
          /\ email[q.token] # None /\ email[q.token] \in Emails
      BY <2>5, WorkingRequest
         DEF Rotate, CountFailure, Redeem, Mail, Discard, Register, Working, IInv,
             TokensIssued, TypeOK
    <3>2. \A pc \in Working : [q EXCEPT !.pc = pc] \in RequestStates
                              /\ [q EXCEPT !.pc = pc].token = q.token
                              /\ [q EXCEPT !.pc = pc].pc = pc
      BY <3>1 DEF RequestStates, Working
    <3>3. CASE Rotate(r)
      BY <3>1, <3>2, <3>3, RequestKeeps
         DEF Rotate, Replace, IInv, TypeOK, TokensIssued, OneAccountPerAddress,
             UndeliveredStaysClosed, Working, Pending, Codes
    <3>4. CASE CountFailure(r)
      BY <3>1, <3>4, RequestKeeps
         DEF CountFailure, Replace, IInv, TypeOK, TokensIssued, OneAccountPerAddress,
             UndeliveredStaysClosed, Working
    <3>5. CASE Redeem(r)
      <4>1. q.token \in delivered
        BY <3>5 DEF Redeem, IInv, UndeliveredStaysClosed
      <4>2. \/ Becomes(r, [q EXCEPT !.pc = "register"])
            \/ Becomes(r, Idle)
        BY <3>5 DEF Redeem
      <4>3. store' \in [Tokens -> Pending \cup {NoValue}]
        BY <3>1, <3>5 DEF Redeem, Consume, IInv, TypeOK
      <4> QED BY <3>1, <3>2, <3>5, <4>1, <4>2, <4>3, RequestKeeps
              DEF Redeem, IInv, TypeOK, TokensIssued, OneAccountPerAddress,
                  UndeliveredStaysClosed, Working
    <3>6. CASE Mail(r)
      <4>1. \/ Becomes(r, [q EXCEPT !.pc = "discard"])
            \/ Becomes(r, Idle)
        BY <3>6 DEF Mail
      <4>2. delivered \subseteq delivered' /\ delivered' \subseteq Tokens
            /\ known' \subseteq delivered' /\ \A t \in known' : email[t] # None
        BY <3>1, <3>6 DEF Mail, IInv, TypeOK, TokensIssued, UndeliveredStaysClosed
      <4> QED BY <3>2, <3>6, <4>1, <4>2, RequestKeeps
              DEF Mail, IInv, TypeOK, TokensIssued, OneAccountPerAddress,
                  UndeliveredStaysClosed, Working
    <3>7. CASE Discard(r)
      <4>1. store' \in [Tokens -> Pending \cup {NoValue}]
        BY <3>1, <3>7 DEF Discard, Consume, IInv, TypeOK
      <4> QED BY <3>7, <4>1, RequestKeeps
              DEF Discard, IInv, TypeOK, TokensIssued, OneAccountPerAddress,
                  UndeliveredStaysClosed, Working
    <3>8. CASE Register(r)
      <4> DEFINE new == [email |-> email[q.token], token |-> q.token]
      <4>1. new \in Accounts /\ new.token \in delivered /\ new.email = email[new.token]
        BY <3>1, <3>8 DEF Register, IInv, UndeliveredStaysClosed, Accounts
      <4>2. \/ accounts' = accounts
            \/ accounts' = accounts \cup {new} /\ \A a \in accounts : a.email # new.email
        BY <3>8 DEF Register, AddressFree, AccountOf
      <4>3. OneAccountPerAddress'
        BY <4>2 DEF IInv, OneAccountPerAddress
      <4>4. accounts' \subseteq Accounts
            /\ \A a \in accounts' : a.token \in delivered /\ a.email = email[a.token]
        BY <4>1, <4>2 DEF IInv, TypeOK, UndeliveredStaysClosed
      <4> QED BY <3>8, <4>3, <4>4, RequestKeeps
              DEF Register, IInv, TypeOK, TokensIssued, UndeliveredStaysClosed, Working
    <3> QED BY <2>5, <3>3, <3>4, <3>5, <3>6, <3>7, <3>8
  <2>6. CASE Abandon(r)
    BY <2>6, RequestKeeps
       DEF Abandon, IInv, TypeOK, TokensIssued, OneAccountPerAddress, UndeliveredStaysClosed,
           Working
  <2> QED BY <1>3, <2>1, <2>2, <2>3, <2>4, <2>5, <2>6 DEF Step
<1> QED BY <1>1, <1>2, <1>3 DEF Next

-----------------------------------------------------------------------------
(* Theorems.                                                                 *)

\* The invariant holds in every reachable state.
THEOREM RegistrationInductive == Spec => []IInv
<1>1. Init => IInv
  BY RegistrationAssumption
     DEF Init, IInv, TypeOK, TokensIssued, OneAccountPerAddress, UndeliveredStaysClosed,
         RequestStates, Idle, Working
<1> QED BY <1>1, StepKeeps, PTL DEF Spec

\* The store, the accounts and the requests keep their types.
THEOREM RegistrationTypes == Spec => []TypeOK
BY RegistrationInductive, PTL DEF IInv

\* However many flows for one address are redeemed at once, one account has it.
THEOREM AddressRegisteredOnce == Spec => []OneAccountPerAddress
BY RegistrationInductive, PTL DEF IInv

\* No account, and no request, comes from a flow whose mail was never accepted.
THEOREM ClosedFlows == Spec => []UndeliveredStaysClosed
BY RegistrationInductive, PTL DEF IInv

-----------------------------------------------------------------------------
(* Flows that are over.                                                      *)

\* A request comes to rotate or to count only by reading a usable value.
LEMMA WritersReadFirst ==
  ASSUME IInv, [Next]_vars, NEW r \in Requests,
         req'[r].pc \in {"rotate", "count"}, req'[r] # req[r]
  PROVE  store[req'[r].token] # NoValue
<1>1. PICK s \in Requests : Step(s)
  BY DEF Next, Expire, vars
<1>2. \E x : Becomes(s, x)
  BY <1>1 DEF Step, BeginStart, PutPending, BeginResend, Rotate, Mail, Discard, BeginVerify,
              CountFailure, Redeem, Register, Abandon, At
<1>3. s = r /\ \A x : Becomes(r, x) => req'[r] = x
  BY <1>2 DEF Becomes, IInv, TypeOK
<1>4. CASE BeginResend(r)
  BY <1>3, <1>4 DEF BeginResend, At, Usable
<1>5. CASE BeginVerify(r)
  <2>1. PICK t \in known : \/ Becomes(r, Idle) \/ At(r, "consume", t, store[t])
                           \/ /\ Usable(store[t])
                              /\ At(r, "count", t, [store[t] EXCEPT !.attempts = @ + 1])
    BY <1>5 DEF BeginVerify
  <2>2. Usable(store[t]) /\ At(r, "count", t, [store[t] EXCEPT !.attempts = @ + 1])
    BY <1>3, <2>1 DEF At, Idle
  <2> QED BY <1>3, <2>2 DEF At, Usable
<1>6. CASE BeginStart(r) \/ PutPending(r) \/ CountFailure(r) \/ Register(r) \/ Abandon(r)
  <2>1. ASSUME NEW e, Becomes(r, [pc |-> "put", email |-> e]) PROVE FALSE
    <3>1. req'[r] = [pc |-> "put", email |-> e]
      BY <1>3, <2>1
    <3> QED BY <3>1
  <2>2. ASSUME NEW t, NEW v, Becomes(r, [pc |-> "mail", token |-> t, value |-> v]) PROVE FALSE
    <3>1. req'[r] = [pc |-> "mail", token |-> t, value |-> v]
      BY <1>3, <2>2
    <3> QED BY <3>1
  <2>3. ~Becomes(r, Idle)
    <3>1. Becomes(r, Idle) => req'[r] = Idle
      BY <1>3
    <3> QED BY <3>1 DEF Idle
  <2> QED
    BY <1>6, <2>1, <2>2, <2>3 DEF BeginStart, PutPending, CountFailure, Register, Abandon, At
<1>7. CASE Rotate(r) \/ Mail(r) \/ Discard(r) \/ Redeem(r)
  <2>1. req[r] \in [pc : Working, token : Tokens, value : Pending]
    BY <1>7, WorkingRequest DEF Rotate, Mail, Discard, Redeem, Working, IInv
  <2> QED BY <1>3, <1>7, <2>1 DEF Rotate, Mail, Discard, Redeem, Idle
<1> QED BY <1>1, <1>3, <1>4, <1>5, <1>6, <1>7 DEF Step

\* An issued flow without a value gets one only from a request that read it before.
LEMMA ValuesReturnByWriters ==
  ASSUME IInv, [Next]_vars, NEW t \in Tokens, Over(t)
  PROVE  email'[t] # None /\ store'[t] = NoValue
<1>1. email[t] # None /\ store[t] = NoValue /\ store \in [Tokens -> Pending \cup {NoValue}]
  BY DEF Over, IInv, TypeOK
<1>2. ASSUME NEW u \in Tokens, Expire(u) PROVE email'[t] # None /\ store'[t] = NoValue
  BY <1>1, <1>2 DEF Expire
<1>3. ASSUME NEW r \in Requests, Step(r) PROVE email'[t] # None /\ store'[t] = NoValue
  <2>1. CASE PutPending(r)
    <3>1. PICK u \in Tokens : /\ email[u] = None
                              /\ email' = [email EXCEPT ![u] = req[r].email]
                              /\ \E v : store' = [store EXCEPT ![u] = v]
      BY <2>1 DEF PutPending, Put
    <3> QED BY <1>1, <3>1
  <2>2. CASE Rotate(r) \/ CountFailure(r)
    <3>1. req[r].token # t
      BY <2>2 DEF Over, WillWrite, Rotate, CountFailure
    <3> QED BY <1>1, <2>2, <3>1 DEF Rotate, CountFailure, Replace
  <2>3. CASE Discard(r) \/ Redeem(r)
    BY <1>1, <2>3 DEF Discard, Redeem, Consume
  <2>4. CASE UNCHANGED <<email, store>>
    BY <1>1, <2>4
  <2> QED
    BY <1>3, <2>1, <2>2, <2>3, <2>4
    DEF Step, BeginStart, BeginResend, Mail, BeginVerify, Register, Abandon
<1> QED BY <1>1, <1>2, <1>3 DEF Next, vars

\* A flow that was redeemed, discarded or expired, and that no earlier reader will
\* still write, never has a code again: for any number of requests and flows.
THEOREM FlowsStayOver == Spec => OverForGood
<1>1. ASSUME IInv, [Next]_vars, NEW t \in Tokens, Over(t)
      PROVE  Over(t)'
  <2>1. email'[t] # None /\ store'[t] = NoValue
    BY <1>1, ValuesReturnByWriters
  <2>2. ASSUME NEW r \in Requests, req'[r].pc \in {"rotate", "count"}, req'[r].token = t
        PROVE  FALSE
    <3>1. req'[r] # req[r]
      BY <1>1, <2>2 DEF Over, WillWrite
    <3> QED BY <1>1, <2>2, <3>1, WritersReadFirst DEF Over
  <2> QED BY <2>1, <2>2 DEF Over, WillWrite
<1>2. IInv /\ [Next]_vars => [\A t \in Tokens : Over(t) => Over(t)']_vars
  BY <1>1
<1> QED BY <1>2, RegistrationInductive, PTL DEF Spec, OverForGood
=============================================================================
