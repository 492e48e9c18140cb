--------------------------- MODULE EmailRegistration ---------------------------
(***************************************************************************)
(* Registration by e-mail and password. A flow is named by an opaque token *)
(* and lives in Redis until the owner of the address returns the code that *)
(* was mailed; only then the account is written to the database.           *)
(*                                                                         *)
(* A verification or a resend reads the pending value, decides, and writes *)
(* with a second command. consume compares before it deletes, replace does *)
(* not compare. Every value of a flow carries the same address, password   *)
(* and name, so a value is its code and its failed attempts. Codes are     *)
(* numbered in the order they are drawn; 0 is a code that was never drawn. *)
(***************************************************************************)
EXTENDS Integers, FiniteSets

CONSTANTS
  Emails, Tokens,
  None,         \* no address, token or value
  Requests,     \* concurrent requests
  MaxAttempts,  \* MAX_VERIFICATION_ATTEMPTS
  MaxCodes      \* bound on the codes drawn for one flow

ASSUME RegistrationAssumption ==
  /\ None \notin Emails /\ None \notin Tokens
  /\ MaxAttempts \in Nat /\ MaxCodes \in Nat \ {0}

VARIABLES
  email,     \* the address of each flow; None while its token is not issued
  store,     \* Redis: the pending value of each flow
  drawn,     \* codes drawn for each flow
  known,     \* tokens returned to a client
  delivered, \* tokens for which the notifier accepted a mail
  accounts,  \* registered accounts, with the flow they come from
  req        \* local state of each request

vars == <<email, store, drawn, known, delivered, accounts, req>>

-----------------------------------------------------------------------------
Codes == 1..MaxCodes

Pending == [code : Codes, attempts : 0..MaxAttempts]

NoValue == [code |-> 0, attempts |-> 0]

Accounts == [email : Emails, token : Tokens]

Idle == [pc |-> "idle"]

RequestStates ==
  {Idle} \cup [pc : {"put"}, email : Emails]
         \cup [pc : {"rotate", "mail", "discard", "count", "consume", "register"},
               token : Tokens, value : Pending]

Init ==
  /\ email = [t \in Tokens |-> None]
  /\ store = [t \in Tokens |-> NoValue]
  /\ drawn = [t \in Tokens |-> 0]
  /\ known = {} /\ delivered = {} /\ accounts = {}
  /\ req = [r \in Requests |-> Idle]

Becomes(r, q) == req' = [req EXCEPT ![r] = q]

\* The request r goes on at pc with value v of flow t.
At(r, pc, t, v) == Becomes(r, [pc |-> pc, token |-> t, value |-> v])

\* SET NX: only an absent key is created.
Put(t, v) == store[t] = NoValue /\ store' = [store EXCEPT ![t] = v]

\* SET: whatever is there is overwritten, and an absent key is created.
Replace(t, v) == store' = [store EXCEPT ![t] = v]

\* The Lua script: delete the value if it still is v.
Consume(t, v) == store[t] = v /\ store' = [store EXCEPT ![t] = NoValue]

-----------------------------------------------------------------------------
(* Starting a flow, and sending its code again.                              *)

\* An address with an account is answered like any other, and nothing is stored.
BeginStart(r) ==
  /\ req[r] = Idle
  /\ \E e \in Emails :
       /\ \A a \in accounts : a.email # e
       /\ Becomes(r, [pc |-> "put", email |-> e])
  /\ UNCHANGED <<email, store, drawn, known, delivered, accounts>>

\* SET NX under a token that nobody has seen before.
PutPending(r) ==
  LET first == [code |-> 1, attempts |-> 0] IN
  /\ req[r].pc = "put"
  /\ \E t \in Tokens :
       /\ email[t] = None
       /\ email' = [email EXCEPT ![t] = req[r].email]
       /\ Put(t, first)
       /\ drawn' = [drawn EXCEPT ![t] = 1]
       /\ At(r, "mail", t, first)
  /\ UNCHANGED <<known, delivered, accounts>>

\* The flow can still be resent or verified.
Usable(v) == v # NoValue /\ v.attempts < MaxAttempts

\* A locked or absent flow is answered without a delivery; otherwise a new code is
\* drawn and the attempts that were read are kept.
BeginResend(r) ==
  /\ req[r] = Idle
  /\ \E t \in known :
       /\ Usable(store[t])
       /\ drawn[t] < MaxCodes
       /\ drawn' = [drawn EXCEPT ![t] = @ + 1]
       /\ At(r, "rotate", t, [store[t] EXCEPT !.code = drawn[t] + 1])
  /\ UNCHANGED <<email, store, known, delivered, accounts>>

Rotate(r) ==
  LET q == req[r] IN
  /\ q.pc = "rotate"
  /\ Replace(q.token, q.value)
  /\ Becomes(r, [q EXCEPT !.pc = "mail"])
  /\ UNCHANGED <<email, drawn, known, delivered, accounts>>

\* Fault: a failed delivery is answered like a successful one.
MailHopeful(r) ==
  LET q == req[r] IN
  /\ q.pc = "mail"
  /\ known' = known \cup {q.token}
  /\ delivered' \in {delivered, delivered \cup {q.token}}
  /\ Becomes(r, Idle)
  /\ UNCHANGED <<email, store, drawn, accounts>>

\* The client gets the token after the mail was accepted. A delivery that raises
\* may have gone out all the same.
Mail(r) ==
  LET q == req[r] IN
  /\ q.pc = "mail"
  /\ \/ /\ delivered' = delivered \cup {q.token}
        /\ known' = known \cup {q.token}
        /\ Becomes(r, Idle)
     \/ /\ Becomes(r, [q EXCEPT !.pc = "discard"])
        /\ UNCHANGED <<known, delivered>>
  /\ UNCHANGED <<email, store, drawn, accounts>>

\* Fault: the value of the failed delivery is put back, whatever became of the flow.
DiscardRestores(r) ==
  LET q == req[r] IN
  /\ q.pc = "discard"
  /\ Replace(q.token, q.value)
  /\ Becomes(r, Idle)
  /\ UNCHANGED <<email, drawn, known, delivered, accounts>>

\* _discard_pending: the value that could not be delivered is removed if it is
\* still the stored one.
Discard(r) ==
  LET q == req[r] IN
  /\ q.pc = "discard"
  /\ \/ Consume(q.token, q.value)
     \/ store[q.token] # q.value /\ UNCHANGED store
  /\ Becomes(r, Idle)
  /\ UNCHANGED <<email, drawn, known, delivered, accounts>>

-----------------------------------------------------------------------------
(* Verifying a code.                                                         *)

\* The pending value is read and the code compared. An unusable flow is refused;
\* otherwise the request goes on to redeem the value or to count the failure.
BeginVerify(r) ==
  /\ req[r] = Idle
  /\ \E t \in known, code \in 0..MaxCodes :
       LET v == store[t] IN
       \/ ~Usable(v) /\ Becomes(r, Idle)
       \/ Usable(v) /\ code = v.code /\ At(r, "consume", t, v)
       \/ Usable(v) /\ code # v.code /\ At(r, "count", t, [v EXCEPT !.attempts = @ + 1])
  /\ UNCHANGED <<email, store, drawn, known, delivered, accounts>>

CountFailure(r) ==
  LET q == req[r] IN
  /\ q.pc = "count"
  /\ Replace(q.token, q.value)
  /\ Becomes(r, Idle)
  /\ UNCHANGED <<email, drawn, known, delivered, accounts>>

\* A value that changed since it was read is refused.
Redeem(r) ==
  LET q == req[r] IN
  /\ q.pc = "consume"
  /\ \/ Consume(q.token, q.value) /\ Becomes(r, [q EXCEPT !.pc = "register"])
     \/ store[q.token] # q.value /\ UNCHANGED store /\ Becomes(r, Idle)
  /\ UNCHANGED <<email, drawn, known, delivered, accounts>>

\* Fault: no unique address.
AddressAlwaysFree(e) == TRUE

\* The unique lookup hash of user_emails.
AddressFree(e) == \A a \in accounts : a.email # e

\* The account that the verified flow t stands for.
AccountOf(t) == [email |-> email[t], token |-> t]

\* One transaction; a conflict leaves nothing behind and the code stays used.
Register(r) ==
  LET q == req[r] IN
  /\ q.pc = "register"
  /\ accounts' = IF AddressFree(email[q.token])
                   THEN accounts \cup {AccountOf(q.token)}
                   ELSE accounts
  /\ Becomes(r, Idle)
  /\ UNCHANGED <<email, store, drawn, known, delivered>>

-----------------------------------------------------------------------------
\* The time to live of the value ends.
Expire(t) ==
  /\ store[t] # NoValue
  /\ store' = [store EXCEPT ![t] = NoValue]
  /\ UNCHANGED <<email, drawn, known, delivered, accounts, req>>

\* Redis or the database fails, before or after the last command took effect, or
\* the process restarts.
Abandon(r) ==
  /\ req[r] # Idle
  /\ Becomes(r, Idle)
  /\ UNCHANGED <<email, store, drawn, known, delivered, accounts>>

Step(r) ==
  \/ BeginStart(r) \/ PutPending(r) \/ BeginResend(r) \/ Rotate(r) \/ Mail(r) \/ Discard(r)
  \/ BeginVerify(r) \/ CountFailure(r) \/ Redeem(r) \/ Register(r)
  \/ Abandon(r)

Next ==
  \/ \E r \in Requests : Step(r)
  \/ \E t \in Tokens : Expire(t)

Spec == Init /\ [][Next]_vars

-----------------------------------------------------------------------------
(* Properties.                                                               *)

\* Type invariant of the store, the accounts and the requests.
TypeOK ==
  /\ email \in [Tokens -> Emails \cup {None}]
  /\ store \in [Tokens -> Pending \cup {NoValue}]
  /\ drawn \in [Tokens -> 0..MaxCodes]
  /\ known \subseteq Tokens /\ delivered \subseteq Tokens
  /\ accounts \subseteq Accounts
  /\ req \in [Requests -> RequestStates]

\* However many flows for one address are verified at once, one account has it
\* (the registration transaction, not the look-up when a flow starts).
OneAccountPerAddress == \A a, b \in accounts : a.email = b.email => a = b

\* A flow whose first mail failed ends there: its token reached nobody, so no later
\* request acts on it and it makes no account, even if the value stayed in Redis.
UndeliveredStaysClosed ==
  /\ known \subseteq delivered
  /\ \A a \in accounts : a.token \in delivered /\ a.email = email[a.token]
  /\ \A r \in Requests : req[r].pc \in {"rotate", "count", "consume", "register"} =>
       req[r].token \in delivered

\* A request read the value of flow t before now and will still write one.
WillWrite(t) == \E r \in Requests : req[r].pc \in {"rotate", "count"} /\ req[r].token = t

\* The flow was redeemed, discarded or expired, and every request that had read it to
\* rotate its code or to count a failure is over.
Over(t) == email[t] # None /\ store[t] = NoValue /\ ~WillWrite(t)

\* A flow that is over stays over: no resend, guess, verification or failed delivery
\* that starts or ends later brings its code back.  replace is a plain SET, so this
\* rests on every use case reading a usable value first and on consume comparing.
OverForGood == [][\A t \in Tokens : Over(t) => Over(t)']_vars
=============================================================================
