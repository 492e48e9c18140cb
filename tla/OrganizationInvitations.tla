------------------------ MODULE OrganizationInvitations ------------------------
(***************************************************************************)
(* Membership invitations: inviting by e-mail, accepting with the token    *)
(* that was mailed, revoking. They run beside member management and meet   *)
(* it in the memberships table, so the specification composes both.        *)
(*                                                                         *)
(* An e-mail address is identified with the account that owns it, and the  *)
(* token with its invitation: once it was mailed, anyone may present it.   *)
(* Time is a counter; an invitation lives Lifetime ticks.                  *)
(***************************************************************************)
EXTENDS OrganizationMembership

CONSTANTS
  Calls,            \* concurrent invitation requests
  Lifetime,         \* expires_at - created_at
  InvitationIds,    \* identifiers of invitations, one token each
  MaxTime           \* bound on the clock

ASSUME InvitationAssumption ==
  /\ Lifetime \in Nat \ {0}
  /\ Nobody \notin InvitationIds
  /\ MaxTime \in Nat

VARIABLES
  invs,      \* rows of organization_invitations with their scope rows, or NoRow
  now,       \* the clock
  mailed,    \* invitations whose token reached a mailbox
  joined,    \* history: <<invitation, membership>> pairs, from the accepted events
  call       \* local state of each invitation request

invitationVars == <<invs, now, mailed, joined, call>>
allVars == <<membershipVars, invitationVars>>

-----------------------------------------------------------------------------
Never == 0   \* accepted_at or revoked_at is NULL; the clock starts at 1

Deliveries == {"sent", "unavailable", "failed"}

Invitations == [org : Orgs, email : Users, role : Roles, scopes : SUBSET Scopes,
                expires : Nat, accepted : Nat, revoked : Nat,
                delivery : Deliveries \cup {"none"}]

NoRow == [role |-> "none"]

\* held is the role read for the actor, inv the invitation found or created, since
\* the time read by an acceptance and outcome the result of the notifier.
CallStates ==
  {Idle} \cup [pc : {"create", "mail", "status", "member", "accept", "find", "revoke"},
               actor : Users, org : Orgs, email : Users, role : Roles,
               scopes : SUBSET Scopes, held : Roles, since : Nat,
               inv : InvitationIds \cup {Nobody}, outcome : Deliveries]

InvInit ==
  /\ Init
  /\ invs = [i \in InvitationIds |-> NoRow]
  /\ now = 1
  /\ mailed = {}
  /\ joined = {}
  /\ call = [c \in Calls |-> Idle]

\* The request c goes on as q.
Becomes(c, q) == call' = [call EXCEPT ![c] = q]

-----------------------------------------------------------------------------
(* Inviting.                                                                 *)

\* Fault: an inviter may offer any role.
InviterManages(m, role) == CanManage(m.role)

\* The condition on the actor's membership.
InviterMayOffer(m, role) == CanManage(m.role) /\ MayAssign(m.role, role)

\* No scope is one the role does not support.
OfferableScopes(role, scopes) == \A s \in scopes : RoleSupports(role, s)

BeginInvite(c) ==
  /\ call[c] = Idle
  /\ \E actor, email \in Users, org \in Orgs, role \in OfferedRoles, scopes \in OfferedScopes :
       \E m \in MembershipOf(actor, org) :
         /\ InviterMayOffer(m, role)
         /\ OfferableScopes(role, scopes)
         /\ Becomes(c, [pc |-> "create", actor |-> actor, org |-> org, email |-> email,
                        role |-> role, scopes |-> scopes, held |-> m.role,
                        inv |-> Nobody, since |-> 0, outcome |-> "failed"])
  /\ UNCHANGED <<membershipVars, invs, now, mailed, joined>>

\* A new identifier, with its token; a refused insertion ends the request.
CreateInvitation(c) ==
  LET q == call[c] IN
  /\ q.pc = "create"
  /\ \E i \in InvitationIds :
       /\ invs[i] = NoRow
       /\ invs' = [invs EXCEPT ![i] =
            [org |-> q.org, email |-> q.email, role |-> q.role, scopes |-> q.scopes,
             expires |-> now + Lifetime, accepted |-> Never, revoked |-> Never,
             delivery |-> "none"]]
       /\ Becomes(c, [q EXCEPT !.pc = "mail", !.inv = i])
  /\ UNCHANGED <<membershipVars, now, mailed, joined>>

\* Fault: the status starts as sent, and an exception leaves it so.
SendHopeful(c) ==
  LET q == call[c] IN
  /\ q.pc = "mail"
  /\ \E outcome \in Deliveries :
       /\ Becomes(c, [q EXCEPT !.pc = "status",
                             !.outcome = IF outcome = "failed" THEN "sent" ELSE outcome])
       /\ \/ outcome # "unavailable" /\ mailed' = mailed \cup {q.inv}
          \/ outcome # "sent" /\ UNCHANGED mailed
  /\ UNCHANGED <<membershipVars, invs, now, joined>>

\* The notifier delivers, declines or raises; what it raised for may have been
\* delivered all the same.
SendInvitation(c) ==
  LET q == call[c] IN
  /\ q.pc = "mail"
  /\ \E outcome \in Deliveries :
       /\ Becomes(c, [q EXCEPT !.pc = "status", !.outcome = outcome])
       /\ \/ outcome # "unavailable" /\ mailed' = mailed \cup {q.inv}
          \/ outcome # "sent" /\ UNCHANGED mailed
  /\ UNCHANGED <<membershipVars, invs, now, joined>>

\* update_delivery_status; a failure to store the status is only logged.
PersistDelivery(c) ==
  LET q == call[c] IN
  /\ q.pc = "status"
  /\ \/ invs' = [invs EXCEPT ![q.inv].delivery = q.outcome]
     \/ UNCHANGED invs
  /\ Becomes(c, Idle)
  /\ UNCHANGED <<membershipVars, now, mailed, joined>>

-----------------------------------------------------------------------------
(* Accepting.                                                                *)

\* OrganizationInvitation.status_at, and the WHERE clauses that repeat it.
Open(i) == invs[i].accepted = Never /\ invs[i].revoked = Never

PendingAt(i, t) == Open(i) /\ invs[i].expires > t

\* The token is presented, the clock read once, the invitation found pending and
\* its e-mail found to be the actor's.
BeginAccept(c) ==
  /\ call[c] = Idle
  /\ \E actor \in Users, i \in mailed :
       /\ PendingAt(i, now)
       /\ invs[i].email = actor
       /\ Becomes(c, [pc |-> "member", actor |-> actor, org |-> invs[i].org,
                      email |-> actor, role |-> invs[i].role, scopes |-> invs[i].scopes,
                      held |-> "viewer", inv |-> i, since |-> now, outcome |-> "failed"])
  /\ UNCHANGED <<membershipVars, invs, now, mailed, joined>>

\* A user who is already a member is refused.
CheckMember(c) ==
  LET q == call[c] IN
  /\ q.pc = "member"
  /\ Becomes(c, IF MembershipOf(q.actor, q.org) = {} THEN [q EXCEPT !.pc = "accept"] ELSE Idle)
  /\ UNCHANGED <<membershipVars, invs, now, mailed, joined>>

\* Fault: only expiry is checked again.
AcceptsIfFresh(q) == invs[q.inv].expires > q.since

\* The WHERE clause of the acceptance.
Accepts(q) == PendingAt(q.inv, q.since)

\* Fault: the mark survives the conflict on the seat.
WriteAcceptInTwo(c) ==
  LET q == call[c] IN
  /\ q.pc = "accept"
  /\ IF Accepts(q) THEN invs' = [invs EXCEPT ![q.inv].accepted = q.since]
                   ELSE UNCHANGED invs
  /\ IF Accepts(q) /\ SeatFree(q.actor, q.org)
       THEN /\ InsertMember(q.org, q.actor, q.role, q.scopes)
            /\ joined' = joined \cup {<<q.inv, issued + 1>>}
       ELSE UNCHANGED <<members, issued, joined>>
  /\ Becomes(c, Idle)
  /\ UNCHANGED <<creator, req, now, mailed>>

\* One transaction: mark the invitation, insert the membership. The clause, or the
\* unique seat, may refuse, and then nothing is written.
WriteAccept(c) ==
  LET q == call[c] IN
  /\ q.pc = "accept"
  /\ IF Accepts(q) /\ SeatFree(q.actor, q.org)
       THEN /\ InsertMember(q.org, q.actor, q.role, q.scopes)
            /\ invs' = [invs EXCEPT ![q.inv].accepted = q.since]
            /\ joined' = joined \cup {<<q.inv, issued + 1>>}
       ELSE UNCHANGED <<members, issued, invs, joined>>
  /\ Becomes(c, Idle)
  /\ UNCHANGED <<creator, req, now, mailed>>

-----------------------------------------------------------------------------
(* Revoking.                                                                 *)

BeginRevoke(c) ==
  /\ call[c] = Idle
  /\ \E actor \in Users, org \in Orgs, i \in InvitationIds :
       \E m \in MembershipOf(actor, org) :
         Becomes(c, [pc |-> "find", actor |-> actor, org |-> org, email |-> actor,
                     role |-> "viewer", scopes |-> {}, held |-> m.role,
                     inv |-> i, since |-> 0, outcome |-> "failed"])
  /\ UNCHANGED <<membershipVars, invs, now, mailed, joined>>

\* The conditions on actor and invitation together.
MayRevoke(q) ==
  /\ invs[q.inv] # NoRow
  /\ invs[q.inv].org = q.org
  /\ CanManage(q.held)
  /\ MayAssign(q.held, invs[q.inv].role)
  /\ PendingAt(q.inv, now)

\* find_for_organization, and the decision.
FindToRevoke(c) ==
  LET q == call[c] IN
  /\ q.pc = "find"
  /\ Becomes(c, IF MayRevoke(q) THEN [q EXCEPT !.pc = "revoke"] ELSE Idle)
  /\ UNCHANGED <<membershipVars, invs, now, mailed, joined>>

\* Fault: the revocation does not look whether it was accepted.
RevokesUnrevoked(q) == invs[q.inv].revoked = Never /\ invs[q.inv].expires > now

\* The WHERE clause of the revocation, with the clock read again.
Revokes(q) == PendingAt(q.inv, now)

WriteRevoke(c) ==
  LET q == call[c] IN
  /\ q.pc = "revoke"
  /\ invs' = IF Revokes(q) THEN [invs EXCEPT ![q.inv].revoked = now] ELSE invs
  /\ Becomes(c, Idle)
  /\ UNCHANGED <<membershipVars, now, mailed, joined>>

-----------------------------------------------------------------------------
\* The client disconnects, the database fails or the process restarts.
AbandonCall(c) ==
  /\ call[c] # Idle
  /\ Becomes(c, Idle)
  /\ UNCHANGED <<membershipVars, invs, now, mailed, joined>>

Tick ==
  /\ now < MaxTime
  /\ now' = now + 1
  /\ UNCHANGED <<membershipVars, invs, mailed, joined, call>>

CallStep(c) ==
  \/ BeginInvite(c) \/ CreateInvitation(c) \/ SendInvitation(c) \/ PersistDelivery(c)
  \/ BeginAccept(c) \/ CheckMember(c) \/ WriteAccept(c)
  \/ BeginRevoke(c) \/ FindToRevoke(c) \/ WriteRevoke(c)
  \/ AbandonCall(c)

InvNext ==
  \/ Next /\ UNCHANGED invitationVars
  \/ \E c \in Calls : CallStep(c)
  \/ Tick

InvSpec == InvInit /\ [][InvNext]_allVars

-----------------------------------------------------------------------------
(* Properties.                                                               *)

\* Identifiers of the stored invitations.
Existing == {i \in InvitationIds : invs[i] # NoRow}

\* Type invariant of the invitation tables and requests.
InvTypeOK ==
  /\ invs \in [InvitationIds -> Invitations \cup {NoRow}]
  /\ now \in Nat \ {0}
  /\ mailed \subseteq Existing
  /\ joined \subseteq Existing \X (1..issued)
  /\ call \in [Calls -> CallStates]
  /\ \A c \in Calls : call[c] # Idle /\ call[c].pc # "create" => call[c].inv \in InvitationIds
  /\ \A c \in Calls : call[c] # Idle /\ call[c].pc \notin {"create", "find"} =>
       call[c].inv \in Existing
  /\ \A c \in Calls : call[c] # Idle /\ call[c].pc \in {"member", "accept"} =>
       call[c].since \in 1..now

\* An invitation is accepted or revoked, never both, and it brought in exactly one
\* membership if it is accepted and none otherwise: of the acceptances and
\* revocations that found it pending one wins, and an acceptance that loses the
\* seat does not use it up.
SettledOnce ==
  \A i \in Existing :
    /\ invs[i].accepted = Never \/ invs[i].revoked = Never
    /\ invs[i].accepted # Never <=> \E p \in joined : p[1] = i
    /\ \A p, r \in joined : p[1] = i /\ r[1] = i => p = r

\* A settled invitation stays as it was settled and admits nobody any more, also
\* not through a request that found it pending before.
SettledForGood ==
  [][\A i \in Existing : invs[i].accepted # Never \/ invs[i].revoked # Never =>
       /\ invs'[i].accepted = invs[i].accepted /\ invs'[i].revoked = invs[i].revoked
       /\ \A p \in joined' : p[1] = i => p \in joined
    ]_allVars

\* A stored delivery status is never more hopeful than what happened to the mail:
\* "sent" means it went out and "unavailable" that it did not.
DeliveryTruthful ==
  \A i \in Existing :
    /\ invs[i].delivery = "sent" => i \in mailed
    /\ invs[i].delivery = "unavailable" => i \notin mailed
=============================================================================
