--------------------- MODULE OrganizationInvitationsProofs ---------------------
(* Proofs about OrganizationInvitations: the invariant of member management   *)
(* survives the composition, and an invitation is settled exactly once.       *)
EXTENDS OrganizationInvitations, OrganizationMembershipProofs

\* What an acceptance relies on: no stored offer, and no offer a suspended request
\* carries, would make an owner, grant a scope its role cannot use or reach an
\* organization that is not there.
OffersSound ==
  /\ \A i \in Existing :
       /\ invs[i].role # "owner" /\ ScopesSupported(invs[i].role, invs[i].scopes)
       /\ creator[invs[i].org] # Nobody
  /\ \A c \in Calls : call[c] # Idle /\ call[c].pc \in {"create", "member", "accept"} =>
       /\ call[c].role # "owner" /\ ScopesSupported(call[c].role, call[c].scopes)
       /\ creator[call[c].org] # Nobody

\* The inductive invariant of the composition.
InvInv == IInv /\ InvTypeOK /\ OffersSound /\ SettledOnce

-----------------------------------------------------------------------------
\* A call that is not idle carries all the fields.
LEMMA ActiveCall ==
  ASSUME InvTypeOK, NEW c \in Calls, call[c] # Idle
  PROVE  /\ call[c] \in [pc : {"create", "mail", "status", "member", "accept", "find", "revoke"},
                         actor : Users, org : Orgs, email : Users, role : Roles,
                         scopes : SUBSET Scopes, held : Roles, since : Nat,
                         inv : InvitationIds \cup {Nobody}, outcome : Deliveries]
         /\ call[c].pc # "create" => call[c].inv \in InvitationIds
         /\ call[c].pc \notin {"create", "find"} => call[c].inv \in Existing
         /\ call[c].pc \in {"member", "accept"} => call[c].since \in 1..now
BY DEF InvTypeOK, CallStates

\* A stored invitation has all its columns.
LEMMA StoredInvitation ==
  ASSUME InvTypeOK, NEW i \in Existing
  PROVE  i \in InvitationIds /\ invs[i] \in Invitations /\ invs[i] # NoRow
BY DEF InvTypeOK, Existing

\* An invitation row differs from no row.
LEMMA RowIsARow == ASSUME NEW v \in Invitations PROVE v # NoRow
BY DEF Invitations, NoRow, Roles

\* Steps of one call that leave memberships and invitations alone.
LEMMA CallKeeps ==
  ASSUME InvInv, UNCHANGED <<membershipVars, invs, joined>>,
         now' = now, mailed' \subseteq Existing,
         NEW c \in Calls, NEW q \in CallStates, call' = [call EXCEPT ![c] = q],
         q # Idle /\ q.pc = "find" => q.inv \in InvitationIds,
         q # Idle /\ q.pc \notin {"create", "find"} => q.inv \in Existing,
         q # Idle /\ q.pc \in {"member", "accept"} => q.since \in 1..now,
         q # Idle /\ q.pc \in {"create", "member", "accept"} =>
           q.role # "owner" /\ ScopesSupported(q.role, q.scopes) /\ creator[q.org] # Nobody
  PROVE  InvInv'
<1>1. IInv'
  BY DEF InvInv, IInv, membershipVars, TypeOK, OneOwner, OneSeat, ScopesFitRole,
         StaleReadsHold, ScopesSupported
<1>2. call' \in [Calls -> CallStates] /\ call'[c] = q
      /\ \A d \in Calls : d # c => call'[d] = call[d]
  BY DEF InvInv, InvTypeOK
<1>3. Existing' = Existing /\ issued' = issued /\ creator' = creator
  BY DEF Existing, membershipVars
<1>4. InvTypeOK'
  <2>1. \A i \in Existing : i \in InvitationIds
    BY DEF Existing
  <2> QED BY <1>2, <1>3, <2>1 DEF InvInv, InvTypeOK
<1>5. OffersSound'
  BY <1>2, <1>3 DEF InvInv, OffersSound, ScopesSupported
<1>6. SettledOnce'
  BY <1>3 DEF InvInv, SettledOnce
<1> QED BY <1>1, <1>4, <1>5, <1>6 DEF InvInv

\* Rewriting the columns of one stored invitation, without touching its offer or
\* whether it is settled, or settling it together with the acceptances.
LEMMA RowKeeps ==
  ASSUME InvInv, IInv', creator' = creator, issued' \in Nat, issued <= issued',
         now' = now, mailed' = mailed,
         NEW c \in Calls, call' = [call EXCEPT ![c] = Idle],
         NEW i \in Existing, NEW v \in Invitations, invs' = [invs EXCEPT ![i] = v],
         v.org = invs[i].org, v.role = invs[i].role, v.scopes = invs[i].scopes,
         joined \subseteq joined', joined' \subseteq Existing \X (1..issued'),
         \A p \in joined' : p[1] # i => p \in joined,
         v.accepted = Never \/ v.revoked = Never,
         v.accepted # Never <=> \E p \in joined' : p[1] = i,
         \A p, r \in joined' : p[1] = i /\ r[1] = i => p = r
  PROVE  InvInv'
<1>1. i \in InvitationIds /\ v # NoRow
  BY StoredInvitation, RowIsARow DEF InvInv
<1>2. invs' \in [InvitationIds -> Invitations \cup {NoRow}] /\ invs'[i] = v
      /\ \A j \in InvitationIds : j # i => invs'[j] = invs[j]
  BY <1>1 DEF InvInv, InvTypeOK
<1>3. Existing' = Existing
  BY <1>1, <1>2 DEF Existing
<1>4. call' \in [Calls -> CallStates] /\ call'[c] = Idle
      /\ \A d \in Calls : d # c => call'[d] = call[d]
  BY DEF InvInv, InvTypeOK, CallStates
<1>5. InvTypeOK'
  BY <1>2, <1>3, <1>4 DEF InvInv, InvTypeOK
<1>6. OffersSound'
  <2>1. \A j \in Existing : /\ invs'[j].role = invs[j].role /\ invs'[j].org = invs[j].org
                            /\ invs'[j].scopes = invs[j].scopes
    BY <1>2, StoredInvitation DEF InvInv
  <2> QED BY <1>3, <1>4, <2>1 DEF InvInv, OffersSound, ScopesSupported
<1>7. SettledOnce'
  <2> SUFFICES ASSUME NEW j \in Existing PROVE SettledOnce!(j)'
    BY <1>3 DEF SettledOnce
  <2>1. CASE j = i
    BY <1>2, <2>1
  <2>2. CASE j # i
    <3>1. invs'[j] = invs[j]
      BY <1>2, <2>2, StoredInvitation DEF InvInv
    <3>2. \A p : p[1] = j => (p \in joined' <=> p \in joined)
      BY <2>2
    <3>3. SettledOnce!(j)
      BY DEF InvInv, SettledOnce
    <3> QED BY <3>1, <3>2, <3>3
  <2> QED BY <2>1, <2>2
<1> QED BY <1>5, <1>6, <1>7 DEF InvInv

\* The membership invariant does not see the invitation variables.
LEMMA MembershipUntouched ==
  ASSUME IInv, UNCHANGED membershipVars PROVE IInv'
BY DEF IInv, membershipVars, TypeOK, OneOwner, OneSeat, ScopesFitRole, StaleReadsHold,
       ScopesSupported

\* Inviting: the offer is sound when it is made, and stays as it was made.
LEMMA InviteKeeps ==
  ASSUME InvInv, NEW c \in Calls, BeginInvite(c) PROVE InvInv'
<1> USE MembershipAssumption
<1>1. PICK actor \in Users, email \in Users, org \in Orgs, role \in OfferedRoles,
           scopes \in OfferedScopes :
        \E m \in MembershipOf(actor, org) :
          /\ InviterMayOffer(m, role)
          /\ OfferableScopes(role, scopes)
          /\ Becomes(c, [pc |-> "create", actor |-> actor, org |-> org, email |-> email,
                        role |-> role, scopes |-> scopes, held |-> m.role,
                        inv |-> Nobody, since |-> 0, outcome |-> "failed"])
  BY DEF BeginInvite
<1>2. PICK m \in members :
        /\ m.org = org /\ InviterMayOffer(m, role) /\ OfferableScopes(role, scopes)
        /\ Becomes(c, [pc |-> "create", actor |-> actor, org |-> org, email |-> email,
                        role |-> role, scopes |-> scopes, held |-> m.role,
                        inv |-> Nobody, since |-> 0, outcome |-> "failed"])
  BY <1>1 DEF MembershipOf
<1> DEFINE q == [pc |-> "create", actor |-> actor, org |-> org, email |-> email,
                 role |-> role, scopes |-> scopes, held |-> m.role,
                 inv |-> Nobody, since |-> 0, outcome |-> "failed"]
<1>3. m \in Memberships
  BY DEF InvInv, IInv, TypeOK
<1>4. q \in CallStates /\ q.pc = "create" /\ q.role = role /\ q.scopes = scopes /\ q.org = org
  BY <1>3 DEF CallStates, Memberships, Deliveries
<1>5. role # "owner" /\ ScopesSupported(role, scopes) /\ creator[org] # Nobody
  BY <1>2, <1>3, OwnerIsNotAssigned
     DEF InviterMayOffer, OfferableScopes, ScopesSupported, Memberships, InvInv, IInv, OneOwner
<1>6. /\ UNCHANGED <<membershipVars, invs, joined>> /\ now' = now /\ mailed' = mailed
  BY DEF BeginInvite
<1>7. call' = [call EXCEPT ![c] = q]
  BY <1>2 DEF Becomes
<1> HIDE DEF q
<1> QED BY <1>4, <1>5, <1>6, <1>7, CallKeeps DEF InvInv, InvTypeOK

\* The insertion of an invitation.
LEMMA CreationKeeps ==
  ASSUME InvInv, NEW c \in Calls, CreateInvitation(c) PROVE InvInv'
<1> USE InvitationAssumption
<1> DEFINE q == call[c]
           v == [org |-> q.org, email |-> q.email, role |-> q.role, scopes |-> q.scopes,
                 expires |-> now + Lifetime, accepted |-> Never, revoked |-> Never,
                 delivery |-> "none"]
<1>1. PICK i \in InvitationIds :
        /\ invs[i] = NoRow
        /\ invs' = [invs EXCEPT ![i] = v]
        /\ call' = [call EXCEPT ![c] = [q EXCEPT !.pc = "mail", !.inv = i]]
  BY DEF CreateInvitation, Becomes
<1>2. q.pc = "create" /\ UNCHANGED <<membershipVars, now, mailed, joined>>
  BY DEF CreateInvitation
<1>3. q # Idle
  BY <1>2 DEF Idle
<1>4. v \in Invitations /\ v # NoRow
  <2>1. v \in Invitations
    BY <1>3, ActiveCall DEF InvInv, InvTypeOK, Invitations, Never
  <2> QED BY <2>1, RowIsARow
<1>5. invs' \in [InvitationIds -> Invitations \cup {NoRow}] /\ invs'[i] = v
      /\ \A j \in InvitationIds : j # i => invs'[j] = invs[j]
  BY <1>1, <1>4 DEF InvInv, InvTypeOK
<1>6. Existing' = Existing \cup {i} /\ i \notin Existing
  BY <1>1, <1>4, <1>5 DEF Existing
<1>7. [q EXCEPT !.pc = "mail", !.inv = i] \in CallStates
  BY <1>3, ActiveCall DEF InvInv, CallStates
<1>8. call' \in [Calls -> CallStates] /\ call'[c].pc = "mail" /\ call'[c].inv = i
      /\ \A d \in Calls : d # c => call'[d] = call[d]
  BY <1>1, <1>3, <1>7, ActiveCall DEF InvInv, InvTypeOK
<1>9. issued' = issued /\ creator' = creator
  BY <1>2 DEF membershipVars
<1>10. InvTypeOK'
  BY <1>2, <1>5, <1>6, <1>8, <1>9 DEF InvInv, InvTypeOK
<1>11. OffersSound'
  <2>1. /\ v.role # "owner" /\ ScopesSupported(v.role, v.scopes)
        /\ creator[v.org] # Nobody
    BY <1>2, <1>3 DEF InvInv, OffersSound
  <2>2. \A j \in Existing : j \in InvitationIds /\ j # i
    BY <1>6 DEF Existing
  <2> HIDE DEF v
  <2> QED BY <1>5, <1>6, <1>8, <1>9, <2>1, <2>2 DEF InvInv, OffersSound, ScopesSupported
<1>12. SettledOnce'
  <2>1. \A p \in joined : p[1] \in Existing
    BY DEF InvInv, InvTypeOK
  <2>2. \A j \in Existing : invs'[j] = invs[j]
    BY <1>5, <1>6 DEF Existing
  <2>3. invs'[i].accepted = Never /\ invs'[i].revoked = Never
    BY <1>5
  <2> QED BY <1>2, <1>6, <2>1, <2>2, <2>3 DEF InvInv, SettledOnce
<1> QED BY <1>2, <1>10, <1>11, <1>12, MembershipUntouched DEF InvInv

\* Mailing, and storing the outcome.
LEMMA DeliveryKeeps ==
  ASSUME InvInv, NEW c \in Calls, SendInvitation(c) \/ PersistDelivery(c) PROVE InvInv'
<1> DEFINE q == call[c]
<1>1. CASE SendInvitation(c)
  <2>1. PICK outcome \in Deliveries :
          /\ call' = [call EXCEPT ![c] = [q EXCEPT !.pc = "status", !.outcome = outcome]]
          /\ mailed' \subseteq mailed \cup {q.inv}
    BY <1>1 DEF SendInvitation, Becomes
  <2>2. q.pc = "mail" /\ UNCHANGED <<membershipVars, invs, now, joined>>
    BY <1>1 DEF SendInvitation
  <2>3. q # Idle
    BY <2>2 DEF Idle
  <2> DEFINE n == [q EXCEPT !.pc = "status", !.outcome = outcome]
  <2>4. n \in CallStates /\ n.pc = "status" /\ n.inv = q.inv /\ q.inv \in Existing
    BY <2>2, <2>3, ActiveCall DEF InvInv, CallStates
  <2> HIDE DEF n
  <2> QED BY <2>1, <2>2, <2>4, CallKeeps DEF InvInv, InvTypeOK, n
<1>2. CASE PersistDelivery(c)
  <2>1. /\ q.pc = "status" /\ UNCHANGED <<membershipVars, now, mailed, joined>>
        /\ call' = [call EXCEPT ![c] = Idle]
    BY <1>2 DEF PersistDelivery, Becomes
  <2>2. q # Idle
    BY <2>1 DEF Idle
  <2>3. q.inv \in Existing /\ q.outcome \in Deliveries
    BY <2>1, <2>2, ActiveCall DEF InvInv
  <2>5. CASE UNCHANGED invs
    BY <2>1, <2>5, CallKeeps DEF InvInv, InvTypeOK, CallStates
  <2>6. CASE invs' = [invs EXCEPT ![q.inv].delivery = q.outcome]
    <3> DEFINE v == [invs[q.inv] EXCEPT !.delivery = q.outcome]
    <3>1. invs[q.inv] \in Invitations /\ q.inv \in InvitationIds
      BY <2>3, StoredInvitation DEF InvInv
    <3>2. invs' = [invs EXCEPT ![q.inv] = v]
      BY <2>6
    <3>3. /\ v \in Invitations /\ v.org = invs[q.inv].org /\ v.role = invs[q.inv].role
          /\ v.scopes = invs[q.inv].scopes /\ v.accepted = invs[q.inv].accepted
          /\ v.revoked = invs[q.inv].revoked
      BY <2>3, <3>1 DEF Invitations
    <3>4. SettledOnce!(q.inv)
      BY <2>3 DEF InvInv, SettledOnce
    <3>5. /\ issued' = issued /\ issued \in Nat /\ creator' = creator /\ joined' = joined
          /\ joined \subseteq Existing \X (1..issued)
      BY <2>1 DEF membershipVars, InvInv, IInv, TypeOK, InvTypeOK
    <3>6. IInv'
      BY <2>1, MembershipUntouched DEF InvInv
    <3> HIDE DEF v
    <3>7. issued' \in Nat /\ issued <= issued' /\ now' = now /\ mailed' = mailed
      BY <2>1, <3>5
    <3>8. /\ joined \subseteq joined' /\ joined' \subseteq Existing \X (1..issued')
          /\ \A p \in joined' : p[1] # q.inv => p \in joined
          /\ v.accepted = Never \/ v.revoked = Never
          /\ v.accepted # Never <=> \E p \in joined' : p[1] = q.inv
          /\ \A p, r \in joined' : p[1] = q.inv /\ r[1] = q.inv => p = r
      BY <3>3, <3>4, <3>5
    <3>9. call' = [call EXCEPT ![c] = Idle]
      BY <2>1
    <3> HIDE DEF q
    <3> QED BY <2>3, <3>2, <3>3, <3>5, <3>6, <3>7, <3>8, <3>9, RowKeeps, Zenon
  <2> QED BY <1>2, <2>5, <2>6 DEF PersistDelivery
<1> QED BY <1>1, <1>2

\* An acceptance starts with the offer of a stored, mailed invitation, and goes on
\* only when the user is not a member.
LEMMA AcceptStartKeeps ==
  ASSUME InvInv, NEW c \in Calls, BeginAccept(c) \/ CheckMember(c) PROVE InvInv'
<1> USE MembershipAssumption
<1>1. CASE BeginAccept(c)
  <2>1. PICK actor \in Users, i \in mailed :
          call' = [call EXCEPT ![c] =
             [pc |-> "member", actor |-> actor, org |-> invs[i].org,
              email |-> actor, role |-> invs[i].role, scopes |-> invs[i].scopes,
              held |-> "viewer", inv |-> i, since |-> now, outcome |-> "failed"]]
    BY <1>1 DEF BeginAccept, Becomes
  <2>2. UNCHANGED <<membershipVars, invs, now, mailed, joined>>
    BY <1>1 DEF BeginAccept
  <2> DEFINE n == [pc |-> "member", actor |-> actor, org |-> invs[i].org,
              email |-> actor, role |-> invs[i].role, scopes |-> invs[i].scopes,
              held |-> "viewer", inv |-> i, since |-> now, outcome |-> "failed"]
  <2>3. i \in Existing /\ i \in InvitationIds /\ invs[i] \in Invitations
    BY StoredInvitation DEF InvInv, InvTypeOK
  <2>4. n \in CallStates
    BY <2>3 DEF InvInv, InvTypeOK, CallStates, Invitations, Deliveries, Roles
  <2>5. /\ invs[i].role # "owner" /\ ScopesSupported(invs[i].role, invs[i].scopes)
        /\ creator[invs[i].org] # Nobody
    BY <2>3 DEF InvInv, OffersSound
  <2>6. n.pc = "member" /\ n.inv = i /\ n.role = invs[i].role /\ n.scopes = invs[i].scopes
        /\ n.org = invs[i].org /\ n.since = now /\ now \in 1..now
    BY DEF InvInv, InvTypeOK
  <2> HIDE DEF n
  <2> QED BY <2>1, <2>2, <2>3, <2>4, <2>5, <2>6, CallKeeps DEF InvInv, InvTypeOK, n
<1>2. CASE CheckMember(c)
  <2> DEFINE q == call[c]
             n == [q EXCEPT !.pc = "accept"]
  <2>1. q.pc = "member" /\ UNCHANGED <<membershipVars, invs, now, mailed, joined>>
    BY <1>2 DEF CheckMember
  <2>2. q # Idle
    BY <2>1 DEF Idle
  <2>3. /\ n \in CallStates /\ n.pc = "accept" /\ n.inv = q.inv /\ q.inv \in Existing
        /\ n.role = q.role /\ n.scopes = q.scopes /\ n.org = q.org
        /\ n.since = q.since /\ q.since \in 1..now
    BY <2>1, <2>2, ActiveCall DEF InvInv, CallStates
  <2>4. q.role # "owner" /\ ScopesSupported(q.role, q.scopes) /\ creator[q.org] # Nobody
    BY <2>1, <2>2 DEF InvInv, OffersSound
  <2> HIDE DEF n
  <2>5. CASE call' = [call EXCEPT ![c] = n]
    BY <2>1, <2>3, <2>4, <2>5, CallKeeps DEF InvInv, InvTypeOK
  <2>6. CASE call' = [call EXCEPT ![c] = Idle]
    BY <2>1, <2>6, CallKeeps DEF InvInv, InvTypeOK, CallStates
  <2> QED BY <1>2, <2>5, <2>6 DEF CheckMember, Becomes, n
<1> QED BY <1>1, <1>2

\* The acceptance: the mark and the membership, or neither.
LEMMA AcceptKeeps ==
  ASSUME InvInv, NEW c \in Calls, WriteAccept(c) PROVE InvInv'
<1> USE MembershipAssumption
<1> DEFINE q == call[c]
<1>1. /\ q.pc = "accept" /\ UNCHANGED <<creator, req, now, mailed>>
      /\ call' = [call EXCEPT ![c] = Idle]
  BY DEF WriteAccept, Becomes
<1>2. q # Idle
  BY <1>1 DEF Idle
<1>3. /\ q.inv \in Existing /\ q.org \in Orgs /\ q.actor \in Users /\ q.role \in Roles
      /\ q.scopes \in SUBSET Scopes /\ q.since \in Nat
  BY <1>1, <1>2, ActiveCall DEF InvInv
<1>4. q.role # "owner" /\ ScopesSupported(q.role, q.scopes) /\ creator[q.org] # Nobody
  BY <1>1, <1>2 DEF InvInv, OffersSound
<1>5. CASE UNCHANGED <<members, issued, invs, joined>>
  BY <1>1, <1>5, CallKeeps DEF InvInv, InvTypeOK, CallStates, membershipVars
<1>6. CASE /\ Accepts(q) /\ SeatFree(q.actor, q.org)
           /\ InsertMember(q.org, q.actor, q.role, q.scopes)
           /\ invs' = [invs EXCEPT ![q.inv].accepted = q.since]
           /\ joined' = joined \cup {<<q.inv, issued + 1>>}
  <2> DEFINE v == [invs[q.inv] EXCEPT !.accepted = q.since]
  <2>1. IInv'
    BY <1>1, <1>3, <1>4, <1>6, InsertKeeps DEF InvInv, IInv, TypeOK
  <2>2. invs[q.inv] \in Invitations /\ q.inv \in InvitationIds
    BY <1>3, StoredInvitation DEF InvInv
  <2>3. /\ v \in Invitations /\ v.org = invs[q.inv].org /\ v.role = invs[q.inv].role
        /\ v.scopes = invs[q.inv].scopes /\ v.accepted = q.since
        /\ v.revoked = invs[q.inv].revoked
    BY <1>3, <2>2 DEF Invitations
  <2>4. invs[q.inv].accepted = Never /\ v.revoked = Never
    BY <1>6, <2>3 DEF Accepts, PendingAt, Open
  <2>5. q.since # Never
    BY <1>1, <1>2, ActiveCall DEF InvInv, Never
  <2>6. \A p \in joined : p[1] # q.inv
    BY <1>3, <2>4 DEF InvInv, SettledOnce
  <2>7. issued' = issued + 1 /\ issued \in Nat
    BY <1>6 DEF InsertMember, InvInv, IInv, TypeOK
  <2>8. joined' \subseteq Existing \X (1..issued') /\ joined \subseteq joined'
    BY <1>3, <1>6, <2>7 DEF InvInv, InvTypeOK
  <2>9. invs' = [invs EXCEPT ![q.inv] = v]
    BY <1>6
  <2>11. /\ \A p \in joined' : p[1] # q.inv => p \in joined
         /\ \E p \in joined' : p[1] = q.inv
         /\ \A p, r \in joined' : p[1] = q.inv /\ r[1] = q.inv => p = r
    <3> DEFINE e == <<q.inv, issued + 1>>
    <3>1. e[1] = q.inv /\ joined' = joined \cup {e}
      BY <1>6
    <3> HIDE DEF e
    <3> QED BY <2>6, <3>1
  <2> HIDE DEF v
  <2>12. /\ issued' \in Nat /\ issued <= issued' /\ now' = now /\ mailed' = mailed
         /\ creator' = creator /\ call' = [call EXCEPT ![c] = Idle]
    BY <1>1, <2>7
  <2>13. v.accepted # Never /\ v.revoked = Never
    BY <2>3, <2>4, <2>5
  <2> HIDE DEF q
  <2> QED BY <1>3, <2>1, <2>3, <2>8, <2>9, <2>11, <2>12, <2>13, RowKeeps, Zenon
<1> QED BY <1>5, <1>6 DEF WriteAccept

\* Revoking marks an open invitation, or nothing.
LEMMA RevokeKeeps ==
  ASSUME InvInv, NEW c \in Calls, BeginRevoke(c) \/ FindToRevoke(c) \/ WriteRevoke(c)
  PROVE  InvInv'
<1> USE MembershipAssumption
<1> DEFINE q == call[c]
<1>1. CASE BeginRevoke(c)
  <2>1. PICK actor \in Users, org \in Orgs, i \in InvitationIds :
          \E m \in MembershipOf(actor, org) :
            Becomes(c, [pc |-> "find", actor |-> actor, org |-> org, email |-> actor,
                        role |-> "viewer", scopes |-> {}, held |-> m.role,
                        inv |-> i, since |-> 0, outcome |-> "failed"])
    BY <1>1 DEF BeginRevoke
  <2>2. PICK m \in members :
          call' = [call EXCEPT ![c] =
                    [pc |-> "find", actor |-> actor, org |-> org, email |-> actor,
                     role |-> "viewer", scopes |-> {}, held |-> m.role,
                     inv |-> i, since |-> 0, outcome |-> "failed"]]
    BY <2>1 DEF MembershipOf, Becomes
  <2> DEFINE n == [pc |-> "find", actor |-> actor, org |-> org, email |-> actor,
                   role |-> "viewer", scopes |-> {}, held |-> m.role,
                   inv |-> i, since |-> 0, outcome |-> "failed"]
  <2>3. m \in Memberships
    BY DEF InvInv, IInv, TypeOK
  <2>4. n \in CallStates /\ n.pc = "find" /\ n.inv = i
    BY <2>3 DEF CallStates, Memberships, Deliveries, Roles
  <2>5. UNCHANGED <<membershipVars, invs, now, mailed, joined>>
    BY <1>1 DEF BeginRevoke
  <2> HIDE DEF n
  <2> QED BY <2>2, <2>4, <2>5, CallKeeps DEF InvInv, InvTypeOK, n
<1>2. CASE FindToRevoke(c)
  <2> DEFINE n == [q EXCEPT !.pc = "revoke"]
  <2>1. /\ q.pc = "find"
        /\ UNCHANGED <<membershipVars, invs, now, mailed, joined>>
    BY <1>2 DEF FindToRevoke
  <2>2. q # Idle
    BY <2>1 DEF Idle
  <2>3. n \in CallStates /\ n.pc = "revoke" /\ n.inv = q.inv /\ q.inv \in InvitationIds
    BY <2>1, <2>2, ActiveCall DEF InvInv, CallStates
  <2> HIDE DEF n
  <2>4. CASE MayRevoke(q)
    <3>1. q.inv \in Existing
      BY <2>3, <2>4 DEF Existing, MayRevoke
    <3>2. call' = [call EXCEPT ![c] = n]
      BY <1>2, <2>4 DEF FindToRevoke, Becomes, n
    <3> QED BY <2>1, <2>3, <3>1, <3>2, CallKeeps DEF InvInv, InvTypeOK
  <2>5. CASE ~MayRevoke(q)
    <3>1. call' = [call EXCEPT ![c] = Idle]
      BY <1>2, <2>5 DEF FindToRevoke, Becomes
    <3> QED BY <2>1, <3>1, CallKeeps DEF InvInv, InvTypeOK, CallStates
  <2> QED BY <2>4, <2>5
<1>3. CASE WriteRevoke(c)
  <2>1. /\ q.pc = "revoke" /\ UNCHANGED <<membershipVars, now, mailed, joined>>
        /\ call' = [call EXCEPT ![c] = Idle]
    BY <1>3 DEF WriteRevoke, Becomes
  <2>2. q # Idle
    BY <2>1 DEF Idle
  <2>3. q.inv \in Existing
    BY <2>1, <2>2, ActiveCall DEF InvInv
  <2>4. CASE UNCHANGED invs
    BY <2>1, <2>4, CallKeeps DEF InvInv, InvTypeOK, CallStates
  <2>5. CASE Revokes(q) /\ invs' = [invs EXCEPT ![q.inv].revoked = now]
    <3> DEFINE v == [invs[q.inv] EXCEPT !.revoked = now]
    <3>1. invs[q.inv] \in Invitations /\ q.inv \in InvitationIds /\ now \in Nat
      BY <2>3, StoredInvitation DEF InvInv, InvTypeOK
    <3>2. invs' = [invs EXCEPT ![q.inv] = v]
      BY <2>5
    <3>3. /\ v \in Invitations /\ v.org = invs[q.inv].org /\ v.role = invs[q.inv].role
          /\ v.scopes = invs[q.inv].scopes /\ v.accepted = invs[q.inv].accepted
      BY <2>3, <3>1 DEF Invitations
    <3>4. v.accepted = Never
      BY <2>5, <3>3 DEF Revokes, PendingAt, Open
    <3>5. SettledOnce!(q.inv)
      BY <2>3 DEF InvInv, SettledOnce
    <3>6. /\ issued' = issued /\ issued \in Nat /\ creator' = creator /\ joined' = joined
          /\ joined \subseteq Existing \X (1..issued)
      BY <2>1 DEF membershipVars, InvInv, IInv, TypeOK, InvTypeOK
    <3>7. IInv'
      BY <2>1, MembershipUntouched DEF InvInv
    <3> HIDE DEF v
    <3>8. issued' \in Nat /\ issued <= issued' /\ now' = now /\ mailed' = mailed
      BY <2>1, <3>6
    <3>9. /\ joined \subseteq joined' /\ joined' \subseteq Existing \X (1..issued')
          /\ \A p \in joined' : p[1] # q.inv => p \in joined
          /\ v.accepted # Never <=> \E p \in joined' : p[1] = q.inv
          /\ \A p, r \in joined' : p[1] = q.inv /\ r[1] = q.inv => p = r
      BY <3>3, <3>5, <3>6
    <3>10. call' = [call EXCEPT ![c] = Idle]
      BY <2>1
    <3> HIDE DEF q
    <3> QED BY <2>3, <3>2, <3>3, <3>4, <3>6, <3>7, <3>8, <3>9, <3>10, RowKeeps, Zenon
  <2> QED BY <1>3, <2>4, <2>5 DEF WriteRevoke
<1> QED BY <1>1, <1>2, <1>3

\* A step of member management: organizations do not disappear, identifiers grow.
LEMMA ManagementKeeps ==
  ASSUME InvInv, Next, UNCHANGED invitationVars PROVE InvInv'
<1>1. IInv'
  BY InvariantStep DEF InvInv
<1>2. issued' \in Nat /\ issued <= issued' /\ issued \in Nat
  <2>1. issued \in Nat
    BY DEF InvInv, IInv, TypeOK
  <2>2. issued' = issued \/ issued' = issued + 1
    <3>1. ASSUME NEW u \in Users, NEW o \in Orgs, CreateOrganization(u, o) PROVE <2>2
      BY <3>1 DEF CreateOrganization, InsertMember
    <3>2. ASSUME NEW r \in Requests, WriteAdd(r) PROVE <2>2
      BY <3>2 DEF WriteAdd, InsertMember
    <3>3. ASSUME NEW r \in Requests, WriteUpdate(r) \/ WriteRemove(r) \/ ReadTarget(r)
                                      \/ Decide(r) \/ Abandon(r)
          PROVE <2>2
      BY <3>3 DEF WriteUpdate, WriteRemove, ReadTarget, Decide, Abandon
    <3>4. ASSUME NEW r \in Requests, BeginAdd(r) \/ BeginUpdate(r) \/ BeginRemove(r)
                                      \/ BeginAuthorize(r)
          PROVE <2>2
      BY <3>4 DEF BeginAdd, BeginUpdate, BeginRemove, BeginAuthorize
    <3> QED BY <3>1, <3>2, <3>3, <3>4 DEF Next, Step
  <2> QED BY <2>1, <2>2
<1>3. \A o \in Orgs : creator[o] # Nobody => creator'[o] # Nobody
  <2>1. ASSUME NEW u \in Users, NEW o \in Orgs, CreateOrganization(u, o) PROVE <1>3
    BY <2>1, MembershipAssumption DEF CreateOrganization, InvInv, IInv, TypeOK
  <2>2. ASSUME NEW r \in Requests, Step(r) PROVE creator' = creator
    <3>1. CASE WriteAdd(r) \/ WriteUpdate(r) \/ WriteRemove(r) \/ ReadTarget(r)
               \/ Decide(r) \/ Abandon(r)
      BY <3>1 DEF WriteAdd, WriteUpdate, WriteRemove, ReadTarget, Decide, Abandon
    <3>2. CASE BeginAdd(r) \/ BeginUpdate(r) \/ BeginRemove(r) \/ BeginAuthorize(r)
      BY <3>2 DEF BeginAdd, BeginUpdate, BeginRemove, BeginAuthorize
    <3> QED BY <2>2, <3>1, <3>2 DEF Step
  <2> QED BY <2>1, <2>2 DEF Next
<1>4. Existing' = Existing /\ UNCHANGED <<invs, now, mailed, joined, call>>
  BY DEF Existing, invitationVars
<1>5. InvTypeOK'
  <2>1. joined \subseteq Existing \X (1..issued')
    BY <1>2 DEF InvInv, InvTypeOK
  <2> QED BY <1>4, <2>1 DEF InvInv, InvTypeOK
<1>6. OffersSound'
  <2>1. \A i \in Existing : invs[i].org \in Orgs
    BY StoredInvitation DEF InvInv, Invitations
  <2>2. \A c \in Calls : call[c] # Idle => call[c].org \in Orgs
    BY ActiveCall DEF InvInv
  <2> QED BY <1>3, <1>4, <2>1, <2>2 DEF InvInv, OffersSound, ScopesSupported
<1>7. SettledOnce'
  BY <1>4 DEF InvInv, SettledOnce
<1> QED BY <1>1, <1>5, <1>6, <1>7 DEF InvInv

\* Time passes.
LEMMA TickKeeps == ASSUME InvInv, Tick PROVE InvInv'
<1>1. IInv'
  BY MembershipUntouched DEF Tick, InvInv
<1>2. /\ Existing' = Existing /\ UNCHANGED <<invs, mailed, joined, call>>
      /\ now \in Nat \ {0} /\ now' = now + 1 /\ issued' = issued /\ creator' = creator
  BY DEF Existing, Tick, InvInv, InvTypeOK, membershipVars
<1>3. InvTypeOK'
  <2>1. \A c \in Calls : call[c] # Idle /\ call[c].pc \in {"member", "accept"} =>
          call[c].since \in 1..(now + 1)
    BY <1>2, ActiveCall DEF InvInv
  <2> QED BY <1>2, <2>1 DEF InvInv, InvTypeOK
<1>4. OffersSound' /\ SettledOnce'
  BY <1>2 DEF InvInv, OffersSound, SettledOnce, ScopesSupported
<1> QED BY <1>1, <1>3, <1>4 DEF InvInv

-----------------------------------------------------------------------------
(* The theorems.                                                             *)

\* Every step of the composition keeps the invariant.
LEMMA CompositionStep == InvInv /\ [InvNext]_allVars => InvInv'
<1> SUFFICES ASSUME InvInv, [InvNext]_allVars PROVE InvInv'
  OBVIOUS
<1>1. ASSUME NEW c \in Calls, CallStep(c) PROVE InvInv'
  <2>1. CASE AbandonCall(c)
    BY <2>1, CallKeeps DEF AbandonCall, Becomes, InvInv, InvTypeOK, CallStates
  <2> QED BY <1>1, <2>1, InviteKeeps, CreationKeeps, DeliveryKeeps, AcceptStartKeeps,
             AcceptKeeps, RevokeKeeps DEF CallStep
<1>2. CASE UNCHANGED allVars
  <2>1. IInv'
    BY <1>2, MembershipUntouched DEF allVars, InvInv
  <2>2. Existing' = Existing /\ UNCHANGED <<invs, now, mailed, joined, call, creator, issued>>
    BY <1>2 DEF allVars, membershipVars, invitationVars, Existing
  <2> QED BY <2>1, <2>2 DEF InvInv, InvTypeOK, OffersSound, SettledOnce, ScopesSupported
<1> QED BY <1>1, <1>2, ManagementKeeps, TickKeeps DEF InvNext

\* The invariant of the composition holds in every reachable state.
THEOREM CompositionInductive == InvSpec => []InvInv
<1>1. InvInit => InvInv
  <2> SUFFICES ASSUME InvInit PROVE InvInv
    OBVIOUS
  <2>1. IInv
    <3>1. \A r \in Requests : req[r] = Idle
      BY DEF InvInit, Init
    <3> QED BY <3>1 DEF InvInit, Init, IInv, TypeOK, OneOwner, OneSeat, ScopesFitRole,
                        StaleReadsHold, RequestStates
  <2>2. Existing = {} /\ \A c \in Calls : call[c] = Idle
    BY DEF InvInit, Existing
  <2> QED BY <2>1, <2>2 DEF InvInit, InvInv, InvTypeOK, OffersSound, SettledOnce, CallStates
<1> QED BY <1>1, CompositionStep, PTL DEF InvSpec

\* With invitations running beside member management every organization still has
\* its creator as its one owner, seats are unique and scopes fit their roles, although
\* an acceptance does not look again at the authority of the inviter.
THEOREM OwnerSurvivesInvitations == InvSpec => [](OneOwner /\ OneSeat /\ ScopesFitRole)
BY CompositionInductive, PTL DEF InvInv, IInv

\* Invitations, deliveries and suspended invitation requests keep their types
\* (organization_invitations and the three invitation use cases).
THEOREM InvitationTypes == InvSpec => []InvTypeOK
BY CompositionInductive, PTL DEF InvInv

\* Racing acceptances and revocations settle an invitation at most once, and an
\* accepted one brought in exactly one membership (accept, revoke).
THEOREM InvitationSettledOnce == InvSpec => []SettledOnce
BY CompositionInductive, PTL DEF InvInv

-----------------------------------------------------------------------------
(* The delivery of the mail.                                                 *)

\* Between the insertion and the status only one call knows the invitation, so nobody
\* else mails it or stores its status.
DeliveryInv ==
  /\ DeliveryTruthful
  /\ \A c \in Calls : call[c].pc = "mail" =>
       call[c].inv \notin mailed /\ invs[call[c].inv].delivery = "none"
  /\ \A c \in Calls : call[c].pc = "status" =>
       /\ call[c].outcome = "sent" => call[c].inv \in mailed
       /\ call[c].outcome = "unavailable" => call[c].inv \notin mailed
       /\ invs[call[c].inv].delivery = "none"
  /\ \A c, d \in Calls :
       call[c].pc \in {"mail", "status"} /\ call[d].pc \in {"mail", "status"} =>
         (call[c].inv = call[d].inv => c = d)

\* A step that leaves the mail and its status alone.
LEMMA DeliveryFrame ==
  ASSUME InvInv, DeliveryInv, Existing' = Existing, mailed' = mailed,
         \A i \in Existing : invs'[i].delivery = invs[i].delivery,
         \A c \in Calls : call'[c] = call[c] \/ call'[c].pc \notin {"mail", "status"}
  PROVE  DeliveryInv'
<1>1. \A c \in Calls : call[c].pc \in {"mail", "status"} => call[c].inv \in Existing
  BY ActiveCall DEF InvInv, Idle
<1>2. DeliveryTruthful'
  BY DEF DeliveryInv, DeliveryTruthful
<1>3. \A c \in Calls : call'[c].pc \in {"mail", "status"} =>
        /\ call'[c] = call[c]
        /\ invs'[call[c].inv].delivery = invs[call[c].inv].delivery
  BY <1>1
<1>4. \A c \in Calls : call'[c].pc = "mail" =>
        call'[c].inv \notin mailed' /\ invs'[call'[c].inv].delivery = "none"
  BY <1>3 DEF DeliveryInv
<1>5. \A c \in Calls : call'[c].pc = "status" =>
        /\ call'[c].outcome = "sent" => call'[c].inv \in mailed'
        /\ call'[c].outcome = "unavailable" => call'[c].inv \notin mailed'
        /\ invs'[call'[c].inv].delivery = "none"
  BY <1>3 DEF DeliveryInv
<1>6. \A c, d \in Calls :
        call'[c].pc \in {"mail", "status"} /\ call'[d].pc \in {"mail", "status"} =>
          (call'[c].inv = call'[d].inv => c = d)
  BY <1>3 DEF DeliveryInv
<1> QED BY <1>2, <1>4, <1>5, <1>6 DEF DeliveryInv

\* The calls that are not concerned with a mail, and the steps of others.
LEMMA DeliveryUntouched ==
  ASSUME InvInv, DeliveryInv, NEW c \in Calls, NEW q, call' = [call EXCEPT ![c] = q],
         q.pc \notin {"mail", "status"}, mailed' = mailed, invs' = invs
  PROVE  DeliveryInv'
<1>1. \A d \in Calls : call'[d] = call[d] \/ call'[d].pc \notin {"mail", "status"}
  BY DEF InvInv, InvTypeOK
<1>2. Existing' = Existing
  BY DEF Existing
<1> QED BY <1>1, <1>2, DeliveryFrame

\* A new invitation was neither mailed nor known to another call.
LEMMA DeliveryCreated ==
  ASSUME InvInv, DeliveryInv, NEW c \in Calls, CreateInvitation(c)
  PROVE  DeliveryInv'
<1> DEFINE q == call[c]
<1>1. PICK i \in InvitationIds :
        /\ invs[i] = NoRow
        /\ invs' = [invs EXCEPT ![i] =
             [org |-> q.org, email |-> q.email, role |-> q.role, scopes |-> q.scopes,
              expires |-> now + Lifetime, accepted |-> Never, revoked |-> Never,
              delivery |-> "none"]]
        /\ Becomes(c, [q EXCEPT !.pc = "mail", !.inv = i])
  BY DEF CreateInvitation
<1> DEFINE n == [q EXCEPT !.pc = "mail", !.inv = i]
<1>2. q.pc = "create" /\ mailed' = mailed /\ q # Idle
  BY DEF CreateInvitation, Idle
<1>3. n.pc = "mail" /\ n.inv = i
  BY <1>2, ActiveCall DEF InvInv
<1>4. i \notin Existing /\ i \notin mailed
  BY <1>1 DEF Existing, InvInv, InvTypeOK
<1>5. /\ invs'[i].delivery = "none"
      /\ \A j \in InvitationIds \ {i} : invs'[j] = invs[j]
  BY <1>1 DEF InvInv, InvTypeOK
<1>6. Existing' \subseteq Existing \cup {i} /\ Existing \subseteq InvitationIds
  BY <1>5 DEF Existing
<1>7. \A d \in Calls : call[d].pc \in {"mail", "status"} => call[d].inv \in Existing
  BY ActiveCall DEF InvInv, Idle
<1>8. \A d \in Calls : call'[d] = IF d = c THEN n ELSE call[d]
  BY <1>1 DEF Becomes, InvInv, InvTypeOK
<1> HIDE DEF n, q
<1>9. DeliveryTruthful'
  <2>1. \A j \in Existing' : j # i => j \in Existing /\ invs'[j] = invs[j]
    BY <1>5, <1>6
  <2> QED BY <1>2, <1>5, <2>1 DEF DeliveryInv, DeliveryTruthful
<1>10. \A d \in Calls : d # c /\ call[d].pc \in {"mail", "status"} =>
         call[d].inv # i /\ invs'[call[d].inv] = invs[call[d].inv]
  BY <1>4, <1>5, <1>6, <1>7
<1>11. \A d \in Calls : call'[d].pc = "mail" =>
         call'[d].inv \notin mailed' /\ invs'[call'[d].inv].delivery = "none"
  BY <1>2, <1>3, <1>4, <1>5, <1>8, <1>10 DEF DeliveryInv
<1>12. \A d \in Calls : call'[d].pc = "status" =>
         /\ call'[d].outcome = "sent" => call'[d].inv \in mailed'
         /\ call'[d].outcome = "unavailable" => call'[d].inv \notin mailed'
         /\ invs'[call'[d].inv].delivery = "none"
  BY <1>2, <1>3, <1>8, <1>10 DEF DeliveryInv
<1>13. \A d, e \in Calls :
         call'[d].pc \in {"mail", "status"} /\ call'[e].pc \in {"mail", "status"} =>
           (call'[d].inv = call'[e].inv => d = e)
  BY <1>3, <1>8, <1>10 DEF DeliveryInv
<1> QED BY <1>9, <1>11, <1>12, <1>13 DEF DeliveryInv

\* The notifier is called for an invitation that nobody mailed before.
LEMMA DeliverySent ==
  ASSUME InvInv, DeliveryInv, NEW c \in Calls, SendInvitation(c)
  PROVE  DeliveryInv'
<1> DEFINE q == call[c]
<1>1. PICK outcome \in Deliveries :
        /\ Becomes(c, [q EXCEPT !.pc = "status", !.outcome = outcome])
        /\ \/ outcome # "unavailable" /\ mailed' = mailed \cup {q.inv}
           \/ outcome # "sent" /\ UNCHANGED mailed
  BY DEF SendInvitation
<1> DEFINE n == [q EXCEPT !.pc = "status", !.outcome = outcome]
<1>2. q.pc = "mail" /\ invs' = invs /\ q # Idle
  BY DEF SendInvitation, Idle
<1>3. n.pc = "status" /\ n.inv = q.inv /\ n.outcome = outcome
  BY <1>2, ActiveCall DEF InvInv
<1>4. q.inv \notin mailed /\ invs[q.inv].delivery = "none"
  BY <1>2 DEF DeliveryInv
<1>5. \A d \in Calls : call'[d] = IF d = c THEN n ELSE call[d]
  BY <1>1 DEF Becomes, InvInv, InvTypeOK
<1>6. /\ outcome = "sent" => q.inv \in mailed'
      /\ outcome = "unavailable" => q.inv \notin mailed'
      /\ \A j : j # q.inv => (j \in mailed' <=> j \in mailed)
  BY <1>1, <1>4
<1>7. \A d \in Calls : d # c /\ call[d].pc \in {"mail", "status"} => call[d].inv # q.inv
  BY <1>2 DEF DeliveryInv
<1> HIDE DEF n, q
<1>8. DeliveryTruthful'
  <2>1. Existing' = Existing
    BY <1>2 DEF Existing
  <2> QED BY <1>2, <1>4, <1>6, <2>1 DEF DeliveryInv, DeliveryTruthful
<1>9. \A d \in Calls : call'[d].pc = "mail" =>
        call'[d].inv \notin mailed' /\ invs'[call'[d].inv].delivery = "none"
  BY <1>2, <1>3, <1>5, <1>6, <1>7 DEF DeliveryInv
<1>10. \A d \in Calls : call'[d].pc = "status" =>
         /\ call'[d].outcome = "sent" => call'[d].inv \in mailed'
         /\ call'[d].outcome = "unavailable" => call'[d].inv \notin mailed'
         /\ invs'[call'[d].inv].delivery = "none"
  BY <1>2, <1>3, <1>4, <1>5, <1>6, <1>7 DEF DeliveryInv
<1>11. \A d, e \in Calls :
         call'[d].pc \in {"mail", "status"} /\ call'[e].pc \in {"mail", "status"} =>
           (call'[d].inv = call'[e].inv => d = e)
  BY <1>3, <1>5, <1>7 DEF DeliveryInv
<1> QED BY <1>8, <1>9, <1>10, <1>11 DEF DeliveryInv

\* The status that is stored is what happened to the mail.
LEMMA DeliveryPersisted ==
  ASSUME InvInv, DeliveryInv, NEW c \in Calls, PersistDelivery(c)
  PROVE  DeliveryInv'
<1> DEFINE q == call[c]
<1>1. q.pc = "status" /\ mailed' = mailed /\ q # Idle /\ call' = [call EXCEPT ![c] = Idle]
  BY DEF PersistDelivery, Idle, Becomes
<1>2. CASE invs' = invs
  BY <1>1, <1>2, DeliveryUntouched DEF Idle
<1>3. CASE invs' = [invs EXCEPT ![q.inv].delivery = q.outcome]
  <2>1. q.inv \in Existing /\ q.inv \in InvitationIds /\ q.outcome \in Deliveries
    BY <1>1, ActiveCall DEF InvInv
  <2>2. invs[q.inv] \in Invitations
    BY <2>1, StoredInvitation DEF InvInv
  <2>3. invs'[q.inv].delivery = q.outcome /\ \A j \in InvitationIds \ {q.inv} : invs'[j] = invs[j]
    BY <1>3, <2>1, <2>2 DEF InvInv, InvTypeOK, Invitations
  <2>4. Existing' \subseteq Existing /\ Existing \subseteq InvitationIds
    BY <2>1, <2>3 DEF Existing
  <2>5. DeliveryTruthful'
    <3>1. /\ q.outcome = "sent" => q.inv \in mailed
          /\ q.outcome = "unavailable" => q.inv \notin mailed
      BY <1>1 DEF DeliveryInv
    <3> QED BY <1>1, <2>3, <2>4, <3>1 DEF DeliveryInv, DeliveryTruthful
  <2>6. \A d \in Calls : call'[d] = IF d = c THEN Idle ELSE call[d]
    BY <1>1 DEF InvInv, InvTypeOK
  <2>7. \A d \in Calls : d # c /\ call[d].pc \in {"mail", "status"} =>
          call[d].inv # q.inv /\ call[d].inv \in InvitationIds
    BY <1>1, <2>4, ActiveCall DEF InvInv, DeliveryInv, Idle
  <2> HIDE DEF q
  <2>8. \A d \in Calls : call'[d].pc \in {"mail", "status"} =>
          d # c /\ call'[d] = call[d] /\ invs'[call[d].inv] = invs[call[d].inv]
    BY <2>3, <2>6, <2>7 DEF Idle
  <2>9. \A d \in Calls : call'[d].pc = "mail" =>
          call'[d].inv \notin mailed' /\ invs'[call'[d].inv].delivery = "none"
    BY <1>1, <2>8 DEF DeliveryInv
  <2>10. \A d \in Calls : call'[d].pc = "status" =>
           /\ call'[d].outcome = "sent" => call'[d].inv \in mailed'
           /\ call'[d].outcome = "unavailable" => call'[d].inv \notin mailed'
           /\ invs'[call'[d].inv].delivery = "none"
    BY <1>1, <2>8 DEF DeliveryInv
  <2>11. \A d, e \in Calls :
           call'[d].pc \in {"mail", "status"} /\ call'[e].pc \in {"mail", "status"} =>
             (call'[d].inv = call'[e].inv => d = e)
    BY <2>8 DEF DeliveryInv
  <2> QED BY <2>5, <2>9, <2>10, <2>11 DEF DeliveryInv
<1> QED BY <1>2, <1>3 DEF PersistDelivery

\* An acceptance or a revocation leaves the status of the mail as it was.
LEMMA DeliverySettled ==
  ASSUME InvInv, DeliveryInv, NEW c \in Calls, WriteAccept(c) \/ WriteRevoke(c)
  PROVE  DeliveryInv'
<1> DEFINE q == call[c]
<1>1. /\ q.pc \in {"accept", "revoke"} /\ q # Idle /\ mailed' = mailed
      /\ call' = [call EXCEPT ![c] = Idle]
  BY DEF WriteAccept, WriteRevoke, Idle, Becomes
<1>2. \/ invs' = invs
      \/ invs' = [invs EXCEPT ![q.inv].accepted = q.since]
      \/ invs' = [invs EXCEPT ![q.inv].revoked = now]
  BY DEF WriteAccept, WriteRevoke
<1>3. q.inv \in Existing /\ q.inv \in InvitationIds /\ invs[q.inv] \in Invitations
  BY <1>1, ActiveCall, StoredInvitation DEF InvInv
<1>4. \A i \in InvitationIds : invs'[i] = invs[i] \/ (i = q.inv /\ invs'[i].delivery = invs[i].delivery
                                                        /\ invs'[i].role = invs[i].role)
  BY <1>2, <1>3 DEF InvInv, InvTypeOK, Invitations
<1>5. invs[q.inv].role # "none"
  BY <1>3 DEF Invitations, Roles
<1>6. Existing' = Existing /\ \A i \in Existing : invs'[i].delivery = invs[i].delivery
  BY <1>3, <1>4, <1>5 DEF Existing, NoRow
<1>7. \A d \in Calls : call'[d] = call[d] \/ call'[d].pc \notin {"mail", "status"}
  BY <1>1 DEF InvInv, InvTypeOK, Idle
<1> QED BY <1>1, <1>6, <1>7, DeliveryFrame

\* Every step of the composition keeps the mail and its status in agreement.
LEMMA DeliveryStep == InvInv /\ DeliveryInv /\ [InvNext]_allVars => DeliveryInv'
<1> SUFFICES ASSUME InvInv, DeliveryInv, [InvNext]_allVars PROVE DeliveryInv'
  OBVIOUS
<1>1. ASSUME NEW c \in Calls, CallStep(c) PROVE DeliveryInv'
  <2>1. CASE BeginInvite(c) \/ BeginAccept(c) \/ BeginRevoke(c)
    <3>1. \A d \in Calls : call'[d] = call[d] \/ call'[d].pc \notin {"mail", "status"}
      <4>0. DOMAIN call = Calls
        BY DEF InvInv, InvTypeOK
      <4>1. CASE BeginInvite(c)
        BY <4>0, <4>1 DEF BeginInvite, Becomes
      <4>2. CASE BeginAccept(c)
        BY <4>0, <4>2 DEF BeginAccept, Becomes
      <4>3. CASE BeginRevoke(c)
        BY <4>0, <4>3 DEF BeginRevoke, Becomes
      <4> QED BY <2>1, <4>1, <4>2, <4>3
    <3>2. invs' = invs /\ mailed' = mailed
      BY <2>1 DEF BeginInvite, BeginAccept, BeginRevoke
    <3>3. Existing' = Existing
      BY <3>2 DEF Existing
    <3> QED BY <3>1, <3>2, <3>3, DeliveryFrame
  <2>2. CASE CheckMember(c) \/ FindToRevoke(c) \/ AbandonCall(c)
    <3> DEFINE accepting == [call[c] EXCEPT !.pc = "accept"]
               revoking == [call[c] EXCEPT !.pc = "revoke"]
    <3>1. call[c].pc \in {"member", "find"} => accepting.pc = "accept" /\ revoking.pc = "revoke"
      BY ActiveCall DEF InvInv, Idle
    <3>2. \E q \in {accepting, revoking, Idle} :
            call' = [call EXCEPT ![c] = q] /\ q.pc \in {"accept", "revoke", "idle"}
      <4>1. Idle.pc = "idle"
        BY DEF Idle
      <4>2. CASE CheckMember(c)
        <5>1. call[c].pc = "member" /\ (Becomes(c, accepting) \/ Becomes(c, Idle))
          BY <4>2 DEF CheckMember
        <5> HIDE DEF accepting, revoking
        <5> QED BY <3>1, <4>1, <5>1 DEF Becomes
      <4>3. CASE FindToRevoke(c)
        <5>1. call[c].pc = "find" /\ (Becomes(c, revoking) \/ Becomes(c, Idle))
          BY <4>3 DEF FindToRevoke
        <5> HIDE DEF accepting, revoking
        <5> QED BY <3>1, <4>1, <5>1 DEF Becomes
      <4>4. CASE AbandonCall(c)
        BY <4>1, <4>4 DEF AbandonCall, Becomes
      <4> QED BY <2>2, <4>2, <4>3, <4>4
    <3>3. invs' = invs /\ mailed' = mailed
      BY <2>2 DEF CheckMember, FindToRevoke, AbandonCall
    <3> QED BY <3>2, <3>3, DeliveryUntouched
  <2> QED BY <1>1, <2>1, <2>2, DeliveryCreated, DeliverySent, DeliveryPersisted, DeliverySettled
          DEF CallStep
<1>2. CASE UNCHANGED <<invs, mailed, call>>
  <2>1. Existing' = Existing
    BY <1>2 DEF Existing
  <2> QED BY <1>2, <2>1, DeliveryFrame
<1>3. CASE (Next /\ UNCHANGED invitationVars) \/ Tick \/ UNCHANGED allVars
  BY <1>2, <1>3 DEF Tick, invitationVars, allVars
<1> QED BY <1>1, <1>3 DEF InvNext

\* Whatever races with the request that invites, the delivery status it stores is true:
\* "sent" was mailed and "unavailable" was not (CreateOrganizationInvitation).
THEOREM TruthfulDelivery == InvSpec => []DeliveryTruthful
<1>1. InvInit => DeliveryInv
  <2> SUFFICES ASSUME InvInit PROVE DeliveryInv
    OBVIOUS
  <2>1. Existing = {} /\ \A c \in Calls : call[c].pc = "idle"
    BY DEF InvInit, Existing, Idle
  <2> QED BY <2>1 DEF DeliveryInv, DeliveryTruthful
<1>2. DeliveryInv => DeliveryTruthful
  BY DEF DeliveryInv
<1> QED BY <1>1, <1>2, DeliveryStep, CompositionInductive, PTL DEF InvSpec

-----------------------------------------------------------------------------
(* Settled for good.                                                         *)

\* No step changes how an invitation was settled, or lets somebody in through one that
\* is: an acceptance that found it pending before is refused by the clause of its write.
THEOREM StaysSettled == InvSpec => SettledForGood
<1> DEFINE A == \A i \in Existing : invs[i].accepted # Never \/ invs[i].revoked # Never =>
                  /\ invs'[i].accepted = invs[i].accepted /\ invs'[i].revoked = invs[i].revoked
                  /\ \A p \in joined' : p[1] = i => p \in joined
<1>1. ASSUME InvInv, [InvNext]_allVars PROVE A
  <2> SUFFICES ASSUME NEW i \in Existing, invs[i].accepted # Never \/ invs[i].revoked # Never
               PROVE  /\ invs'[i].accepted = invs[i].accepted /\ invs'[i].revoked = invs[i].revoked
                      /\ \A p \in joined' : p[1] = i => p \in joined
    OBVIOUS
  <2>0. i \in InvitationIds /\ invs[i] \in Invitations /\ invs[i] # NoRow
    BY <1>1, StoredInvitation DEF InvInv
  <2>1. CASE UNCHANGED <<invs, joined>>
    BY <2>1
  <2>2. ASSUME NEW c \in Calls, CreateInvitation(c)
        PROVE  joined' = joined /\ invs'[i] = invs[i]
    BY <1>1, <2>0, <2>2 DEF CreateInvitation, InvInv, InvTypeOK
  <2>3. ASSUME NEW c \in Calls, PersistDelivery(c)
        PROVE  /\ joined' = joined /\ invs'[i].accepted = invs[i].accepted
               /\ invs'[i].revoked = invs[i].revoked
    <3>1. call[c].inv \in InvitationIds
      BY <1>1, <2>3, ActiveCall DEF PersistDelivery, InvInv, Idle
    <3> QED BY <1>1, <2>0, <2>3, <3>1 DEF PersistDelivery, InvInv, InvTypeOK, Invitations
  <2>4. ASSUME NEW c \in Calls, WriteAccept(c)
        PROVE  /\ invs'[i] = invs[i]
               /\ \A p \in joined' : p[1] = i => p \in joined
    <3>1. CASE UNCHANGED <<invs, joined>>
      BY <3>1
    <3>2. CASE /\ Accepts(call[c])
               /\ invs' = [invs EXCEPT ![call[c].inv].accepted = call[c].since]
               /\ joined' = joined \cup {<<call[c].inv, issued + 1>>}
      <4>1. call[c].inv # i
        BY <3>2 DEF Accepts, PendingAt, Open
      <4> QED BY <1>1, <2>0, <3>2, <4>1 DEF InvInv, InvTypeOK
    <3> QED BY <2>4, <3>1, <3>2 DEF WriteAccept
  <2>5. ASSUME NEW c \in Calls, WriteRevoke(c)
        PROVE  joined' = joined /\ invs'[i] = invs[i]
    <3>1. Revokes(call[c]) => call[c].inv # i
      BY DEF Revokes, PendingAt, Open
    <3> QED BY <1>1, <2>0, <2>5, <3>1 DEF WriteRevoke, InvInv, InvTypeOK
  <2>6. ASSUME NEW c \in Calls,
               \/ BeginInvite(c) \/ SendInvitation(c) \/ BeginAccept(c) \/ CheckMember(c)
               \/ BeginRevoke(c) \/ FindToRevoke(c) \/ AbandonCall(c)
        PROVE  UNCHANGED <<invs, joined>>
    BY <2>6 DEF BeginInvite, SendInvitation, BeginAccept, CheckMember, BeginRevoke,
                FindToRevoke, AbandonCall
  <2>7. CASE (Next /\ UNCHANGED invitationVars) \/ Tick \/ UNCHANGED allVars
    BY <2>1, <2>7 DEF Tick, invitationVars, allVars
  <2>8. ASSUME NEW c \in Calls, CallStep(c)
        PROVE  /\ invs'[i].accepted = invs[i].accepted /\ invs'[i].revoked = invs[i].revoked
               /\ \A p \in joined' : p[1] = i => p \in joined
    BY <2>1, <2>2, <2>3, <2>4, <2>5, <2>6, <2>8 DEF CallStep
  <2> QED BY <1>1, <2>7, <2>8 DEF InvNext
<1> QED BY <1>1, CompositionInductive, PTL DEF InvSpec, SettledForGood

=============================================================================
