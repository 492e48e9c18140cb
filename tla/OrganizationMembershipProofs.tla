--------------------- MODULE OrganizationMembershipProofs ---------------------
(* Proofs about OrganizationMembership, for every set of users, organizations *)
(* and concurrent requests, and every set of roles and scopes commands name.  *)
EXTENDS OrganizationMembership, TLAPS

\* The inductive invariant: the owner, seat and scope invariants need each other
\* and what suspended requests may still rely on.
IInv == TypeOK /\ OneOwner /\ OneSeat /\ ScopesFitRole /\ StaleReadsHold

-----------------------------------------------------------------------------
(* Requests.                                                                 *)

\* A request that is not idle carries all the fields.
LEMMA ActiveRequest ==
  ASSUME TypeOK, NEW r \in Requests, req[r] # Idle
  PROVE  /\ req[r] \in [pc : {"target", "write", "scopes", "allowed"}, kind : Kinds,
                        actor : Users, org : Orgs, target : Users, role : Roles,
                        scopes : SUBSET Scopes, held : Roles, row : Nat]
         /\ req[r].row \in 0..issued
BY DEF TypeOK, RequestStates

\* Only requests went back to idle: what the others rely on is a matter of the
\* tables alone.
LEMMA EndingRequests ==
  ASSUME TypeOK, req' \in [Requests -> RequestStates],
         \A r \in Requests : req'[r] = req[r] \/ req'[r] = Idle,
         issued' \in Nat, issued <= issued'
  PROVE  \A r \in Requests : req'[r] # Idle => req'[r].row \in 0..issued'
<1> SUFFICES ASSUME NEW r \in Requests, req'[r] # Idle PROVE req'[r].row \in 0..issued'
  OBVIOUS
<1>1. req'[r] = req[r] /\ req[r] # Idle
  OBVIOUS
<1>2. req[r].row \in 0..issued
  BY <1>1, ActiveRequest
<1> QED BY <1>1, <1>2 DEF TypeOK

\* A new membership, below the owner and with scopes its role supports, in an
\* existing organization and a free seat, keeps the invariant.
LEMMA InsertKeeps ==
  ASSUME IInv, UNCHANGED creator, req' \in [Requests -> RequestStates],
         \A r \in Requests : req'[r] = req[r] \/ req'[r] = Idle,
         NEW o \in Orgs, NEW u \in Users, NEW rl \in Roles, NEW sc \in SUBSET Scopes,
         creator[o] # Nobody, rl # "owner", ScopesSupported(rl, sc),
         SeatFree(u, o), InsertMember(o, u, rl, sc)
  PROVE  IInv'
<1> DEFINE new == [id |-> issued + 1, org |-> o, user |-> u, role |-> rl, scopes |-> sc]
<1> USE MembershipAssumption
<1>1. /\ members' = members \cup {new}
      /\ issued' = issued + 1
      /\ issued \in Nat
      /\ \A m \in members : m \in Memberships /\ m.id \in 1..issued
  BY DEF IInv, TypeOK, InsertMember
<1>2. u # creator[o]
  BY DEF IInv, OneOwner, SeatFree
<1>3. TypeOK'
  <2>1. new \in Memberships /\ new.id \in 1..issued'
    BY <1>1 DEF Memberships
  <2>2. \A r \in Requests : req'[r] # Idle => req'[r].row \in 0..issued'
    BY <1>1, EndingRequests DEF IInv, TypeOK
  <2> QED BY <1>1, <2>1, <2>2 DEF IInv, TypeOK
<1>4. OneOwner'
  BY <1>1, <1>2 DEF IInv, OneOwner
<1>5. OneSeat'
  <2> SUFFICES ASSUME NEW m \in members', NEW n \in members',
                      m.id = n.id \/ (m.user = n.user /\ m.org = n.org)
               PROVE m = n
    BY DEF OneSeat
  <2>1. CASE m \in members /\ n \in members
    BY <2>1 DEF IInv, OneSeat
  <2>2. \A k \in members : k.id # new.id /\ ~(k.user = new.user /\ k.org = new.org)
    BY <1>1 DEF SeatFree
  <2> QED BY <1>1, <2>1, <2>2
<1>6. ScopesFitRole'
  BY <1>1 DEF IInv, ScopesFitRole, ScopesSupported
<1>7. StaleReadsHold'
  <2> SUFFICES ASSUME NEW r \in Requests, req'[r] # Idle
               PROVE  StaleReadsHold!(r)'
    BY DEF StaleReadsHold
  <2>1. req'[r] = req[r] /\ req[r] # Idle
    OBVIOUS
  <2>2. req[r].row # new.id
    BY <2>1, <1>1, ActiveRequest DEF IInv
  <2> QED BY <1>1, <2>1, <2>2 DEF IInv, StaleReadsHold, ScopesSupported
<1> QED BY <1>3, <1>4, <1>5, <1>6, <1>7 DEF IInv

\* The creation of an organization gives it its owner and disturbs no other.
LEMMA CreateKeeps ==
  ASSUME IInv, NEW u \in Users, NEW o \in Orgs, CreateOrganization(u, o)
  PROVE  IInv'
<1> DEFINE new == [id |-> issued + 1, org |-> o, user |-> u, role |-> "owner", scopes |-> {}]
<1> USE MembershipAssumption
<1>1. /\ members' = members \cup {new}
      /\ issued' = issued + 1 /\ issued \in Nat
      /\ creator' = [creator EXCEPT ![o] = u]
      /\ creator \in [Orgs -> Users \cup {Nobody}]
      /\ UNCHANGED req
      /\ \A m \in members : m \in Memberships /\ m.id \in 1..issued
  BY DEF IInv, TypeOK, CreateOrganization, InsertMember
<1>2. \A m \in members : m.org # o /\ m.org \in Orgs
  BY <1>1 DEF IInv, OneOwner, CreateOrganization, Memberships
<1>3. TypeOK'
  <2>1. new \in Memberships /\ new.id \in 1..issued'
    BY <1>1 DEF Memberships, Roles
  <2>2. \A r \in Requests : req'[r] # Idle => req'[r].row \in 0..issued'
    BY <1>1, EndingRequests DEF IInv, TypeOK
  <2>3. creator' \in [Orgs -> Users \cup {Nobody}]
    BY <1>1
  <2>4. \A m \in members' : m \in Memberships /\ m.id \in 1..issued'
    <3> SUFFICES ASSUME NEW m \in members' PROVE m \in Memberships /\ m.id \in 1..issued'
      OBVIOUS
    <3>1. CASE m = new
      BY <2>1, <3>1
    <3>2. CASE m \in members
      BY <1>1, <3>2
    <3> QED BY <1>1, <3>1, <3>2
  <2> QED BY <1>1, <2>2, <2>3, <2>4 DEF IInv, TypeOK
<1>4. OneOwner'
  <2>1. \A x \in Orgs : x # o => creator'[x] = creator[x]
    BY <1>1
  <2>2. creator'[o] = u /\ new \in members' /\ new.org = o /\ new.user = u /\ u # Nobody
        /\ new.role = "owner"
    BY <1>1
  <2>3. ASSUME NEW m \in members'
        PROVE creator'[m.org] # Nobody /\ (m.role = "owner" <=> m.user = creator'[m.org])
    <3>1. CASE m = new
      BY <2>2, <3>1
    <3>2. CASE m \in members
      BY <1>2, <2>1, <3>2 DEF IInv, OneOwner
    <3> QED BY <1>1, <3>1, <3>2
  <2>4. ASSUME NEW x \in Orgs, creator'[x] # Nobody
        PROVE \E m \in members' : m.org = x /\ m.user = creator'[x]
    <3>1. CASE x = o
      BY <2>2, <3>1
    <3>2. CASE x # o
      BY <1>1, <2>1, <2>4, <3>2 DEF IInv, OneOwner
    <3> QED BY <3>1, <3>2
  <2> QED BY <2>3, <2>4 DEF OneOwner
<1>5. OneSeat'
  <2>1. \A k \in members : k.id # new.id /\ k.org # new.org
    BY <1>1, <1>2
  <2> QED BY <1>1, <2>1 DEF IInv, OneSeat
<1>6. ScopesFitRole'
  BY <1>1 DEF IInv, ScopesFitRole, ScopesSupported
<1>7. StaleReadsHold'
  <2> SUFFICES ASSUME NEW r \in Requests, req[r] # Idle
               PROVE  StaleReadsHold!(r)'
    BY <1>1 DEF StaleReadsHold
  <2>1. req[r].row # new.id /\ req[r].org \in Orgs
    BY <1>1, ActiveRequest DEF IInv
  <2>2. req[r].org # o
    BY DEF IInv, StaleReadsHold, CreateOrganization
  <2> QED BY <1>1, <2>1, <2>2 DEF IInv, StaleReadsHold, ScopesSupported
<1> QED BY <1>3, <1>4, <1>5, <1>6, <1>7 DEF IInv

\* A step that leaves the tables alone keeps the invariant if the one request it
\* moves is still sound.
LEMMA LocalKeeps ==
  ASSUME IInv, UNCHANGED <<creator, members, issued>>,
         NEW r \in Requests, NEW q \in RequestStates,
         req' = [req EXCEPT ![r] = q],
         q # Idle => q.row \in 0..issued /\ StaleReadsHold!(r)'
  PROVE  IInv'
<1>1. req' \in [Requests -> RequestStates] /\ req'[r] = q
  BY DEF IInv, TypeOK
<1>2. \A p \in Requests : p # r => req'[p] = req[p]
  BY DEF IInv, TypeOK
<1>3. TypeOK'
  BY <1>1, <1>2 DEF IInv, TypeOK
<1>4. OneOwner' /\ OneSeat' /\ ScopesFitRole'
  BY DEF IInv, OneOwner, OneSeat, ScopesFitRole, ScopesSupported
<1>5. StaleReadsHold'
  <2> SUFFICES ASSUME NEW p \in Requests, req'[p] # Idle PROVE StaleReadsHold!(p)'
    BY DEF StaleReadsHold
  <2>1. CASE p = r
    BY <1>1, <2>1
  <2>2. CASE p # r
    BY <1>2, <2>2 DEF IInv, StaleReadsHold, ScopesSupported
  <2> QED BY <2>1, <2>2
<1> QED BY <1>3, <1>4, <1>5 DEF IInv

\* Ownership is granted by no role.
LEMMA OwnerIsNotAssigned ==
  ASSUME NEW a \in Roles, NEW b \in Roles, MayAssign(a, b) PROVE b # "owner"
BY DEF MayAssign, RoleRank, Roles

\* The start of an add or an update: what it read makes it sound.
LEMMA GrantKeeps ==
  ASSUME IInv, NEW r \in Requests, NEW actor \in Users, NEW target \in Users,
         NEW org \in Orgs, NEW role \in OfferedRoles, NEW scopes \in OfferedScopes,
         NEW k \in {"add", "update"}, NEW c \in {"write", "target"},
         k = "add" <=> c = "write",
         Grant(r, k, c, actor, org, target, role, scopes),
         UNCHANGED <<creator, members, issued>>
  PROVE  IInv'
<1>1. PICK m \in members :
        /\ m.org = org
        /\ ActorMayGrant(m, role) /\ ScopesSupported(role, scopes)
        /\ req' = [req EXCEPT ![r] =
              [pc |-> c, kind |-> k, actor |-> actor, org |-> org,
               target |-> target, role |-> role, scopes |-> scopes,
               held |-> m.role, row |-> 0]]
  BY DEF Grant, MembershipOf
<1> USE MembershipAssumption
<1> DEFINE q == [pc |-> c, kind |-> k, actor |-> actor, org |-> org,
               target |-> target, role |-> role, scopes |-> scopes,
               held |-> m.role, row |-> 0]
<1>2. m \in Memberships
  BY DEF IInv, TypeOK
<1>3. q \in RequestStates
  BY <1>2 DEF RequestStates, Kinds, Memberships
<1>4. role # "owner" /\ creator[org] # Nobody
  BY <1>1, <1>2, OwnerIsNotAssigned DEF ActorMayGrant, Memberships, IInv, OneOwner
<1>5. StaleReadsHold!(r)' /\ q.row \in 0..issued
  <2>1. req'[r] = q
    BY <1>1 DEF IInv, TypeOK
  <2>2. q.row \in 0..issued
    BY DEF IInv, TypeOK
  <2> HIDE DEF q
  <2>3. q.org = org /\ q.role = role /\ q.scopes = scopes /\ q.kind = k /\ q.pc = c
    BY DEF q
  <2>4. \A s \in scopes : RoleSupports(role, s)
    BY <1>1 DEF ScopesSupported
  <2> QED BY <1>4, <2>1, <2>2, <2>3, <2>4 DEF ScopesSupported
<1> HIDE DEF q
<1> QED BY <1>1, <1>3, <1>5, LocalKeeps DEF q

\* A removal or an authorization starts, a target is read, a decision is taken or
\* a request ends: the tables stay, and what was read is still true.
LEMMA ReadsKeep ==
  ASSUME IInv, NEW r \in Requests,
         BeginRemove(r) \/ BeginAuthorize(r) \/ ReadTarget(r) \/ Decide(r) \/ Abandon(r)
  PROVE  IInv'
<1> USE MembershipAssumption
<1> USE DEF MembershipOf
<1>1. CASE BeginRemove(r)
  <2>1. PICK actor \in Users, target \in Users, org \in Orgs, m \in members :
          /\ m.org = org
          /\ req' = [req EXCEPT ![r] =
              [pc |-> "target", kind |-> "remove", actor |-> actor, org |-> org,
               target |-> target, role |-> "viewer", scopes |-> {},
               held |-> m.role, row |-> 0]]
    BY <1>1 DEF BeginRemove
  <2> DEFINE q == [pc |-> "target", kind |-> "remove", actor |-> actor, org |-> org,
               target |-> target, role |-> "viewer", scopes |-> {},
               held |-> m.role, row |-> 0]
  <2>2. m \in Memberships /\ creator[org] # Nobody
    BY <2>1 DEF IInv, TypeOK, OneOwner
  <2>3. q \in RequestStates /\ q.row \in 0..issued
    BY <2>2 DEF RequestStates, Kinds, Memberships, Roles, IInv, TypeOK
  <2>4. req'[r] = q
    BY <2>1 DEF IInv, TypeOK
  <2>5. members' = members /\ creator' = creator /\ issued' = issued
    BY <1>1 DEF BeginRemove
  <2>6. StaleReadsHold!(r)'
    BY <2>2, <2>4, <2>5
  <2> QED BY <2>1, <2>3, <2>5, <2>6, LocalKeeps
<1>2. CASE BeginAuthorize(r)
  <2>1. PICK actor \in Users, org \in Orgs, wanted \in UNION OfferedScopes, m \in members :
          /\ m.org = org /\ m.user = actor
          /\ req' = [req EXCEPT ![r] =
              [pc |-> "scopes", kind |-> "authorize", actor |-> actor, org |-> org,
               target |-> actor, role |-> "viewer", scopes |-> {wanted},
               held |-> m.role, row |-> m.id]]
    BY <1>2 DEF BeginAuthorize
  <2> DEFINE q == [pc |-> "scopes", kind |-> "authorize", actor |-> actor, org |-> org,
               target |-> actor, role |-> "viewer", scopes |-> {wanted},
               held |-> m.role, row |-> m.id]
  <2>2. m \in Memberships /\ creator[org] # Nobody /\ m.id \in 0..issued
    BY <2>1 DEF IInv, TypeOK, OneOwner
  <2>3. q \in RequestStates /\ q.row \in 0..issued
    BY <2>2 DEF RequestStates, Kinds, Memberships, Roles
  <2>4. req'[r] = q
    BY <2>1 DEF IInv, TypeOK
  <2>5. \A n \in members : n.id = m.id => n.user = actor /\ n.org = org
    BY <2>1 DEF IInv, OneSeat
  <2>6. m.role = "owner" => actor = creator[org]
    BY <2>1 DEF IInv, OneOwner
  <2>7. members' = members /\ creator' = creator /\ issued' = issued
    BY <1>2 DEF BeginAuthorize
  <2>8. StaleReadsHold!(r)'
    BY <2>2, <2>4, <2>5, <2>6, <2>7
  <2> QED BY <2>1, <2>3, <2>7, <2>8, LocalKeeps
<1>3. CASE ReadTarget(r)
  <2> DEFINE q == req[r]
  <2>0. q.pc = "target"
    BY <1>3, Zenon DEF ReadTarget
  <2>1. q # Idle /\ q.pc = "target"
    BY <2>0 DEF Idle
  <2>2. ASSUME NEW m \in members, m.user = q.target, m.org = q.org, MayChange(q, m),
               req' = [req EXCEPT ![r] = [q EXCEPT !.pc = "write", !.row = m.id]]
        PROVE IInv'
    <3> DEFINE n == [q EXCEPT !.pc = "write", !.row = m.id]
    <3>1. m \in Memberships /\ m.id \in 0..issued
      BY DEF IInv, TypeOK
    <3>2. n \in RequestStates /\ n.row = m.id
      BY <2>1, <3>1, ActiveRequest DEF IInv, RequestStates, Memberships
    <3>3. m.role # "owner"
      BY <2>1, <2>2, <3>1, ActiveRequest, OwnerIsNotAssigned DEF IInv, MayChange, Memberships
    <3>4. \A k \in members : k.id = m.id => k = m
      BY DEF IInv, OneSeat
    <3>5. /\ n.org = q.org /\ n.kind = q.kind /\ n.role = q.role /\ n.scopes = q.scopes
          /\ n.pc = "write" /\ n.target = q.target
      BY <2>1, ActiveRequest DEF IInv
    <3>6. req'[r] = n
      BY <2>2 DEF IInv, TypeOK
    <3>7. members' = members /\ creator' = creator /\ issued' = issued
      BY <1>3 DEF ReadTarget
    <3>8. StaleReadsHold!(r)'
      BY <2>1, <2>2, <3>2, <3>3, <3>4, <3>5, <3>6, <3>7
         DEF IInv, StaleReadsHold, ScopesSupported
    <3> HIDE DEF n
    <3> QED BY <2>2, <3>1, <3>2, <3>7, <3>8, LocalKeeps DEF n
  <2>3. CASE req' = [req EXCEPT ![r] = Idle]
    BY <1>3, <2>3, LocalKeeps DEF ReadTarget, RequestStates
  <2> QED BY <1>3, <2>2, <2>3 DEF ReadTarget
<1>4. CASE Decide(r)
  <2> DEFINE q == req[r]
             n == [q EXCEPT !.pc = "allowed"]
  <2>1. q # Idle
    BY <1>4 DEF Decide, Idle
  <2>2. n \in RequestStates /\ n.row \in 0..issued
    BY <2>1, ActiveRequest DEF IInv, RequestStates
  <2>3. members' = members /\ creator' = creator /\ issued' = issued
    BY <1>4 DEF Decide
  <2>4. CASE req' = [req EXCEPT ![r] = n]
    <3>1. req'[r] = n
      BY <2>4 DEF IInv, TypeOK
    <3>2. /\ n.org = q.org /\ n.kind = q.kind /\ n.role = q.role /\ n.scopes = q.scopes
          /\ n.pc = "allowed"
      BY <2>1, ActiveRequest DEF IInv
    <3>3. StaleReadsHold!(r)'
      BY <2>1, <2>3, <3>1, <3>2 DEF IInv, StaleReadsHold, ScopesSupported
    <3> HIDE DEF n
    <3> QED BY <2>2, <2>3, <2>4, <3>3, LocalKeeps
  <2>5. CASE req' = [req EXCEPT ![r] = Idle]
    BY <2>3, <2>5, LocalKeeps DEF RequestStates
  <2> QED BY <1>4, <2>4, <2>5 DEF Decide
<1>5. CASE Abandon(r)
  BY <1>5, LocalKeeps DEF Abandon, RequestStates
<1> QED BY <1>1, <1>2, <1>3, <1>4, <1>5

\* An update rewrites a row that is not an owner's, with a role that is not the
\* owner's and scopes that fit it.
LEMMA UpdateKeeps ==
  ASSUME IInv, NEW r \in Requests, WriteUpdate(r) PROVE IInv'
<1> DEFINE q == req[r]
           new(m) == IF Matches(m, q) THEN Rewrite(m, q.role, q.scopes) ELSE m
<1>1. /\ q # Idle /\ q.pc = "write" /\ q.kind = "update"
      /\ members' = {new(m) : m \in members}
      /\ creator' = creator /\ issued' = issued
      /\ req' = [req EXCEPT ![r] = Idle]
  BY DEF WriteUpdate, Idle
<1>2. /\ q.role \in Roles /\ q.scopes \in SUBSET Scopes
      /\ q.role # "owner" /\ ScopesSupported(q.role, q.scopes)
      /\ \A m \in members : m.id = q.row => m.role # "owner"
  BY <1>1, ActiveRequest DEF IInv, StaleReadsHold
<1>3. req' \in [Requests -> RequestStates]
      /\ \A p \in Requests : req'[p] = req[p] \/ req'[p] = Idle
  BY <1>1 DEF IInv, TypeOK, RequestStates
<1>4. ASSUME NEW m \in members
      PROVE /\ new(m) \in Memberships
            /\ new(m).id = m.id /\ new(m).user = m.user /\ new(m).org = m.org
            /\ new(m).role = "owner" <=> m.role = "owner"
            /\ ScopesSupported(new(m).role, new(m).scopes)
  <2>1. m \in Memberships
    BY DEF IInv, TypeOK
  <2>2. CASE m.id = q.row
    BY <1>2, <2>1, <2>2 DEF Matches, Rewrite, Memberships
  <2>3. CASE m.id # q.row
    BY <2>1, <2>3 DEF Matches, IInv, ScopesFitRole
  <2> QED BY <2>2, <2>3
<1> HIDE DEF new
<1>5. TypeOK'
  <2>1. \A p \in Requests : req'[p] # Idle => req'[p].row \in 0..issued'
    BY <1>1, <1>3, EndingRequests DEF IInv, TypeOK
  <2> QED BY <1>1, <1>3, <1>4, <2>1 DEF IInv, TypeOK
<1>6. OneOwner'
  BY <1>1, <1>4 DEF IInv, OneOwner
<1>7. OneSeat'
  BY <1>1, <1>4 DEF IInv, OneSeat
<1>8. ScopesFitRole'
  BY <1>1, <1>4 DEF ScopesFitRole
<1>9. StaleReadsHold'
  <2> SUFFICES ASSUME NEW p \in Requests, req'[p] # Idle PROVE StaleReadsHold!(p)'
    BY DEF StaleReadsHold
  <2>1. req'[p] = req[p] /\ req[p] # Idle
    BY <1>3
  <2> QED BY <1>1, <1>4, <2>1 DEF IInv, StaleReadsHold, ScopesSupported
<1> QED BY <1>5, <1>6, <1>7, <1>8, <1>9 DEF IInv

\* A removal deletes a row that is not an owner's.
LEMMA RemoveKeeps ==
  ASSUME IInv, NEW r \in Requests, WriteRemove(r) PROVE IInv'
<1> DEFINE q == req[r]
<1>1. /\ q # Idle /\ q.pc = "write" /\ q.kind = "remove"
      /\ members' = {m \in members : m.id # q.row}
      /\ creator' = creator /\ issued' = issued
      /\ req' = [req EXCEPT ![r] = Idle]
  BY DEF WriteRemove, Matches, Idle
<1>2. \A m \in members : m.id = q.row => m.role # "owner"
  BY <1>1, ActiveRequest DEF IInv, StaleReadsHold
<1>3. req' \in [Requests -> RequestStates]
      /\ \A p \in Requests : req'[p] = req[p] \/ req'[p] = Idle
  BY <1>1 DEF IInv, TypeOK, RequestStates
<1>5. TypeOK'
  <2>1. \A p \in Requests : req'[p] # Idle => req'[p].row \in 0..issued'
    BY <1>1, <1>3, EndingRequests DEF IInv, TypeOK
  <2> QED BY <1>1, <1>3, <2>1 DEF IInv, TypeOK
<1>6. OneOwner'
  BY <1>1, <1>2 DEF IInv, OneOwner
<1>7. OneSeat' /\ ScopesFitRole'
  BY <1>1 DEF IInv, OneSeat, ScopesFitRole, ScopesSupported
<1>9. StaleReadsHold'
  <2> SUFFICES ASSUME NEW p \in Requests, req'[p] # Idle PROVE StaleReadsHold!(p)'
    BY DEF StaleReadsHold
  <2>1. req'[p] = req[p] /\ req[p] # Idle
    BY <1>3
  <2> QED BY <1>1, <2>1 DEF IInv, StaleReadsHold, ScopesSupported
<1> QED BY <1>5, <1>6, <1>7, <1>9 DEF IInv

\* An add inserts below the owner, or nothing.
LEMMA AddKeeps ==
  ASSUME IInv, NEW r \in Requests, WriteAdd(r) PROVE IInv'
<1> DEFINE q == req[r]
<1>1. /\ q # Idle /\ q.kind = "add" /\ creator' = creator
      /\ req' = [req EXCEPT ![r] = Idle]
  BY DEF WriteAdd, Idle
<1>2. /\ q.org \in Orgs /\ q.target \in Users /\ q.role \in Roles
      /\ q.scopes \in SUBSET Scopes /\ creator[q.org] # Nobody
      /\ q.role # "owner" /\ ScopesSupported(q.role, q.scopes)
  BY <1>1, ActiveRequest DEF IInv, StaleReadsHold
<1>3. req' \in [Requests -> RequestStates]
      /\ \A p \in Requests : req'[p] = req[p] \/ req'[p] = Idle
  BY <1>1 DEF IInv, TypeOK, RequestStates
<1>4. CASE SeatFree(q.target, q.org) /\ InsertMember(q.org, q.target, q.role, q.scopes)
  BY <1>1, <1>2, <1>3, <1>4, InsertKeeps
<1>5. CASE UNCHANGED <<members, issued>>
  BY <1>1, <1>5, LocalKeeps DEF RequestStates
<1> QED BY <1>4, <1>5 DEF WriteAdd

-----------------------------------------------------------------------------
(* The theorems.                                                             *)

\* Every step of every process keeps the inductive invariant.
LEMMA InvariantStep == IInv /\ [Next]_membershipVars => IInv'
<1> SUFFICES ASSUME IInv, [Next]_membershipVars PROVE IInv'
  OBVIOUS
<1>1. ASSUME NEW u \in Users, NEW o \in Orgs, CreateOrganization(u, o) PROVE IInv'
  BY <1>1, CreateKeeps
<1>2. ASSUME NEW r \in Requests, BeginAdd(r) PROVE IInv'
  <2>1. PICK actor \in Users, target \in Users, org \in Orgs, role \in OfferedRoles,
             scopes \in OfferedScopes :
          Grant(r, "add", "write", actor, org, target, role, scopes)
    BY <1>2 DEF BeginAdd
  <2> QED BY <1>2, <2>1, GrantKeeps DEF BeginAdd
<1>3. ASSUME NEW r \in Requests, BeginUpdate(r) PROVE IInv'
  <2>1. PICK actor \in Users, target \in Users, org \in Orgs, role \in OfferedRoles,
             scopes \in OfferedScopes :
          Grant(r, "update", "target", actor, org, target, role, scopes)
    BY <1>3 DEF BeginUpdate
  <2> QED BY <1>3, <2>1, GrantKeeps DEF BeginUpdate
<1>4. ASSUME NEW r \in Requests,
             BeginRemove(r) \/ BeginAuthorize(r) \/ ReadTarget(r) \/ Decide(r) \/ Abandon(r)
      PROVE IInv'
  BY <1>4, ReadsKeep
<1>5. ASSUME NEW r \in Requests, WriteAdd(r) \/ WriteUpdate(r) \/ WriteRemove(r)
      PROVE IInv'
  BY <1>5, AddKeeps, UpdateKeeps, RemoveKeeps
<1>6. CASE UNCHANGED membershipVars
  BY <1>6 DEF membershipVars, IInv, TypeOK, OneOwner, OneSeat, ScopesFitRole,
              StaleReadsHold, ScopesSupported
<1> QED BY <1>1, <1>2, <1>3, <1>4, <1>5, <1>6 DEF Next, Step

\* The inductive invariant holds in every reachable state.
THEOREM Inductive == Spec => []IInv
<1>1. Init => IInv
  <2> SUFFICES ASSUME Init PROVE IInv
    OBVIOUS
  <2>1. \A r \in Requests : req[r] = Idle
    BY DEF Init
  <2> QED BY <2>1 DEF Init, IInv, TypeOK, OneOwner, OneSeat, ScopesFitRole,
                      StaleReadsHold, RequestStates
<1> QED BY <1>1, InvariantStep, PTL DEF Spec

\* Rows and requests keep their types (members and issued identifiers of
\* organization_memberships, local state of the use cases).
THEOREM MembershipTypes == Spec => []TypeOK
BY Inductive, PTL DEF IInv

\* Every organization has exactly its creator as owner, for any number of users,
\* organizations and requests suspended between their reads and their write.
THEOREM OwnerForever == Spec => []OneOwner
BY Inductive, PTL DEF IInv

\* Seats stay unique and stored scopes stay within what the stored role supports.
THEOREM SeatsAndScopes == Spec => [](OneSeat /\ ScopesFitRole)
BY Inductive, PTL DEF IInv

\* What suspended requests rely on stays true while they are suspended.
THEOREM StaleReads == Spec => []StaleReadsHold
BY Inductive, PTL DEF IInv

\* An authorization decided from two statements is never more generous than the
\* membership at the second one (get_membership, OrganizationMembership.allows).
THEOREM TornReads == Spec => TornReadsAreSafe
<1> DEFINE Safe == \A r \in Requests : req[r].pc = "scopes" /\ req'[r].pc = "allowed" =>
                     \A s \in req[r].scopes : AllowedNow(req[r].actor, req[r].org, s)
<1>1. IInv /\ [Next]_membershipVars => [Safe]_membershipVars
  <2> SUFFICES ASSUME IInv, Next, NEW r \in Requests,
                      req[r].pc = "scopes", req'[r].pc = "allowed",
                      NEW s \in req[r].scopes
               PROVE  AllowedNow(req[r].actor, req[r].org, s)
    OBVIOUS
  <2> DEFINE q == req[r]
  <2>1. q # Idle
    BY DEF Idle
  <2>2. /\ q.held \in Roles /\ q.org \in Orgs
        /\ \A m \in members : m.id = q.row => m.user = q.actor /\ m.org = q.org
        /\ q.held = "owner" => q.actor = creator[q.org]
        /\ creator[q.org] # Nobody
    BY <2>1, ActiveRequest DEF IInv, StaleReadsHold
  <2>3. Decision(q)
    <3>1. \A p \in Requests : \A x : req' = [req EXCEPT ![p] = x] => (p = r => x.pc = "allowed")
      BY DEF IInv, TypeOK
    <3>2. \A p \in Requests : \A x : req' = [req EXCEPT ![p] = x] => p = r
      BY DEF IInv, TypeOK
    <3>3. ASSUME NEW p \in Requests, BeginAdd(p) \/ BeginUpdate(p) \/ BeginRemove(p)
                                       \/ BeginAuthorize(p) \/ ReadTarget(p)
          PROVE FALSE
      <4>1. \E x : req' = [req EXCEPT ![p] = x]
        <5>1. CASE BeginAdd(p) \/ BeginUpdate(p)
          BY <5>1 DEF BeginAdd, BeginUpdate, Grant
        <5>2. CASE BeginRemove(p)
          BY <5>2 DEF BeginRemove
        <5>3. CASE BeginAuthorize(p)
          BY <5>3 DEF BeginAuthorize
        <5>4. CASE ReadTarget(p)
          BY <5>4 DEF ReadTarget
        <5> QED BY <3>3, <5>1, <5>2, <5>3, <5>4
      <4>2. p = r
        BY <3>2, <4>1
      <4> QED BY <2>1, <3>3, <4>2
              DEF BeginAdd, BeginUpdate, BeginRemove, BeginAuthorize, ReadTarget
    <3>4. ASSUME NEW p \in Requests, WriteAdd(p) \/ WriteUpdate(p) \/ WriteRemove(p)
                                       \/ Abandon(p)
          PROVE FALSE
      <4>1. req' = [req EXCEPT ![p] = Idle]
        BY <3>4 DEF WriteAdd, WriteUpdate, WriteRemove, Abandon
      <4> QED BY <3>1, <3>2, <4>1 DEF Idle
    <3>5. ASSUME NEW p \in Requests, Decide(p) PROVE Decision(q)
      <4>1. p = r
        BY <3>2, <3>5 DEF Decide
      <4> QED BY <3>1, <3>5, <4>1 DEF Decide, Idle
    <3>6. ASSUME NEW u \in Users, NEW o \in Orgs, CreateOrganization(u, o) PROVE FALSE
      BY <3>6 DEF CreateOrganization
    <3> QED BY <3>3, <3>4, <3>5, <3>6 DEF Next, Step
  <2>4. Allows(q.held, GrantedTo(q), s)
    BY <2>3 DEF Decision
  <2>5. CASE q.held = "owner"
    BY <2>2, <2>5 DEF IInv, OneOwner, AllowedNow
  <2>6. CASE q.held # "owner"
    <3>1. PICK m \in members : m.id = q.row /\ s \in m.scopes
      BY <2>4, <2>6 DEF Allows, GrantedTo
    <3>2. RoleSupports(m.role, s)
      BY <3>1 DEF IInv, ScopesFitRole, ScopesSupported
    <3> QED BY <2>2, <3>1, <3>2 DEF AllowedNow
  <2> QED BY <2>5, <2>6
<1> QED BY <1>1, Inductive, PTL DEF Spec, TornReadsAreSafe

\* A write by membership identifier takes away or rewrites the row its request read, of
\* the member and the organization the request names, and no other (update_member,
\* remove_member).
THEOREM WritesHit == Spec => WritesHitWhatTheyRead
<1> DEFINE Hit == \A r \in Requests : Ends(r) =>
                    \A m \in members \ members' :
                      m.id = req[r].row /\ m.user = req[r].target /\ m.org = req[r].org
<1>1. ASSUME IInv, Next, NEW r \in Requests, Ends(r), NEW m \in members \ members'
      PROVE  m.id = req[r].row /\ m.user = req[r].target /\ m.org = req[r].org
  <2>1. PICK p \in Requests : WriteUpdate(p) \/ WriteRemove(p)
    <3>1. \A u \in Users, o \in Orgs : ~CreateOrganization(u, o)
      BY <1>1 DEF CreateOrganization, InsertMember
    <3>2. PICK p \in Requests : Step(p)
      BY <1>1, <3>1 DEF Next
    <3>3. ~WriteAdd(p)
      BY <1>1 DEF WriteAdd, InsertMember
    <3>4. ~(BeginAdd(p) \/ BeginUpdate(p) \/ BeginRemove(p) \/ BeginAuthorize(p)
            \/ ReadTarget(p) \/ Decide(p) \/ Abandon(p))
      BY <1>1 DEF BeginAdd, BeginUpdate, BeginRemove, BeginAuthorize, ReadTarget, Decide, Abandon
    <3> QED BY <3>2, <3>3, <3>4 DEF Step
  <2>2. p = r
    BY <1>1, <2>1 DEF WriteUpdate, WriteRemove, Ends, IInv, TypeOK
  <2>3. req[r].pc = "write" /\ req[r].kind # "add" /\ req[r] # Idle
    BY <2>1, <2>2 DEF WriteUpdate, WriteRemove, Idle
  <2>4. m.id = req[r].row
    <3>1. CASE WriteUpdate(r)
      BY <1>1, <3>1 DEF WriteUpdate, Matches
    <3>2. CASE WriteRemove(r)
      BY <1>1, <3>2 DEF WriteRemove, Matches
    <3> QED BY <2>1, <2>2, <3>1, <3>2
  <2> QED BY <1>1, <2>3, <2>4 DEF IInv, StaleReadsHold
<1>2. IInv /\ [Next]_membershipVars => [Hit]_membershipVars
  BY <1>1
<1> QED BY <1>2, Inductive, PTL DEF Spec, WritesHitWhatTheyRead
=============================================================================
