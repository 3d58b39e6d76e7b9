--------------------------- MODULE TenantsProofs ---------------------------
(***************************************************************************)
(* Proofs about Tenants, for any tenants, identities, challenges, amounts  *)
(* and clock: the tables keep their type, a challenge registers once, and  *)
(* the database implements TenantRegistry.                                 *)
(***************************************************************************)
EXTENDS Tenants, TLAPS

-----------------------------------------------------------------------------
(* The inductive invariant.                                                 *)

\* The foreign key of tenant_identities, in every state.
RowsHaveTenants == \A row \in identities : get_tenant(row[1])

\* Its primary key.
OneRowPerIdentity ==
  \A r1, r2 \in identities : r1[1] = r2[1] /\ r1[2] = r2[2] => r1 = r2

\* A challenge that is not consumed has registered nobody.
ConsumedFirst ==
  \A c \in Challenges :
    /\ uses[c] <= 1
    /\ challenges[c] = Absent \/ ~challenges[c].consumed => uses[c] = 0

Inv == TypeOK /\ RowsHaveTenants /\ OneRowPerIdentity /\ ConsumedFirst

\* Of a row, its tenant is one of Tenants and its keys are identities.
LEMMA RowTyping ==
  ASSUME TypeOK, NEW row \in identities
  PROVE  /\ row[1] \in Tenants /\ row[2] \in Identities /\ row[3] \in Identities
         /\ row = <<row[1], row[2], row[3]>>
  BY DEF TypeOK

\* A new tenant's row is a row, whatever the name of its tier.
LEMMA NewTenantTyping ==
  ASSUME NEW tier
  PROVE  NewTenant(tier) \in TenantRow
<1>1. tier_quotas(tier) \in [max_descriptors : Nat, storage : Nat, mu_limit : Nat]
  BY DEF tier_quotas
<1> QED
  BY <1>1 DEF NewTenant, TenantRow

\* INSERT OR REPLACE keeps both keys of tenant_identities, and adds one pair.
LEMMA Insertion ==
  ASSUME Inv, NEW t \in Tenants, NEW i \in Identities, NEW did \in Identities,
         CanInsert(t), identities' = WithIdentity(t, i, did), UNCHANGED tenants
  PROVE  /\ identities' \subseteq Tenants \X Identities \X Identities
         /\ RowsHaveTenants' /\ OneRowPerIdentity'
         /\ {<<row[1], row[2]>> : row \in identities'} =
              {<<row[1], row[2]>> : row \in identities} \cup {<<t, i>>}
<1> DEFINE new == <<t, i, did>>
<1>1. /\ new \in Tenants \X Identities \X Identities
      /\ new[1] = t /\ new[2] = i
  OBVIOUS
<1>2. \A row \in identities' :
         row = new \/ (row \in identities /\ (row[1] # t \/ row[2] # i))
  BY DEF WithIdentity
<1>3. identities' \subseteq Tenants \X Identities \X Identities
  BY <1>1, <1>2 DEF Inv, TypeOK
<1>4. RowsHaveTenants'
  BY <1>1, <1>2 DEF Inv, RowsHaveTenants, CanInsert, get_tenant
<1>5. OneRowPerIdentity'
  BY <1>1, <1>2 DEF Inv, OneRowPerIdentity
<1>6. {<<row[1], row[2]>> : row \in identities'} =
        {<<row[1], row[2]>> : row \in identities} \cup {<<t, i>>}
  <2>1. ASSUME NEW row \in identities, row[1] = t, row[2] = i
        PROVE  <<row[1], row[2]>> = <<t, i>>
    BY <2>1
  <2>2. new \in identities'
    BY DEF WithIdentity
  <2>3. ASSUME NEW row \in identities, ~(row[1] = t /\ row[2] = i)
        PROVE  row \in identities'
    BY <2>3 DEF WithIdentity
  <2> HIDE DEF new
  <2> QED BY <1>1, <1>2, <2>1, <2>2, <2>3
<1> QED BY <1>3, <1>4, <1>5, <1>6

\* Deleted rows break no key.
LEMMA Deletion ==
  ASSUME Inv, identities' \subseteq identities
  PROVE  /\ identities' \subseteq Tenants \X Identities \X Identities
         /\ OneRowPerIdentity'
  BY DEF Inv, TypeOK, OneRowPerIdentity

-----------------------------------------------------------------------------
(* Every step keeps it.                                                     *)

LEMMA InitInv == Init => Inv
<1> SUFFICES ASSUME Init PROVE Inv
  OBVIOUS
<1>1. TypeOK
  BY AmountsAssumption DEF Init, TypeOK
<1>2. ConsumedFirst
  BY DEF Init, ConsumedFirst
<1> QED
  BY <1>1, <1>2 DEF Init, Inv, RowsHaveTenants, OneRowPerIdentity

LEMMA StepInv == Inv /\ [Next]_vars => Inv'
<1> SUFFICES ASSUME Inv, [Next]_vars PROVE Inv'
  OBVIOUS
<1> USE AmountsAssumption, AbsentAssumption
<1>1. ASSUME NEW t \in Tenants, NEW tier \in Tiers, CreateTenant(t, tier)
      PROVE  Inv'
  <2>1. NewTenant(tier) \in TenantRow /\ NewTenant(tier) # Absent
    BY NewTenantTyping
  <2>2. TypeOK'
    BY <1>1, <2>1 DEF Inv, TypeOK, CreateTenant
  <2>3. RowsHaveTenants'
    BY <1>1, <2>1, RowTyping DEF Inv, TypeOK, RowsHaveTenants, CreateTenant, get_tenant
  <2> QED
    BY <1>1, <2>2, <2>3 DEF Inv, CreateTenant, OneRowPerIdentity, ConsumedFirst
<1>2. ASSUME NEW t \in Tenants, DeleteTenant(t)
      PROVE  Inv'
  <2>1. identities' \subseteq identities
    BY <1>2 DEF DeleteTenant, WithoutTenant
  <2>2. TypeOK'
    BY <1>2, <2>1, Deletion DEF Inv, TypeOK, DeleteTenant
  <2>3. RowsHaveTenants'
    BY <1>2, RowTyping
       DEF Inv, TypeOK, RowsHaveTenants, DeleteTenant, WithoutTenant, get_tenant
  <2> QED
    BY <1>2, <2>1, <2>2, <2>3, Deletion DEF Inv, DeleteTenant, ConsumedFirst
<1>3. ASSUME NEW t \in Tenants, NEW i \in Identities, NEW did \in Identities,
             RegisterIdentity(t, i, did)
      PROVE  Inv'
  <2>1. CanInsert(t) /\ identities' = WithIdentity(t, i, did) /\ UNCHANGED tenants
    BY <1>3 DEF RegisterIdentity
  <2> QED
    BY <1>3, <2>1, Insertion DEF Inv, TypeOK, RegisterIdentity, ConsumedFirst
<1>4. ASSUME NEW t \in Tenants, NEW did \in Identities, RemoveIdentity(t, did)
      PROVE  Inv'
  <2>1. identities' \subseteq identities
    BY <1>4 DEF RemoveIdentity
  <2> QED
    BY <1>4, <2>1, Deletion
       DEF Inv, TypeOK, RemoveIdentity, RowsHaveTenants, ConsumedFirst, get_tenant
<1>5. ASSUME NEW t \in Tenants, NEW asked \in QuotaRequests, UpdateQuotas(t, asked)
      PROVE  Inv'
  <2>1. tenants[t] \in TenantRow
    BY <1>5 DEF Inv, TypeOK, UpdateQuotas, get_tenant
  <2>2. ASSUME NEW n \in 0..3
        PROVE  Updated(tenants[t], asked, n) \in TenantRow
    BY <2>1, <2>2 DEF Updated, Asked, TenantRow
  <2>3. PICK n \in 0..3 : tenants' = [tenants EXCEPT ![t] = Updated(@, asked, n)]
    BY <1>5 DEF UpdateQuotas
  <2>4. TypeOK'
    BY <1>5, <2>2, <2>3 DEF Inv, TypeOK, UpdateQuotas
  <2>5. RowsHaveTenants'
    BY <1>5, <2>2, <2>3, RowTyping DEF Inv, TypeOK, RowsHaveTenants, UpdateQuotas, get_tenant
  <2> QED
    BY <1>5, <2>4, <2>5 DEF Inv, UpdateQuotas, OneRowPerIdentity, ConsumedFirst
<1>6. ASSUME NEW t \in Tenants, NEW c \in Challenges, CreateIdentityChallenge(t, c)
      PROVE  Inv'
  <2>1. NewChallenge(t) \in DIDAuthChallenge /\ ~NewChallenge(t).consumed
    BY DEF Inv, TypeOK, NewChallenge, DIDAuthChallenge
  <2>2. TypeOK'
    BY <1>6, <2>1 DEF Inv, TypeOK, CreateIdentityChallenge
  <2>3. ConsumedFirst'
    BY <1>6, <2>1 DEF Inv, TypeOK, CreateIdentityChallenge, ConsumedFirst
  <2> QED
    BY <1>6, <2>2, <2>3
       DEF Inv, CreateIdentityChallenge, RowsHaveTenants, OneRowPerIdentity, get_tenant
<1>7. ASSUME NEW t \in Tenants, NEW c \in Challenges, NEW i \in Identities,
             VerifyIdentity(t, c, i)
      PROVE  Inv'
  <2>1. /\ challenges[c] \in DIDAuthChallenge /\ ~challenges[c].consumed
        /\ challenges' = Consumed(c)
        /\ uses[c] = 0
    BY <1>7 DEF Inv, TypeOK, ConsumedFirst, VerifyIdentity, Redeemable
  <2>2. /\ challenges' \in [Challenges -> DIDAuthChallenge \cup {Absent}]
        /\ challenges'[c] # Absent /\ challenges'[c].consumed
        /\ \A d \in Challenges \ {c} : challenges'[d] = challenges[d]
    BY <2>1 DEF Inv, TypeOK, Consumed, DIDAuthChallenge
  <2>3. UNCHANGED <<tenants, now, issued>>
    BY <1>7 DEF VerifyIdentity
  <2>4. CASE Registered(t, c, i)
    <3>1. CanInsert(t) /\ identities' = WithIdentity(t, i, i) /\ uses' = [uses EXCEPT ![c] = @ + 1]
      BY <2>4 DEF Registered
    <3>2. ConsumedFirst' /\ uses' \in [Challenges -> Nat]
      BY <2>1, <2>2, <3>1 DEF Inv, TypeOK, ConsumedFirst
    <3> QED
      BY <2>2, <2>3, <3>1, <3>2, Insertion DEF Inv, TypeOK
  <2>5. CASE NotRegistered
    <3>1. ConsumedFirst'
      BY <2>1, <2>2, <2>5 DEF Inv, ConsumedFirst, NotRegistered
    <3> QED
      BY <2>2, <2>3, <2>5, <3>1
         DEF Inv, TypeOK, NotRegistered, RowsHaveTenants, OneRowPerIdentity, get_tenant
  <2> QED
    BY <1>7, <2>4, <2>5 DEF VerifyIdentity
<1>8. ASSUME NEW t \in Tenants, NEW cost \in Costs, DeductMu(t, cost)
      PROVE  Inv'
  <2>1. tenants[t] \in TenantRow /\ tenants[t].mu_balance >= cost
    BY <1>8 DEF Inv, TypeOK, DeductMu, CanPay, get_tenant
  <2>2. [tenants[t] EXCEPT !.mu_balance = @ - cost] \in TenantRow
    BY <2>1 DEF TenantRow
  <2>3. TypeOK'
    BY <1>8, <2>2 DEF Inv, TypeOK, DeductMu
  <2>4. RowsHaveTenants'
    BY <1>8, <2>2, RowTyping DEF Inv, TypeOK, RowsHaveTenants, DeductMu, get_tenant
  <2> QED
    BY <1>8, <2>3, <2>4 DEF Inv, DeductMu, OneRowPerIdentity, ConsumedFirst
<1>9. ASSUME Tick
      PROVE  Inv'
  BY <1>9 DEF Inv, TypeOK, Tick, RowsHaveTenants, OneRowPerIdentity, ConsumedFirst, get_tenant
<1>10. ASSUME UNCHANGED vars
       PROVE  Inv'
  BY <1>10 DEF Inv, TypeOK, vars, RowsHaveTenants, OneRowPerIdentity, ConsumedFirst, get_tenant
<1> QED
  BY <1>1, <1>2, <1>3, <1>4, <1>5, <1>6, <1>7, <1>8, <1>9, <1>10
     DEF Next, OperatorRequest, PublicRequest

\* The tables keep their types and keys, and no challenge has registered
\* anybody before it was consumed.
THEOREM Invariance == Spec => []Inv
  BY InitInv, StepInv, PTL DEF Spec

\* Every column keeps its type; a balance never goes below zero.
THEOREM TypeCorrect == Spec => []TypeOK
<1>1. Inv => TypeOK
  BY DEF Inv
<1> QED
  BY <1>1, Invariance, PTL

\* verify_identity registers at most one identity for a challenge, wherever its
\* statements fail.
THEOREM ChallengeOnce == Spec => []ChallengeUsedOnce
<1>1. Inv => ChallengeUsedOnce
  BY DEF Inv, ConsumedFirst, ChallengeUsedOnce
<1> QED
  BY <1>1, Invariance, PTL

-----------------------------------------------------------------------------
(* The refinement.                                                          *)

Existing == {t \in Tenants : get_tenant(t)}

Pairs == {<<row[1], row[2]>> : row \in identities}

\* Creating a tenant, or changing the row of one, changes who exists by that one.
LEMMA ExistingAfter ==
  ASSUME TypeOK, NEW t \in Tenants, NEW row \in TenantRow,
         tenants' = [tenants EXCEPT ![t] = row]
  PROVE  Existing' = Existing \cup {t}
  BY AbsentAssumption DEF TypeOK, Existing, get_tenant

\* DELETE without the tenant's row: its identities, all or those with one DID,
\* are gone and no other.
LEMMA PairsAfterDeletion ==
  ASSUME Inv, NEW t \in Tenants, NEW removed \in SUBSET Identities,
         identities' = {row \in identities : row[1] # t \/ row[2] \notin removed}
  PROVE  Pairs' = Pairs \ ({t} \X removed)
<1>1. \A row \in identities : row[1] \in Tenants /\ row[2] \in Identities
  BY RowTyping DEF Inv
<1>2. ASSUME NEW pair \in Pairs'
      PROVE  pair \in Pairs \ ({t} \X removed)
  BY <1>1, <1>2 DEF Pairs
<1>3. ASSUME NEW pair \in Pairs \ ({t} \X removed)
      PROVE  pair \in Pairs'
  <2>1. PICK row \in identities : pair = <<row[1], row[2]>>
    BY DEF Pairs
  <2>2. row \in identities'
    BY <1>1, <2>1
  <2> QED
    BY <2>1, <2>2 DEF Pairs
<1> QED
  BY <1>2, <1>3

LEMMA InitRefines == Init => Registry!Init
  BY DEF Init, Registry!Init, get_tenant

LEMMA StepRefines ==
  Inv /\ [Next]_vars => [Registry!Next]_<<Existing, Pairs>>
<1> SUFFICES ASSUME Inv, [Next]_vars
             PROVE  Registry!Next \/ UNCHANGED <<Existing, Pairs>>
  OBVIOUS
<1> USE AmountsAssumption, AbsentAssumption
<1>a. TypeOK
  BY DEF Inv
<1>1. ASSUME NEW t \in Tenants, NEW tier \in Tiers, CreateTenant(t, tier)
      PROVE  Registry!CreateTenant(t)
  <2>1. Existing' = Existing \cup {t}
    BY <1>a, <1>1, NewTenantTyping, ExistingAfter DEF CreateTenant
  <2>2. Pairs' = Pairs
    BY <1>1 DEF CreateTenant, Pairs
  <2> QED
    BY <2>1, <2>2 DEF Registry!CreateTenant, Existing, Pairs
<1>2. ASSUME NEW t \in Tenants, DeleteTenant(t)
      PROVE  Registry!DeleteTenant(t) \/ Registry!Unregister(t, Identities)
  <2>1. Pairs' = Pairs \ ({t} \X Identities)
    <3>1. identities' = {row \in identities : row[1] # t \/ row[2] \notin Identities}
      BY <1>a, <1>2, RowTyping DEF DeleteTenant, WithoutTenant
    <3> QED
      BY <3>1, PairsAfterDeletion
  <2>2. CASE tenants' = [tenants EXCEPT ![t] = Absent]
    <3>1. Existing' = Existing \ {t}
      BY <1>a, <2>2 DEF Existing, get_tenant, TypeOK
    <3> QED
      BY <2>1, <3>1 DEF Registry!DeleteTenant, Existing, Pairs
  <2>3. CASE UNCHANGED tenants
    <3>1. Existing' = Existing
      BY <2>3 DEF Existing, get_tenant
    <3> QED
      BY <2>1, <3>1 DEF Registry!Unregister, Existing, Pairs
  <2> QED
    BY <1>2, <2>2, <2>3 DEF DeleteTenant
<1>3. ASSUME NEW t \in Tenants, NEW i \in Identities, NEW did \in Identities,
             CanInsert(t), identities' = WithIdentity(t, i, did), UNCHANGED tenants
      PROVE  Registry!Register(t, i)
  <2>1. Pairs' = Pairs \cup {<<t, i>>}
    BY <1>3, Insertion DEF Pairs
  <2>2. t \in Existing /\ Existing' = Existing
    BY <1>3 DEF CanInsert, Existing, get_tenant
  <2> QED
    BY <2>1, <2>2 DEF Registry!Register, Existing, Pairs
<1>4. ASSUME NEW t \in Tenants, NEW did \in Identities, RemoveIdentity(t, did)
      PROVE  \E removed \in SUBSET Identities : Registry!Unregister(t, removed)
  <2> DEFINE removed == {i \in Identities : <<t, i, did>> \in identities}
  <2>1. ASSUME NEW row \in identities
        PROVE  (row[1] # t \/ row[3] # did) <=> (row[1] # t \/ row[2] \notin removed)
    <3>1. row[2] \in Identities /\ row = <<row[1], row[2], row[3]>>
      BY <1>a, RowTyping
    <3>2. ASSUME row[1] = t, row[2] \in removed
          PROVE  row[3] = did
      <4>1. <<t, row[2], did>> \in identities
        BY <3>2
      <4>2. row = <<t, row[2], did>>
        BY <3>2, <4>1 DEF Inv, OneRowPerIdentity
      <4> QED BY <4>2
    <3> QED BY <3>1, <3>2
  <2>2. identities' = {row \in identities : row[1] # t \/ row[2] \notin removed}
    BY <1>4, <2>1 DEF RemoveIdentity
  <2>3. removed \in SUBSET Identities
    OBVIOUS
  <2>4. Pairs' = Pairs \ ({t} \X removed)
    <3> HIDE DEF removed
    <3> QED BY <2>2, <2>3, PairsAfterDeletion
  <2>5. Existing' = Existing
    BY <1>4 DEF RemoveIdentity, Existing, get_tenant
  <2> HIDE DEF removed
  <2> QED
    BY <2>3, <2>4, <2>5 DEF Registry!Unregister, Existing, Pairs
<1>5. ASSUME NEW t \in Tenants, NEW row \in TenantRow, get_tenant(t),
             tenants' = [tenants EXCEPT ![t] = row], UNCHANGED identities
      PROVE  UNCHANGED <<Existing, Pairs>>
  <2>1. Existing' = Existing \cup {t} /\ t \in Existing
    BY <1>a, <1>5, ExistingAfter DEF Existing
  <2> QED
    BY <1>5, <2>1 DEF Pairs
<1>6. ASSUME NEW t \in Tenants, NEW asked \in QuotaRequests, UpdateQuotas(t, asked)
      PROVE  UNCHANGED <<Existing, Pairs>>
  <2>1. tenants[t] \in TenantRow
    BY <1>a, <1>6 DEF TypeOK, UpdateQuotas, get_tenant
  <2>2. PICK n \in 0..3 : tenants' = [tenants EXCEPT ![t] = Updated(@, asked, n)]
    BY <1>6 DEF UpdateQuotas
  <2>3. Updated(tenants[t], asked, n) \in TenantRow
    BY <2>1 DEF Updated, Asked, TenantRow
  <2> QED
    BY <1>5, <1>6, <2>2, <2>3 DEF UpdateQuotas
<1>7. ASSUME NEW t \in Tenants, NEW cost \in Costs, DeductMu(t, cost)
      PROVE  UNCHANGED <<Existing, Pairs>>
  <2>1. tenants[t] \in TenantRow /\ tenants[t].mu_balance >= cost
    BY <1>a, <1>7 DEF TypeOK, DeductMu, CanPay, get_tenant
  <2>2. [tenants[t] EXCEPT !.mu_balance = @ - cost] \in TenantRow
    BY <2>1 DEF TenantRow
  <2> QED
    BY <1>5, <1>7, <2>2 DEF DeductMu, CanPay
<1>8. ASSUME NEW t \in Tenants, NEW c \in Challenges, NEW i \in Identities,
             VerifyIdentity(t, c, i)
      PROVE  Registry!Register(t, i) \/ UNCHANGED <<Existing, Pairs>>
  <2>1. CASE Registered(t, c, i)
    BY <1>3, <1>8, <2>1 DEF VerifyIdentity, Registered
  <2>2. CASE NotRegistered
    BY <1>8, <2>2 DEF VerifyIdentity, NotRegistered, Existing, Pairs, get_tenant
  <2> QED
    BY <1>8, <2>1, <2>2 DEF VerifyIdentity
<1>9. ASSUME NEW t \in Tenants, NEW c \in Challenges, CreateIdentityChallenge(t, c)
      PROVE  UNCHANGED <<Existing, Pairs>>
  BY <1>9 DEF CreateIdentityChallenge, Existing, Pairs, get_tenant
<1>10. ASSUME Tick \/ UNCHANGED vars
       PROVE  UNCHANGED <<Existing, Pairs>>
  BY <1>10 DEF Tick, vars, Existing, Pairs, get_tenant
<1>11. ASSUME NEW t \in Tenants, NEW i \in Identities, NEW did \in Identities,
              RegisterIdentity(t, i, did)
       PROVE  Registry!Register(t, i)
  BY <1>3, <1>11 DEF RegisterIdentity
<1> QED
  BY <1>1, <1>2, <1>4, <1>6, <1>7, <1>8, <1>9, <1>10, <1>11
     DEF Next, OperatorRequest, PublicRequest, Registry!Next

\* The three tables, written statement by statement, implement the registry of
\* tenants and identities that the hook of the hub reads.
THEOREM TenantsImplementRegistry == Spec => ImplementsRegistry
<1>1. Inv /\ [Next]_vars =>
        [Registry!Next]_<<{t \in Tenants : get_tenant(t)},
                          {<<row[1], row[2]>> : row \in identities}>>
  BY StepRefines DEF Existing, Pairs
<1> QED
  BY <1>1, InitRefines, Invariance, PTL DEF Spec, ImplementsRegistry, Registry!Spec
=============================================================================
