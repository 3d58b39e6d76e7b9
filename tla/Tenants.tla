------------------------------ MODULE Tenants ------------------------------
(***************************************************************************)
(* The tenant database of a hub and the admin API on it.  A handler holds  *)
(* the mutex around TenantManager from its first statement to its last,    *)
(* so it is one step; but no handler opens a transaction, so when a        *)
(* statement fails or the hub stops, the statements before it stay done.   *)
(*                                                                         *)
(* Quota values are those of tier_quotas, `storage` being                  *)
(* max_storage_bytes in KiB.  current_descriptors, current_bytes and the   *)
(* rates are written once, at creation, and left out.                      *)
(***************************************************************************)
EXTENDS Integers, FiniteSets

CONSTANTS
  Tenants,          \* UUIDs of tenants
  Identities,       \* public keys; also their DIDs
  Challenges,       \* UUIDs of challenges
  Tiers,            \* names of tiers in requests
  Absent,           \* a row that a table lacks
  Bearers,          \* bearer tokens in requests
  operator_token,   \* the configured token, or NoToken
  NoToken,
  QuotaRequests,    \* quotas asked for; one that is left out is Absent
  Costs,            \* metering units asked for
  CHALLENGE_TTL,
  MaxTime           \* bound on the clock

ASSUME TokenAssumption == NoToken \notin Bearers

ASSUME AmountsAssumption ==
  /\ Costs \subseteq Nat
  /\ Absent \notin Int
  /\ QuotaRequests \subseteq
       [max_descriptors : Nat \cup {Absent}, storage : Nat \cup {Absent},
        mu_limit : Int \cup {Absent}]
  /\ CHALLENGE_TTL \in Nat \ {0} /\ MaxTime \in Nat

TenantRow ==
  [max_descriptors : Nat, storage : Nat, mu_balance : Nat, mu_limit : Int]

\* The action and nonce of a challenge only enter the signed bytes.
DIDAuthChallenge == [tenant : Tenants, expiry : Nat, consumed : BOOLEAN]

ASSUME AbsentAssumption == Absent \notin TenantRow /\ Absent \notin DIDAuthChallenge

VARIABLES
  tenants,       \* table tenants:             tenant -> row, or Absent
  identities,    \* table tenant_identities:   <<tenant, identity, did>>
  challenges,    \* table did_auth_challenges: challenge -> row, or Absent
  now,           \* the wall clock
  issued,        \* tenant UUIDs given out so far
  uses           \* history: challenge -> identities it has registered

vars == <<tenants, identities, challenges, now, issued, uses>>

\* Every column keeps its type: deduct_mu takes no balance below zero.
TypeOK ==
  /\ tenants \in [Tenants -> TenantRow \cup {Absent}]
  /\ identities \subseteq Tenants \X Identities \X Identities
  /\ challenges \in [Challenges -> DIDAuthChallenge \cup {Absent}]
  /\ now \in 0..MaxTime
  /\ issued \subseteq Tenants
  /\ uses \in [Challenges -> Nat]

Init ==
  /\ tenants = [t \in Tenants |-> Absent]
  /\ identities = {}
  /\ challenges = [c \in Challenges |-> Absent]
  /\ now = 0
  /\ issued = {}
  /\ uses = [c \in Challenges |-> 0]

-----------------------------------------------------------------------------
(* TenantManager, statement by statement.                                   *)

tier_quotas(tier) ==
  CASE tier = "starter"    -> [max_descriptors |-> 1000, storage |-> 10240, mu_limit |-> 100000]
    [] tier = "pro"        -> [max_descriptors |-> 10000, storage |-> 102400, mu_limit |-> 1000000]
    [] tier = "enterprise" -> [max_descriptors |-> 1000000, storage |-> 10485760, mu_limit |-> 10000000]
    [] OTHER               -> [max_descriptors |-> 100, storage |-> 1024, mu_limit |-> 10000]

NewTenant(tier) ==
  LET quotas == tier_quotas(tier) IN
  [max_descriptors |-> quotas.max_descriptors, storage |-> quotas.storage,
   mu_balance |-> quotas.mu_limit, mu_limit |-> quotas.mu_limit]

get_tenant(t) == tenants[t] # Absent

\* INSERT OR REPLACE: the primary key is the tenant and the identity.
WithIdentity(t, i, did) ==
  {row \in identities : row[1] # t \/ row[2] # i} \cup {<<t, i, did>>}

\* Mutation: tenant_identities has no foreign key.
CanInsert_NoForeignKey(t) == TRUE

\* FOREIGN KEY (tenant_id) REFERENCES tenants(id), which the bundled SQLite
\* enforces.
CanInsert(t) == get_tenant(t)

\* Mutation: the test of the balance is missing.
CanPay_Unchecked(t, cost) == get_tenant(t)

CanPay(t, cost) == get_tenant(t) /\ tenants[t].mu_balance >= cost

NewChallenge(t) ==
  [tenant |-> t, expiry |-> now + CHALLENGE_TTL, consumed |-> FALSE]

is_expired(c) == now >= challenges[c].expiry

\* get_challenge finds the row, unconsumed, and it has not expired.
Redeemable(c) ==
  /\ challenges[c] # Absent
  /\ ~challenges[c].consumed
  /\ ~is_expired(c)

Consumed(c) == [challenges EXCEPT ![c].consumed = TRUE]

-----------------------------------------------------------------------------
(* Handlers of the operator.                                                *)

check_operator_token(bearer) ==
  operator_token = NoToken \/ bearer = operator_token

CreateTenant(t, tier) ==
  /\ t \notin issued
  /\ issued' = issued \cup {t}
  /\ tenants' = [tenants EXCEPT ![t] = NewTenant(tier)]
  /\ UNCHANGED <<identities, challenges, now, uses>>

\* DELETE FROM tenant_identities, the first statement of delete_tenant.
WithoutTenant(t) == {row \in identities : row[1] # t}

\* The second statement follows, or fails, or is never reached.
DeleteTenant(t) ==
  /\ identities' = WithoutTenant(t)
  /\ \/ tenants' = [tenants EXCEPT ![t] = Absent]
     \/ UNCHANGED tenants
  /\ UNCHANGED <<challenges, now, issued, uses>>

\* The did of the request is not compared with the identity.
RegisterIdentity(t, i, did) ==
  /\ CanInsert(t)
  /\ identities' = WithIdentity(t, i, did)
  /\ UNCHANGED <<tenants, challenges, now, issued, uses>>

RemoveIdentity(t, did) ==
  /\ identities' = {row \in identities : row[1] # t \/ row[3] # did}
  /\ UNCHANGED <<tenants, challenges, now, issued, uses>>

Asked(value, current) == IF value = Absent THEN current ELSE value

\* The row after the first n of the three UPDATEs.
Updated(row, asked, n) ==
  [row EXCEPT
     !.max_descriptors = IF n >= 1 THEN Asked(asked.max_descriptors, @) ELSE @,
     !.storage = IF n >= 2 THEN Asked(asked.storage, @) ELSE @,
     !.mu_limit = IF n >= 3 THEN Asked(asked.mu_limit, @) ELSE @]

UpdateQuotas(t, asked) ==
  /\ get_tenant(t)
  /\ \E n \in 0..3 : tenants' = [tenants EXCEPT ![t] = Updated(@, asked, n)]
  /\ UNCHANGED <<identities, challenges, now, issued, uses>>

OperatorRequest ==
  \E bearer \in Bearers, t \in Tenants :
    /\ check_operator_token(bearer)
    /\ \/ \E tier \in Tiers : CreateTenant(t, tier)
       \/ DeleteTenant(t)
       \/ \E i, did \in Identities : RegisterIdentity(t, i, did)
       \/ \E did \in Identities : RemoveIdentity(t, did)
       \/ \E asked \in QuotaRequests : UpdateQuotas(t, asked)

-----------------------------------------------------------------------------
(* Handlers without a token, and metering.                                  *)

CreateIdentityChallenge(t, c) ==
  /\ get_tenant(t)
  /\ challenges[c] = Absent
  /\ challenges' = [challenges EXCEPT ![c] = NewChallenge(t)]
  /\ UNCHANGED <<tenants, identities, now, issued, uses>>

\* The INSERT for an identity that has signed the challenge; its DID is its own.
Registered(t, c, i) ==
  /\ CanInsert(t)
  /\ identities' = WithIdentity(t, i, i)
  /\ uses' = [uses EXCEPT ![c] = @ + 1]

\* The INSERT fails, because the tenant is gone or for an error of the database,
\* or the hub stops before it.
NotRegistered == UNCHANGED <<identities, uses>>

\* Mutation: the identity is registered before the challenge is consumed.
VerifyIdentity_RegisterFirst(t, c, i) ==
  /\ Redeemable(c)
  /\ Registered(t, c, i)
  /\ challenges' = Consumed(c) \/ UNCHANGED challenges
  /\ UNCHANGED <<tenants, now, issued>>

\* The tenant of the request is the one that is used; the one in the row of
\* the challenge is not read again.
VerifyIdentity(t, c, i) ==
  /\ Redeemable(c)
  /\ challenges' = Consumed(c)
  /\ Registered(t, c, i) \/ NotRegistered
  /\ UNCHANGED <<tenants, now, issued>>

PublicRequest ==
  \E t \in Tenants, c \in Challenges :
    \/ CreateIdentityChallenge(t, c)
    \/ \E i \in Identities : VerifyIdentity(t, c, i)

\* deduct_mu: under the mutex nothing changes the balance between the SELECT
\* and the UPDATE.
DeductMu(t, cost) ==
  /\ CanPay(t, cost)
  /\ tenants' = [tenants EXCEPT ![t].mu_balance = @ - cost]
  /\ UNCHANGED <<identities, challenges, now, issued, uses>>

Tick ==
  /\ now < MaxTime
  /\ now' = now + 1
  /\ UNCHANGED <<tenants, identities, challenges, issued, uses>>

Next ==
  \/ OperatorRequest
  \/ PublicRequest
  \/ \E t \in Tenants, cost \in Costs : DeductMu(t, cost)
  \/ Tick

Spec == Init /\ [][Next]_vars

-----------------------------------------------------------------------------
(* Safety.                                                                  *)

\* A challenge registers at most one identity, once, whichever of the
\* statements of verify_identity fail and wherever the hub stops: what is
\* registered was consumed first.
ChallengeUsedOnce == \A c \in Challenges : uses[c] <= 1

Registry == INSTANCE TenantRegistry WITH
  existing <- {t \in Tenants : get_tenant(t)},
  registered <- {<<row[1], row[2]>> : row \in identities}

\* The three tables keep the promise the hook of the hub relies on: no
\* identity is registered to a tenant that is not there, be it through a
\* challenge that outlives its tenant or through a deletion that stops half-way.
ImplementsRegistry == Registry!Spec
=============================================================================
