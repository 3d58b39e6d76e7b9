--------------------------- MODULE TenantRegistry ---------------------------
(***************************************************************************)
(* What the tenant database promises to the rest of the hub: which         *)
(* tenants there are, and which identities are registered to them.  Its    *)
(* users see nothing of challenges, quotas, statements or crashes.         *)
(***************************************************************************)
EXTENDS FiniteSets

CONSTANTS
  Tenants,      \* ids of tenants; an id is given out once
  Identities    \* public keys

VARIABLES
  existing,     \* the tenants there are
  registered    \* <<tenant, identity>>

Init ==
  /\ existing = {}
  /\ registered = {}

CreateTenant(t) ==
  /\ existing' = existing \cup {t}
  /\ UNCHANGED registered

\* Only a tenant that exists gets an identity.
Register(t, i) ==
  /\ t \in existing
  /\ registered' = registered \cup {<<t, i>>}
  /\ UNCHANGED existing

\* One identity, or all of them, when a deletion comes no further.
Unregister(t, removed) ==
  /\ registered' = registered \ ({t} \X removed)
  /\ UNCHANGED existing

\* A tenant goes together with its identities.
DeleteTenant(t) ==
  /\ existing' = existing \ {t}
  /\ registered' = registered \ ({t} \X Identities)

Next ==
  \E t \in Tenants :
    \/ CreateTenant(t)
    \/ \E i \in Identities : Register(t, i)
    \/ \E removed \in SUBSET Identities : Unregister(t, removed)
    \/ DeleteTenant(t)

Spec == Init /\ [][Next]_<<existing, registered>>

\* The identities of any tenant.
TenantIdentities == {i \in Identities : \E t \in Tenants : <<t, i>> \in registered}
=============================================================================
