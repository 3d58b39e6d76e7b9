----------------------------- MODULE MCTenants -----------------------------
(***************************************************************************)
(* Two tenants, two identities, whose DIDs an operator may mix up, and one *)
(* challenge that may outlive its tenant; a balance that covers one of two *)
(* deductions.                                                             *)
(***************************************************************************)
EXTENDS Tenants

CONSTANTS t1, t2, alice, bob, c1, secret, other

MCTenants == {t1, t2}
MCIdentities == {alice, bob}
MCChallenges == {c1}
MCTiers == {"free"}
MCBearers == {secret, other}
MCQuotaRequests == {[max_descriptors |-> 5, storage |-> Absent, mu_limit |-> -5]}
MCCosts == {6000}
=============================================================================
