--------------------------- MODULE MCHubAdmission ---------------------------
(***************************************************************************)
(* One tenant and one outside identity, one seed, refreshes that may be    *)
(* late by a tick, a limit of one STORE in two instants, and time for two  *)
(* lives of what is stored.                                                *)
(***************************************************************************)
EXTENDS HubAdmission

CONSTANTS hub, alice, t1, compute, ad

MCIdentities == {hub, alice}
MCTenants == {t1}
MCStoreModes == {"Allowlist"}
MCSeedTypes == {compute}
MCBlocked == {}
=============================================================================
