---------------------------- MODULE MCHubStorage ----------------------------
(***************************************************************************)
(* Small universes of descriptors for TLC.                                 *)
(***************************************************************************)
EXTENDS HubStorage, TLC

CONSTANTS alice, bob, k1, k2, capability, main

MCIdentities == {alice, bob}
MCSchemas == {capability, Revocation, KeyRotation}
MCTopics == {main}
MCRoutingKeys == {k1, k2}

Make(id, publisher, schema, seq, time, ttl, keys, payload) ==
  [id |-> id, authentic |-> TRUE, oversize |-> FALSE,
   publisher |-> publisher, schema_hash |-> schema, topic |-> main,
   sequence |-> seq, timestamp |-> time, ttl |-> ttl,
   routing_keys |-> keys, payload |-> payload]

\* Versions of alice's slot that move between routing keys.  The second one
\* is newer and shorter lived than the first.
Version1 == Make("v1", alice, capability, 1, 0, 3, <<k1>>, Opaque)
Version2 == Make("v2", alice, capability, 2, 0, 1, <<k2>>, Opaque)
Version2b == Make("v2b", alice, capability, 2, 1, 2, <<k1, k2>>, Opaque)

\* Bob shares a routing key with alice.
Neighbour == Make("nb", bob, capability, 1, 1, 1, <<k2>>, Opaque)

Forged == [Neighbour EXCEPT !.id = "forged", !.authentic = FALSE]

OwnRevocation ==
  Make("rev", alice, Revocation, 1, 0, 2, <<k1>>, [target_id |-> "v1"])

MCDescriptors ==
  {Version1, Version2, Version2b, Neighbour, Forged, OwnRevocation}

FewDescriptors == {Version1, Version2, Neighbour}

MCIds == {"v1", "v2", "v2b", "nb", "forged", "rev"}
=============================================================================
