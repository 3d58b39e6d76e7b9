---------------------------- MODULE MCHubGossip ----------------------------
(***************************************************************************)
(* Two hubs linked one way or both ways, two versions of one slot and a    *)
(* descriptor of another one, between them in the table.                   *)
(***************************************************************************)
EXTENDS HubGossip, TLC

CONSTANTS alice, k1, capability, main, side, a, b

MCIdentities == {alice}
MCSchemas == {capability, Revocation, KeyRotation}
MCTopics == {main, side}
MCRoutingKeys == {k1}

Make(id, topic, seq) ==
  [id |-> id, authentic |-> TRUE, oversize |-> FALSE,
   publisher |-> alice, schema_hash |-> capability, topic |-> topic,
   sequence |-> seq, timestamp |-> 0, ttl |-> 1,
   routing_keys |-> <<k1>>, payload |-> Opaque]

MCIds == {"new", "side", "old"}
TwoVersions == {Make("old", main, 1), Make("new", main, 2)}
TwoSlots == TwoVersions \cup {Make("side", side, 1)}

MCRank == [id \in MCIds |-> CASE id = "new" -> 1 [] id = "side" -> 2 [] id = "old" -> 3]

Pair == {a, b}
OneWay == {<<a, b>>}
BothWays == {<<a, b>>, <<b, a>>}
=============================================================================
