------------------------- MODULE MCDescriptorStore -------------------------
(***************************************************************************)
(* Small universes of descriptors for TLC.                                 *)
(***************************************************************************)
EXTENDS DescriptorStore, TLC

CONSTANTS alice, bob, k1, k2, capability, main, other

MCIdentities == {alice, bob}
MCSchemas == {capability, Revocation, KeyRotation}
MCTopics == {main, other}
MCRoutingKeys == {k1, k2}

\* An authentic descriptor; the arguments are the fields that vary.
Make(id, publisher, schema, topic, seq, time, ttl, keys, payload) ==
  [id |-> id, authentic |-> TRUE, oversize |-> FALSE,
   publisher |-> publisher, schema_hash |-> schema, topic |-> topic,
   sequence |-> seq, timestamp |-> time, ttl |-> ttl,
   routing_keys |-> keys, payload |-> payload]

\* Three versions of one slot of alice, moving between routing keys, the last
\* two with the same sequence number.
Version1 == Make("v1", alice, capability, main, 1, 0, 2, <<k1>>, Opaque)
Version2 == Make("v2", alice, capability, main, 2, 1, 2, <<k2, k2>>, Opaque)
Version2b == Make("v2b", alice, capability, main, 2, 1, 1, <<k1, k2>>, Opaque)

\* Stamped ahead of the clock, within the tolerated skew when now is 0.
Ahead == Make("ahead", bob, capability, main, 3, 1, 1, <<k2>>, Opaque)

\* Revocations of Version1 by its publisher and by somebody else, and one
\* that does not parse.
OwnRevocation ==
  Make("rev", alice, Revocation, main, 1, 0, 1, <<k1>>, [target_id |-> "v1"])
ForeignRevocation ==
  Make("foreign", bob, Revocation, main, 1, 0, 2, <<k1>>, [target_id |-> "v1"])
BrokenRevocation ==
  Make("broken", bob, Revocation, main, 2, 0, 3, <<k1>>, Malformed)

\* Rotations of alice's key: a fork of the first that bob signs, and a
\* successor of the first, in another slot, that expires before the others.
Rotation(id, publisher, topic, ttl, new, rseq) ==
  Make(id, publisher, KeyRotation, topic, 1, 0, ttl, <<k1>>,
       [old_identity |-> alice, new_identity |-> new, rotation_seq |-> rseq])
Rotation1 == Rotation("r1", alice, main, 3, bob, 1)
Rotation1b == Rotation("r1b", bob, main, 3, alice, 1)
Rotation2 == Rotation("r2", alice, other, 1, alice, 2)

\* One descriptor per check of validate that only it fails.
Invalid ==
  {[Version1 EXCEPT !.id = "i1", !.authentic = FALSE],
   [Version1 EXCEPT !.id = "i2", !.oversize = TRUE],
   [Version1 EXCEPT !.id = "i3", !.ttl = MIN_TTL - 1],
   [Version1 EXCEPT !.id = "i4", !.ttl = MAX_TTL + 1],
   [Version1 EXCEPT !.id = "i5", !.routing_keys = <<>>],
   [Version1 EXCEPT !.id = "i6", !.routing_keys = <<k1, k1, k1>>],
   [Version1 EXCEPT !.id = "i7", !.timestamp = MaxTime + MAX_CLOCK_SKEW + 1]}

MCDescriptors ==
  {Version1, Version2, Version2b, Ahead, OwnRevocation, ForeignRevocation,
   BrokenRevocation, Rotation1, Rotation1b, Rotation2} \cup Invalid

MCIds == {"v1", "v2", "v2b", "ahead", "rev", "foreign", "broken",
          "r1", "r1b", "r2", "i1", "i2", "i3", "i4", "i5", "i6", "i7"}
=============================================================================
