---------------------------- MODULE Descriptors ----------------------------
(***************************************************************************)
(* The descriptor envelope of mesh-core: the data every store, peer and    *)
(* node of the mesh exchanges, and its stateless validation.               *)
(*                                                                         *)
(* A descriptor is a record.  Its bytes are abstracted to what the stores  *)
(* tell apart: `authentic` stands for "the id recomputes from the fields   *)
(* and the signature verifies", `oversize` for "payload or topic is too    *)
(* long", and the payload of a control descriptor is the parsed CBOR map,  *)
(* or Malformed when parsing it fails.  One unit of time stands for any    *)
(* number of microseconds.                                                 *)
(***************************************************************************)
EXTENDS Integers, Sequences, FiniteSets

CONSTANTS
  Identities,       \* public keys
  Schemas,          \* schema hashes
  Topics,           \* publisher-chosen slots
  RoutingKeys,      \* DHT keys a descriptor is stored under
  Ids,              \* content hashes of descriptors
  Descriptors,      \* the descriptors that are ever sent to the system
  Revocation,       \* SCHEMA_HASH_CORE_REVOCATION
  KeyRotation,      \* SCHEMA_HASH_CORE_KEY_ROTATION
  Opaque,           \* the payload of any other schema
  Malformed,        \* a control payload that does not parse
  MIN_TTL, MAX_TTL, MAX_CLOCK_SKEW, MAX_ROUTING_KEYS

\* The payloads the stores look into.
RevocationPayload == [target_id : Ids]

RotationPayload ==
  [old_identity : Identities, new_identity : Identities, rotation_seq : Nat]

Descriptor ==
  [id : Ids, authentic : BOOLEAN, oversize : BOOLEAN,
   publisher : Identities, schema_hash : Schemas, topic : Topics,
   sequence : Nat, timestamp : Nat, ttl : Nat,
   routing_keys : Seq(RoutingKeys),
   payload : {Opaque, Malformed} \cup RevocationPayload \cup RotationPayload]

ASSUME LimitsAssumption ==
  /\ MIN_TTL \in Nat \ {0} /\ MAX_TTL \in Nat /\ MIN_TTL <= MAX_TTL
  /\ MAX_CLOCK_SKEW \in Nat
  /\ MAX_ROUTING_KEYS \in Nat

ASSUME SchemasAssumption ==
  /\ Revocation \in Schemas /\ KeyRotation \in Schemas
  /\ Revocation # KeyRotation

ASSUME DescriptorsAssumption ==
  \A d \in Descriptors :
    /\ d \in Descriptor
    /\ d.schema_hash = Revocation => d.payload \in {Malformed} \cup RevocationPayload
    /\ d.schema_hash = KeyRotation => d.payload \in {Malformed} \cup RotationPayload

\* compute_id is a collision-free content hash: two descriptors whose ids
\* recompute have the same id only when all their fields agree.
ASSUME ContentHashAssumption ==
  \A d, e \in Descriptors :
    d.authentic /\ e.authentic /\ d.id = e.id => d = e

-----------------------------------------------------------------------------

RoutingKeysOf(d) == {d.routing_keys[i] : i \in 1..Len(d.routing_keys)}

\* The slot a descriptor competes for: publisher + schema_hash + topic.
DedupKey(d) == <<d.publisher, d.schema_hash, d.topic>>

DedupKeys == Identities \X Schemas \X Topics

EffectiveStart(d, t) == IF d.timestamp < t THEN d.timestamp ELSE t

Expired(d, t) == EffectiveStart(d, t) + d.ttl <= t

\* Descriptor::validate, Section 2.2 steps 1 to 7.
validate(d, t) ==
  /\ d.authentic
  /\ ~Expired(d, t)
  /\ d.timestamp <= t + MAX_CLOCK_SKEW
  /\ MIN_TTL <= d.ttl /\ d.ttl <= MAX_TTL
  /\ d.routing_keys # <<>> /\ Len(d.routing_keys) <= MAX_ROUTING_KEYS
  /\ ~d.oversize

=============================================================================
