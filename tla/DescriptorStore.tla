-------------------------- MODULE DescriptorStore --------------------------
(***************************************************************************)
(* The in-memory DescriptorStore of mesh-dht: versions of a slot replace   *)
(* one another by sequence, revocations hide their target, key rotations   *)
(* record who succeeds whom, every publisher is rate limited.              *)
(*                                                                         *)
(* The HashMap from routing keys to vectors of descriptors is the pair of  *)
(* its key set `present` and its contents `store` (the order of a vector   *)
(* and a descriptor repeated in one vector are not kept).  The map         *)
(* `sequences` is total, with NoSequence for a key the map lacks, and so   *)
(* is `rotations`.  Each way through store_descriptor_at is an action of   *)
(* its own, with the Result it returns in `status`.                        *)
(***************************************************************************)
EXTENDS StoreRateLimiter

CONSTANT Nobody   \* the successor of an identity that has not rotated

ASSUME NobodyAssumption == Nobody \notin Identities

VARIABLES
  store,        \* routing key -> descriptors held under it
  present,      \* routing keys that are keys of the HashMap
  sequences,    \* DedupKey -> highest sequence seen
  revoked,      \* ids of revoked descriptors
  rotations,    \* old identity -> [new, seq]
  status        \* the Result of the last store_descriptor_at

vars == <<now, store, present, sequences, timestamps, revoked, rotations, status>>

NoSequence == -1

NoRotation == [new |-> Nobody, seq |-> -1]

Statuses ==
  {"none", "Ok", "ValidationFailed", "RateLimited", "StaleDescriptor",
   "RevocationPublisherMismatch", "StaleRotation", "RotationForkDetected"}

Stored == UNION {store[k] : k \in RoutingKeys}

\* The state of the store keeps its type.
TypeOK ==
  /\ now \in 0..MaxTime
  /\ store \in [RoutingKeys -> SUBSET Descriptors]
  /\ present \subseteq RoutingKeys
  /\ sequences \in [DedupKeys -> Nat \cup {NoSequence}]
  /\ timestamps \in Recorded
  /\ revoked \subseteq Ids
  /\ rotations \in [Identities -> [new : Identities \cup {Nobody}, seq : Nat \cup {-1}]]
  /\ status \in Statuses

Init ==
  /\ now = 0
  /\ store = [k \in RoutingKeys |-> {}]
  /\ present = {}
  /\ sequences = [dk \in DedupKeys |-> NoSequence]
  /\ timestamps = [p \in Identities |-> {}]
  /\ revoked = {}
  /\ rotations = [p \in Identities |-> NoRotation]
  /\ status = "none"

-----------------------------------------------------------------------------
(* The stages of store_descriptor_at.                                       *)

\* Descriptors that reach the sequence check.
Admitted(d) == validate(d, now) /\ WithinLimit(d.publisher)

\* Mutation: the comparison is off by one.
Stale_OffByOne(d) == d.sequence + 1 < sequences[DedupKey(d)]

Stale(d) == d.sequence < sequences[DedupKey(d)]

\* Mutation: the watermark is set by the first version only (or_insert).
Accept_FirstOnly(d) ==
  /\ Admitted(d)
  /\ ~Stale(d)
  /\ check_and_record(d.publisher)
  /\ sequences' = [sequences EXCEPT ![DedupKey(d)] =
                      IF @ = NoSequence THEN d.sequence ELSE @]
  /\ UNCHANGED now

\* The sequence check passed: record the attempt and the new sequence.
Accept(d) ==
  /\ Admitted(d)
  /\ ~Stale(d)
  /\ check_and_record(d.publisher)
  /\ sequences' = [sequences EXCEPT ![DedupKey(d)] = d.sequence]
  /\ UNCHANGED now

\* Mutation: older versions are removed under the new routing keys only.
Placed_NewKeysOnly(d) ==
  [k \in RoutingKeys |->
     IF k \in RoutingKeysOf(d)
     THEN {e \in store[k] : DedupKey(e) # DedupKey(d)} \cup {d}
     ELSE store[k]]

\* The contents once every version of d's slot is gone and d is stored
\* under each of its routing keys.
Placed(d) ==
  [k \in RoutingKeys |->
     {e \in store[k] : DedupKey(e) # DedupKey(d)}
       \cup (IF k \in RoutingKeysOf(d) THEN {d} ELSE {})]

PresentWith(d) == present \cup RoutingKeysOf(d)

\* retain(|d| d.id != id) over every vector.
WithoutId(contents, id) ==
  [k \in RoutingKeys |-> {e \in contents[k] : e.id # id}]

\* Routing keys of the map once empty vectors are removed.
NonEmpty(keys, contents) == {k \in keys : contents[k] # {}}

\* The stored descriptors a revocation finds as its target.
Targets(d) ==
  {e \in UNION {Placed(d)[k] : k \in RoutingKeys} : e.id = d.payload.target_id}

StoreInvalid(d) ==
  /\ ~validate(d, now)
  /\ status' = "ValidationFailed"
  /\ UNCHANGED <<now, store, present, sequences, timestamps, revoked, rotations>>

StoreRateLimited(d) ==
  /\ validate(d, now)
  /\ ~WithinLimit(d.publisher)
  /\ check_and_record(d.publisher)
  /\ status' = "RateLimited"
  /\ UNCHANGED <<now, store, present, sequences, revoked, rotations>>

StoreStale(d) ==
  /\ Admitted(d)
  /\ Stale(d)
  /\ check_and_record(d.publisher)
  /\ status' = "StaleDescriptor"
  /\ UNCHANGED <<now, store, present, sequences, revoked, rotations>>

StorePlain(d) ==
  /\ d.schema_hash \notin {Revocation, KeyRotation}
  /\ Accept(d)
  /\ store' = Placed(d)
  /\ present' = PresentWith(d)
  /\ status' = "Ok"
  /\ UNCHANGED <<revoked, rotations>>

\* The payload of a control descriptor is parsed after it has been stored.
StoreMalformed(d) ==
  /\ d.schema_hash \in {Revocation, KeyRotation}
  /\ d.payload = Malformed
  /\ Accept(d)
  /\ store' = Placed(d)
  /\ present' = PresentWith(d)
  /\ status' = "ValidationFailed"
  /\ UNCHANGED <<revoked, rotations>>

-----------------------------------------------------------------------------
(* process_revocation                                                       *)

IsRevocation(d) == d.schema_hash = Revocation /\ d.payload # Malformed

\* Mutation: a revocation that is not obeyed stays in the store.
RevokeForeign_Kept(d) ==
  /\ IsRevocation(d)
  /\ Accept(d)
  /\ \E e \in Targets(d) : e.publisher # d.publisher
  /\ store' = Placed(d)
  /\ present' = PresentWith(d)
  /\ status' = "RevocationPublisherMismatch"
  /\ UNCHANGED <<revoked, rotations>>

\* The target is held and has another publisher: the revocation is dropped.
RevokeForeign(d) ==
  /\ IsRevocation(d)
  /\ Accept(d)
  /\ \E e \in Targets(d) : e.publisher # d.publisher
  /\ store' = WithoutId(Placed(d), d.id)
  /\ present' = PresentWith(d)
  /\ status' = "RevocationPublisherMismatch"
  /\ UNCHANGED <<revoked, rotations>>

\* Mutation: the publisher of the target is not compared.
RevokeHeld_AnyPublisher(d) ==
  /\ IsRevocation(d)
  /\ Accept(d)
  /\ Targets(d) # {}
  /\ store' = WithoutId(Placed(d), d.payload.target_id)
  /\ present' = NonEmpty(PresentWith(d), store')
  /\ revoked' = revoked \cup {d.payload.target_id}
  /\ status' = "Ok"
  /\ UNCHANGED rotations

\* The target is held and has the same publisher: it is removed.
RevokeHeld(d) ==
  /\ IsRevocation(d)
  /\ Accept(d)
  /\ \E e \in Targets(d) : e.publisher = d.publisher
  /\ store' = WithoutId(Placed(d), d.payload.target_id)
  /\ present' = NonEmpty(PresentWith(d), store')
  /\ revoked' = revoked \cup {d.payload.target_id}
  /\ status' = "Ok"
  /\ UNCHANGED rotations

\* Mutation: the id of a target that is not held is not kept.
RevokeAhead_NotKept(d) ==
  /\ IsRevocation(d)
  /\ Accept(d)
  /\ Targets(d) = {}
  /\ store' = Placed(d)
  /\ present' = PresentWith(d)
  /\ status' = "Ok"
  /\ UNCHANGED <<revoked, rotations>>

\* The target is not held: it is hidden if it arrives later.
RevokeAhead(d) ==
  /\ IsRevocation(d)
  /\ Accept(d)
  /\ Targets(d) = {}
  /\ store' = Placed(d)
  /\ present' = PresentWith(d)
  /\ revoked' = revoked \cup {d.payload.target_id}
  /\ status' = "Ok"
  /\ UNCHANGED rotations

-----------------------------------------------------------------------------
(* process_key_rotation                                                     *)

IsRotation(d) == d.schema_hash = KeyRotation /\ d.payload # Malformed

\* Mutation: forks are not detected.
RotationForks_Ignored(d) == FALSE

RotationForks(d) ==
  LET known == rotations[d.payload.old_identity] IN
  known.seq = d.payload.rotation_seq /\ known.new # d.payload.new_identity

RotationIsStale(d) ==
  d.payload.rotation_seq < rotations[d.payload.old_identity].seq

\* A fork or a stale rotation: the rotation descriptor is dropped.
RotateRejected(d) ==
  /\ IsRotation(d)
  /\ Accept(d)
  /\ RotationForks(d) \/ RotationIsStale(d)
  /\ store' = WithoutId(Placed(d), d.id)
  /\ present' = PresentWith(d)
  /\ status' = IF RotationForks(d) THEN "RotationForkDetected" ELSE "StaleRotation"
  /\ UNCHANGED <<revoked, rotations>>

RotateAccepted(d) ==
  /\ IsRotation(d)
  /\ Accept(d)
  /\ ~RotationForks(d) /\ ~RotationIsStale(d)
  /\ store' = Placed(d)
  /\ present' = PresentWith(d)
  /\ rotations' = [rotations EXCEPT ![d.payload.old_identity] =
                     [new |-> d.payload.new_identity, seq |-> d.payload.rotation_seq]]
  /\ status' = "Ok"
  /\ UNCHANGED revoked

-----------------------------------------------------------------------------

store_descriptor_at(d) ==
  \/ StoreInvalid(d)
  \/ StoreRateLimited(d)
  \/ StoreStale(d)
  \/ StorePlain(d)
  \/ StoreMalformed(d)
  \/ RevokeForeign(d)
  \/ RevokeHeld(d)
  \/ RevokeAhead(d)
  \/ RotateRejected(d)
  \/ RotateAccepted(d)

evict_expired_at ==
  /\ store' = [k \in RoutingKeys |-> {d \in store[k] : ~Expired(d, now)}]
  /\ present' = NonEmpty(present, store')
  /\ UNCHANGED <<now, sequences, timestamps, revoked, rotations, status>>

Tick ==
  /\ now < MaxTime
  /\ now' = now + 1
  /\ UNCHANGED <<store, present, sequences, timestamps, revoked, rotations, status>>

\* What a query for routing key k returns, before the caller's filters.
get_descriptors_at(k) == {d \in store[k] : d.id \notin revoked /\ ~Expired(d, now)}

Next ==
  \/ \E d \in Descriptors : store_descriptor_at(d)
  \/ evict_expired_at
  \/ Tick

Spec == Init /\ [][Next]_vars

-----------------------------------------------------------------------------
(* Safety.                                                                  *)

\* Whatever routing key a query uses, it sees the same single version of a
\* slot: store_descriptor_at removes every older version from all vectors and
\* pushes the new one under all of its routing keys.
OneVersionEverywhere ==
  \A d \in Stored :
    /\ \A e \in Stored : DedupKey(e) = DedupKey(d) => e = d
    /\ \A k \in RoutingKeys : d \in store[k] <=> k \in RoutingKeysOf(d)

\* The descriptor held for a slot is the one the sequence watermark speaks of,
\* so the check `sequence < current` compares with what is really stored.
WatermarkMatchesStored ==
  \A d \in Stored : sequences[DedupKey(d)] = d.sequence

\* Replay protection of the sequences map: no step, eviction and rejected
\* control descriptors included, lowers or forgets a watermark.
WatermarkNeverFalls ==
  [][\A dk \in DedupKeys : sequences'[dk] >= sequences[dk]]_vars

\* The descriptors that r revokes by right: its publisher signed them too.
RevokedBy(r) ==
  {t \in Descriptors :
     IsRevocation(r) /\ r.payload.target_id = t.id /\ r.publisher = t.publisher}

\* process_revocation: once the store has accepted a revocation by the target's
\* own publisher, no query returns the target again, even when the revocation
\* arrived first, or has expired and been evicted, and the target is stored
\* again.  Nothing is claimed for revocations signed by somebody else.
RevocationIsFinal ==
  \A r \in Descriptors : \A t \in RevokedBy(r) :
    [](r \in Stored => [](\A k \in RoutingKeys : t \notin get_descriptors_at(k)))

\* The rotations that r, signed by the key it retires, leaves behind: those of
\* the same key with a lower rotation_seq, or the same and another successor.
SupersededBy(r) ==
  {s \in Descriptors :
     /\ IsRotation(r) /\ IsRotation(s)
     /\ r.publisher = r.payload.old_identity
     /\ s.payload.old_identity = r.payload.old_identity
     /\ \/ s.payload.rotation_seq < r.payload.rotation_seq
        \/ /\ s.payload.rotation_seq = r.payload.rotation_seq
           /\ s.payload.new_identity # r.payload.new_identity}

\* process_key_rotation: once a rotation signed by the old key is accepted, a
\* rotation it supersedes, or a fork of it, that is not held by then never gets
\* in, whichever slot it uses and even when the accepted one has expired and
\* been evicted.  Nothing is claimed for the accepted rotation once a fork is
\* seen, or for rotations signed by somebody else.
SupersededRotationStaysOut ==
  \A r \in Descriptors : \A s \in SupersededBy(r) :
    [](r \in Stored /\ s \notin Stored => [](s \notin Stored))

\* A STORE that is answered with an error adds nothing to what queries return.
\* The one exception is a control descriptor whose payload does not parse: it
\* was placed before process_revocation or process_key_rotation read it.
RejectionAddsOnlyUnparsed ==
  [][status' \notin {"none", "Ok"} =>
       \A k \in RoutingKeys : \A d \in get_descriptors_at(k)' :
         d \in get_descriptors_at(k) \/ d.payload = Malformed]_vars

\* The slots as DescriptorSlots sees them.
SlotOf(dk) ==
  IF \E d \in Stored : DedupKey(d) = dk
  THEN CHOOSE d \in Stored : DedupKey(d) = dk
  ELSE Nobody

Slots == INSTANCE DescriptorSlots WITH
  Vacant <- Nobody,
  slot <- [dk \in DedupKeys |-> SlotOf(dk)],
  clock <- now

\* A STORE disturbs slots of its own publisher only, whatever control payload
\* it carries, and eviction disturbs expired slots only.
ImplementsSlots == Slots!Spec

=============================================================================
