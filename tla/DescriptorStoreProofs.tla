----------------------- MODULE DescriptorStoreProofs -----------------------
(***************************************************************************)
(* Proofs about the in-memory DescriptorStore, for every set of            *)
(* descriptors, every limit and every bound on the clock.                  *)
(***************************************************************************)
EXTENDS DescriptorStore, StoreRateLimiterProofs

-----------------------------------------------------------------------------
(* Facts about the operators of the store, over any contents C.             *)

Contents == [RoutingKeys -> SUBSET Descriptors]

StoredIn(C) == UNION {C[k] : k \in RoutingKeys}

OneVersionIn(C) ==
  \A d \in StoredIn(C) :
    /\ \A e \in StoredIn(C) : DedupKey(e) = DedupKey(d) => e = d
    /\ \A k \in RoutingKeys : d \in C[k] <=> k \in RoutingKeysOf(d)

WatermarkIn(C, seqs) == \A d \in StoredIn(C) : seqs[DedupKey(d)] = d.sequence

\* Membership in StoredIn without the UNION.
LEMMA StoredInMember ==
  ASSUME NEW C, NEW d
  PROVE  d \in StoredIn(C) <=> \E k \in RoutingKeys : d \in C[k]
BY DEF StoredIn

\* The fields of a descriptor have their types; its slot and its routing keys
\* are among the declared ones.
LEMMA DescriptorFields ==
  ASSUME NEW d \in Descriptors
  PROVE  /\ d.id \in Ids
         /\ d.publisher \in Identities
         /\ d.sequence \in Nat
         /\ d.timestamp \in Nat
         /\ d.ttl \in Nat
         /\ DedupKey(d) \in DedupKeys
         /\ RoutingKeysOf(d) \subseteq RoutingKeys
<1>1. d \in Descriptor
  BY DescriptorsAssumption
<1>2. /\ d.id \in Ids /\ d.publisher \in Identities
      /\ d.sequence \in Nat /\ d.timestamp \in Nat /\ d.ttl \in Nat
      /\ d.schema_hash \in Schemas /\ d.topic \in Topics
      /\ d.routing_keys \in Seq(RoutingKeys)
  BY <1>1 DEF Descriptor
<1>3. DedupKey(d) \in DedupKeys
  BY <1>2 DEF DedupKey, DedupKeys
<1>4. RoutingKeysOf(d) \subseteq RoutingKeys
  BY <1>2 DEF RoutingKeysOf
<1> QED
  BY <1>2, <1>3, <1>4

\* The payload of a well-formed control descriptor has its fields.
LEMMA ControlPayload ==
  ASSUME NEW d \in Descriptors
  PROVE  /\ IsRevocation(d) => d.payload.target_id \in Ids
         /\ IsRotation(d) => /\ d.payload.old_identity \in Identities
                             /\ d.payload.new_identity \in Identities
                             /\ d.payload.rotation_seq \in Nat
<1>1. IsRevocation(d) => d.payload \in RevocationPayload
  BY DescriptorsAssumption DEF IsRevocation
<1>2. IsRotation(d) => d.payload \in RotationPayload
  BY DescriptorsAssumption DEF IsRotation
<1> QED
  BY <1>1, <1>2 DEF RevocationPayload, RotationPayload

\* Storing d leaves one version of every slot, under its own routing keys.
LEMMA PlacedConsistent ==
  ASSUME store \in Contents, OneVersionIn(store), NEW d \in Descriptors
  PROVE  Placed(d) \in Contents /\ OneVersionIn(Placed(d))
<1>1. RoutingKeysOf(d) \subseteq RoutingKeys
  BY DescriptorFields
<1>2. \A k \in RoutingKeys : \A e :
        e \in Placed(d)[k] <=> \/ e \in store[k] /\ DedupKey(e) # DedupKey(d)
                               \/ e = d /\ k \in RoutingKeysOf(d)
  BY DEF Placed
<1>3. Placed(d) \in Contents
  BY DEF Placed, Contents
<1>4. ASSUME NEW e \in StoredIn(Placed(d)), NEW f \in StoredIn(Placed(d)),
             DedupKey(f) = DedupKey(e)
      PROVE  f = e
  <2>1. \/ e \in StoredIn(store) /\ DedupKey(e) # DedupKey(d)
        \/ e = d
    BY <1>2, StoredInMember
  <2>2. \/ f \in StoredIn(store) /\ DedupKey(f) # DedupKey(d)
        \/ f = d
    BY <1>2, StoredInMember
  <2> QED
    BY <2>1, <2>2, <1>4 DEF OneVersionIn
<1>5. ASSUME NEW e \in StoredIn(Placed(d)), NEW k \in RoutingKeys
      PROVE  e \in Placed(d)[k] <=> k \in RoutingKeysOf(e)
  <2>1. CASE e = d
    <3>1. e \in store[k] /\ DedupKey(e) # DedupKey(d) <=> FALSE
      BY <2>1
    <3> QED
      BY <2>1, <3>1, <1>2
  <2>2. CASE e # d
    <3>1. e \in StoredIn(store) /\ DedupKey(e) # DedupKey(d)
      BY <2>2, <1>2, StoredInMember
    <3>2. e \in store[k] <=> k \in RoutingKeysOf(e)
      BY <3>1 DEF OneVersionIn
    <3> QED
      BY <2>2, <3>1, <3>2, <1>2
  <2> QED
    BY <2>1, <2>2
<1> QED
  BY <1>3, <1>4, <1>5 DEF OneVersionIn

\* Storing d and recording its sequence keeps the watermarks exact.
LEMMA PlacedWatermark ==
  ASSUME store \in Contents, sequences \in [DedupKeys -> Nat \cup {NoSequence}],
         WatermarkIn(store, sequences), NEW d \in Descriptors
  PROVE  WatermarkIn(Placed(d), [sequences EXCEPT ![DedupKey(d)] = d.sequence])
<1> DEFINE S == [sequences EXCEPT ![DedupKey(d)] = d.sequence]
<1>1. DedupKey(d) \in DedupKeys
  BY DescriptorFields
<1>2. ASSUME NEW e \in StoredIn(Placed(d))
      PROVE  S[DedupKey(e)] = e.sequence
  <2>1. \/ e \in StoredIn(store) /\ DedupKey(e) # DedupKey(d)
        \/ e = d
    BY StoredInMember DEF Placed
  <2>2. CASE e = d
    BY <2>2, <1>1
  <2>3. CASE e \in StoredIn(store) /\ DedupKey(e) # DedupKey(d)
    <3>1. e \in Descriptors
      BY <2>3, StoredInMember DEF Contents
    <3>2. DedupKey(e) \in DedupKeys
      BY <3>1, DescriptorFields
    <3>3. sequences[DedupKey(e)] = e.sequence
      BY <2>3 DEF WatermarkIn
    <3> QED
      BY <2>3, <3>2, <3>3, <1>1
  <2> QED
    BY <2>1, <2>2, <2>3
<1> QED
  BY <1>2 DEF WatermarkIn

\* Dropping the same descriptors from every vector keeps both facts.
LEMMA DroppingConsistent ==
  ASSUME NEW C \in Contents, NEW D \in Contents, NEW K, NEW seqs,
         \A k \in RoutingKeys : D[k] = C[k] \cap K
  PROVE  /\ OneVersionIn(C) => OneVersionIn(D)
         /\ WatermarkIn(C, seqs) => WatermarkIn(D, seqs)
<1>1. \A e : e \in StoredIn(D) => e \in StoredIn(C) /\ e \in K
  BY StoredInMember
<1>2. OneVersionIn(C) => OneVersionIn(D)
  BY <1>1 DEF OneVersionIn
<1>3. WatermarkIn(C, seqs) => WatermarkIn(D, seqs)
  BY <1>1 DEF WatermarkIn
<1> QED
  BY <1>2, <1>3

\* Dropping one descriptor id from every list, as process_revocation does, keeps
\* the lists consistent.
LEMMA WithoutIdConsistent ==
  ASSUME NEW C \in Contents, NEW id, NEW seqs
  PROVE  /\ WithoutId(C, id) \in Contents
         /\ OneVersionIn(C) => OneVersionIn(WithoutId(C, id))
         /\ WatermarkIn(C, seqs) => WatermarkIn(WithoutId(C, id), seqs)
<1> DEFINE K == {e \in Descriptors : e.id # id}
<1>1. WithoutId(C, id) \in Contents
  BY DEF WithoutId, Contents
<1>2. \A k \in RoutingKeys : WithoutId(C, id)[k] = C[k] \cap K
  BY DEF WithoutId, Contents
<1> HIDE DEF K
<1> QED
  BY <1>1, <1>2, DroppingConsistent

-----------------------------------------------------------------------------
(* The inductive invariant.                                                 *)

\* Only descriptors that passed validate are held, so ids identify them.
AuthenticIn(C) == \A d \in StoredIn(C) : d.authentic

Inv ==
  /\ TypeOK
  /\ RateInv
  /\ OneVersionEverywhere
  /\ WatermarkMatchesStored
  /\ AuthenticIn(store)

\* The named properties are the facts above about the current contents.
LEMMA CurrentContents ==
  /\ OneVersionEverywhere <=> OneVersionIn(store)
  /\ WatermarkMatchesStored <=> WatermarkIn(store, sequences)
BY DEF OneVersionEverywhere, WatermarkMatchesStored, OneVersionIn, WatermarkIn,
       Stored, StoredIn

\* The same for the next state.
LEMMA NextContents ==
  /\ OneVersionEverywhere' <=> OneVersionIn(store')
  /\ WatermarkMatchesStored' <=> WatermarkIn(store', sequences')
BY DEF OneVersionEverywhere, WatermarkMatchesStored, OneVersionIn, WatermarkIn,
       Stored, StoredIn

\* The parts of the invariant about time, the limiter and the watermarks are
\* kept by every step that accepts a descriptor.
LEMMA AcceptKeeps ==
  ASSUME Inv, NEW d \in Descriptors, Accept(d)
  PROVE  /\ now' \in 0..MaxTime
         /\ timestamps' \in Recorded
         /\ RateInv'
         /\ sequences' = [sequences EXCEPT ![DedupKey(d)] = d.sequence]
         /\ sequences' \in [DedupKeys -> Nat \cup {NoSequence}]
         /\ Placed(d) \in Contents
         /\ OneVersionIn(Placed(d))
         /\ WatermarkIn(Placed(d), sequences')
         /\ AuthenticIn(Placed(d))
         /\ PresentWith(d) \subseteq RoutingKeys
<1>1. d.publisher \in Identities /\ d.sequence \in Nat /\ DedupKey(d) \in DedupKeys
      /\ RoutingKeysOf(d) \subseteq RoutingKeys
  BY DescriptorFields
<1>2. now' \in 0..MaxTime /\ now \in Nat
  BY RateAssumption DEF Accept, Inv, TypeOK
<1>3. timestamps' \in Recorded /\ RateInv'
  BY <1>1, <1>2, CheckAndRecord DEF Accept, Inv, TypeOK
<1>4. /\ sequences' = [sequences EXCEPT ![DedupKey(d)] = d.sequence]
      /\ sequences' \in [DedupKeys -> Nat \cup {NoSequence}]
  BY <1>1 DEF Accept, Inv, TypeOK
<1>5. store \in Contents /\ OneVersionIn(store) /\ WatermarkIn(store, sequences)
  BY CurrentContents DEF Inv, TypeOK, Contents
<1>6. Placed(d) \in Contents /\ OneVersionIn(Placed(d))
  BY <1>5, PlacedConsistent
<1>7. WatermarkIn(Placed(d), sequences')
  BY <1>4, <1>5, PlacedWatermark DEF Inv, TypeOK
<1>8. PresentWith(d) \subseteq RoutingKeys
  BY <1>1 DEF PresentWith, Inv, TypeOK
<1>9. AuthenticIn(Placed(d))
  BY StoredInMember DEF AuthenticIn, Placed, Accept, Admitted, validate, Inv
<1> QED
  BY <1>2, <1>3, <1>4, <1>6, <1>7, <1>8, <1>9

\* Init establishes the invariant.
LEMMA InitInv == Init => Inv
<1> SUFFICES ASSUME Init PROVE Inv
  OBVIOUS
<1>1. TypeOK
  BY RateAssumption DEF Init, TypeOK, Recorded, Statuses, NoRotation, NoSequence
<1>2. RateInv
  BY FS_EmptySet, RateAssumption DEF Init, RateInv
<1>3. StoredIn(store) = {}
  BY StoredInMember DEF Init
<1> QED
  BY <1>1, <1>2, <1>3, CurrentContents
     DEF Inv, OneVersionIn, WatermarkIn, AuthenticIn

\* A step that accepts d, ends with contents C that come from Placed(d) by
\* dropping one id or none, and keeps the types of the rest, keeps Inv.
LEMMA AcceptInv ==
  ASSUME Inv, NEW d \in Descriptors, Accept(d),
         \/ store' = Placed(d)
         \/ \E id \in Ids : store' = WithoutId(Placed(d), id),
         present' \subseteq RoutingKeys,
         revoked' \subseteq Ids,
         rotations' \in [Identities -> [new : Identities \cup {Nobody}, seq : Nat \cup {-1}]],
         status' \in Statuses
  PROVE  Inv'
<1>1. /\ Placed(d) \in Contents /\ OneVersionIn(Placed(d))
      /\ WatermarkIn(Placed(d), sequences') /\ AuthenticIn(Placed(d))
  BY AcceptKeeps
<1>2. /\ store' \in Contents /\ OneVersionIn(store')
      /\ WatermarkIn(store', sequences') /\ AuthenticIn(store')
  <2>1. CASE store' = Placed(d)
    BY <2>1, <1>1
  <2>2. ASSUME NEW id \in Ids, store' = WithoutId(Placed(d), id)
        PROVE  /\ store' \in Contents /\ OneVersionIn(store')
               /\ WatermarkIn(store', sequences') /\ AuthenticIn(store')
    <3>1. AuthenticIn(store')
      BY <2>2, <1>1, StoredInMember DEF AuthenticIn, WithoutId
    <3> QED
      BY <2>2, <3>1, <1>1, WithoutIdConsistent
  <2> QED
    BY <2>1, <2>2
<1>3. TypeOK'
  BY <1>2, AcceptKeeps DEF TypeOK, Contents
<1> QED
  BY <1>2, <1>3, AcceptKeeps, NextContents DEF Inv

\* A step that only prunes or extends the limiter's entries keeps Inv.
LEMMA RejectInv ==
  ASSUME Inv, NEW d \in Descriptors,
         UNCHANGED <<now, store, present, sequences, revoked, rotations>>,
         UNCHANGED timestamps \/ check_and_record(d.publisher),
         status' \in Statuses
  PROVE  Inv'
<1>1. timestamps' \in Recorded /\ RateInv'
  <2>1. CASE UNCHANGED timestamps
    BY <2>1 DEF Inv, TypeOK, RateInv
  <2>2. CASE check_and_record(d.publisher)
    BY <2>2, DescriptorFields, CheckAndRecord, RateAssumption DEF Inv, TypeOK
  <2> QED
    BY <2>1, <2>2
<1>2. TypeOK'
  BY <1>1 DEF Inv, TypeOK
<1>3. OneVersionEverywhere' /\ WatermarkMatchesStored'
  BY CurrentContents, NextContents DEF Inv
<1>4. AuthenticIn(store')
  BY DEF Inv
<1> QED
  BY <1>1, <1>2, <1>3, <1>4 DEF Inv

\* Every way through store_descriptor_at keeps the invariant.
LEMMA StoreInv ==
  ASSUME Inv, NEW d \in Descriptors, store_descriptor_at(d)
  PROVE  Inv'
<1> USE DEF Statuses
<1>1. CASE StoreInvalid(d)
  BY <1>1, RejectInv DEF StoreInvalid
<1>2. CASE StoreRateLimited(d)
  BY <1>2, RejectInv DEF StoreRateLimited
<1>3. CASE StoreStale(d)
  BY <1>3, RejectInv DEF StoreStale
<1>4. CASE StorePlain(d)
  BY <1>4, AcceptKeeps, AcceptInv DEF StorePlain, Inv, TypeOK
<1>5. CASE StoreMalformed(d)
  BY <1>5, AcceptKeeps, AcceptInv DEF StoreMalformed, Inv, TypeOK
<1>6. CASE RevokeForeign(d)
  BY <1>6, AcceptKeeps, AcceptInv, DescriptorFields DEF RevokeForeign, Inv, TypeOK
<1>7. CASE RevokeHeld(d)
  <2>1. d.payload.target_id \in Ids
    BY <1>7, ControlPayload DEF RevokeHeld
  <2>2. present' \subseteq RoutingKeys
    BY <1>7, AcceptKeeps DEF RevokeHeld, NonEmpty
  <2> QED
    BY <1>7, <2>1, <2>2, AcceptInv DEF RevokeHeld, Inv, TypeOK
<1>8. CASE RevokeAhead(d)
  <2>1. d.payload.target_id \in Ids
    BY <1>8, ControlPayload DEF RevokeAhead
  <2> QED
    BY <1>8, <2>1, AcceptKeeps, AcceptInv DEF RevokeAhead, Inv, TypeOK
<1>9. CASE RotateRejected(d)
  BY <1>9, AcceptKeeps, AcceptInv, DescriptorFields DEF RotateRejected, Inv, TypeOK
<1>10. CASE RotateAccepted(d)
  <2>1. /\ d.payload.old_identity \in Identities
        /\ d.payload.new_identity \in Identities
        /\ d.payload.rotation_seq \in Nat
    BY <1>10, ControlPayload DEF RotateAccepted
  <2>2. rotations' \in [Identities -> [new : Identities \cup {Nobody}, seq : Nat \cup {-1}]]
    BY <1>10, <2>1 DEF RotateAccepted, Inv, TypeOK
  <2> QED
    BY <1>10, <2>2, AcceptKeeps, AcceptInv DEF RotateAccepted, Inv, TypeOK
<1> QED
  BY <1>1, <1>2, <1>3, <1>4, <1>5, <1>6, <1>7, <1>8, <1>9, <1>10
     DEF store_descriptor_at

\* Eviction keeps the invariant: it drops the same descriptors everywhere.
LEMMA EvictInv ==
  ASSUME Inv, evict_expired_at
  PROVE  Inv'
<1> DEFINE K == {d \in Descriptors : ~Expired(d, now)}
<1>1. store \in Contents /\ OneVersionIn(store) /\ WatermarkIn(store, sequences)
  BY CurrentContents DEF Inv, TypeOK, Contents
<1>2. store' \in Contents /\ \A k \in RoutingKeys : store'[k] = store[k] \cap K
  BY <1>1 DEF evict_expired_at, Contents
<1> HIDE DEF K
<1>3. OneVersionIn(store') /\ WatermarkIn(store', sequences)
  BY <1>1, <1>2, DroppingConsistent
<1>4. AuthenticIn(store')
  BY <1>2, StoredInMember DEF AuthenticIn, Inv
<1>5. TypeOK' /\ RateInv'
  BY <1>2 DEF evict_expired_at, Inv, TypeOK, RateInv, Contents, NonEmpty
<1>6. sequences' = sequences
  BY DEF evict_expired_at
<1> QED
  BY <1>3, <1>4, <1>5, <1>6, NextContents DEF Inv

\* Every step of the storage preserves the inductive invariant.
LEMMA StepInv == Inv /\ [Next]_vars => Inv'
<1> SUFFICES ASSUME Inv, [Next]_vars PROVE Inv'
  OBVIOUS
<1>1. ASSUME NEW d \in Descriptors, store_descriptor_at(d) PROVE Inv'
  BY <1>1, StoreInv
<1>2. CASE evict_expired_at
  BY <1>2, EvictInv
<1>3. CASE Tick
  <2>1. TypeOK' /\ RateInv'
    BY <1>3, RateAssumption DEF Tick, Inv, TypeOK, RateInv
  <2>2. store' = store /\ sequences' = sequences
    BY <1>3 DEF Tick
  <2> QED
    BY <2>1, <2>2, CurrentContents, NextContents DEF Inv
<1>4. CASE UNCHANGED vars
  <2>1. TypeOK' /\ RateInv'
    BY <1>4 DEF vars, Inv, TypeOK, RateInv
  <2>2. store' = store /\ sequences' = sequences
    BY <1>4 DEF vars
  <2> QED
    BY <2>1, <2>2, CurrentContents, NextContents DEF Inv
<1> QED
  BY <1>1, <1>2, <1>3, <1>4 DEF Next

\* The invariant holds throughout.
THEOREM Invariance == Spec => []Inv
BY InitInv, StepInv, PTL DEF Spec

-----------------------------------------------------------------------------
(* The properties of the store.                                             *)

\* Type correctness of the store.
THEOREM TypeCorrect == Spec => []TypeOK
<1>1. Inv => TypeOK
  BY DEF Inv
<1> QED
  BY <1>1, Invariance, PTL

\* Whatever routing key a query uses, it sees the same single version of a
\* slot: replacement removes older versions from every vector.
THEOREM OneVersion == Spec => []OneVersionEverywhere
<1>1. Inv => OneVersionEverywhere
  BY DEF Inv
<1> QED
  BY <1>1, Invariance, PTL

\* The stale check compares with the sequence of what is really stored.
THEOREM WatermarkExact == Spec => []WatermarkMatchesStored
<1>1. Inv => WatermarkMatchesStored
  BY DEF Inv
<1> QED
  BY <1>1, Invariance, PTL

\* check_and_record never lets a publisher exceed the limit in one window.
THEOREM RateBounded == Spec => []RateWindowBounded
<1>1. Inv => RateWindowBounded
  BY RateInvBounds DEF Inv
<1> QED
  BY <1>1, Invariance, PTL

\* No step lowers or forgets a sequence watermark: whatever was superseded
\* once stays rejected, through evictions and rejected control descriptors.
THEOREM WatermarkMonotone == Spec => WatermarkNeverFalls
<1> DEFINE Grows == \A dk \in DedupKeys : sequences'[dk] >= sequences[dk]
<1>1. Inv /\ [Next]_vars => [Grows]_vars
  <2> SUFFICES ASSUME Inv, Next PROVE Grows
    OBVIOUS
  <2>1. \A dk \in DedupKeys : sequences[dk] \in Int
    BY DEF Inv, TypeOK, NoSequence
  <2>2. ASSUME NEW d \in Descriptors, Accept(d) PROVE Grows
    <3>1. d.sequence \in Nat /\ DedupKey(d) \in DedupKeys
      BY DescriptorFields
    <3>2. d.sequence >= sequences[DedupKey(d)]
      BY <2>1, <2>2, <3>1 DEF Accept, Stale
    <3> QED
      BY <2>1, <2>2, <3>1, <3>2 DEF Accept, Inv, TypeOK
  <2>3. CASE UNCHANGED sequences
    BY <2>1, <2>3
  <2>4. UNCHANGED sequences \/ \E d \in Descriptors : Accept(d)
    BY DEF Next, store_descriptor_at, StoreInvalid, StoreRateLimited, StoreStale,
           StorePlain, StoreMalformed, RevokeForeign, RevokeHeld, RevokeAhead,
           RotateRejected, RotateAccepted, evict_expired_at, Tick
  <2> QED
    BY <2>2, <2>3, <2>4
<1> QED
  BY <1>1, Invariance, PTL DEF Spec, WatermarkNeverFalls

\* What the maps remember of the control descriptors that are held: the target
\* of every revocation is in `revoked`, and `rotations` has every rotation or
\* a later one.
Recalled(r) ==
  \/ rotations[r.payload.old_identity].seq > r.payload.rotation_seq
  \/ rotations[r.payload.old_identity] =
       [new |-> r.payload.new_identity, seq |-> r.payload.rotation_seq]

ControlsRecorded ==
  \A d \in Stored :
    /\ IsRevocation(d) => d.payload.target_id \in revoked
    /\ IsRotation(d) => Recalled(d)

\* A step adds to the store only the descriptor it accepts.
LEMMA NewlyStored ==
  ASSUME Inv, Next
  PROVE  \A e \in Stored' \ Stored :
           /\ e \in Descriptors
           /\ IsRevocation(e) => e.payload.target_id \in revoked'
           /\ IsRotation(e) => RotateAccepted(e)
<1> SUFFICES ASSUME NEW e \in Stored', e \notin Stored
             PROVE  /\ e \in Descriptors
                    /\ IsRevocation(e) => e.payload.target_id \in revoked'
                    /\ IsRotation(e) => RotateAccepted(e)
  OBVIOUS
<1> DEFINE Goal == /\ e \in Descriptors
                   /\ IsRevocation(e) => e.payload.target_id \in revoked'
                   /\ IsRotation(e) => RotateAccepted(e)
<1>0. PICK k \in RoutingKeys : e \in store'[k] /\ e \notin store[k]
  BY DEF Stored
<1>1. ASSUME NEW d \in Descriptors, store_descriptor_at(d) PROVE Goal
  <2>1. Revocation # KeyRotation
    BY SchemasAssumption
  <2>2. e \in Placed(d)[k] => e = d
    BY <1>0 DEF Placed
  <2>3. CASE UNCHANGED store
    BY <1>0, <2>3
  <2>4. CASE StorePlain(d) \/ StoreMalformed(d)
    BY <1>0, <2>2, <2>4 DEF StorePlain, StoreMalformed, IsRevocation, IsRotation
  <2>5. CASE RevokeForeign(d) \/ RotateRejected(d)
    BY <1>0, <2>2, <2>5 DEF RevokeForeign, RotateRejected, WithoutId
  <2>6. CASE RevokeHeld(d) \/ RevokeAhead(d)
    <3>1. e = d
      BY <1>0, <2>2, <2>6 DEF RevokeHeld, RevokeAhead, WithoutId
    <3> QED
      BY <3>1, <2>1, <2>6 DEF RevokeHeld, RevokeAhead, IsRevocation, IsRotation
  <2>7. CASE RotateAccepted(d)
    <3>1. e = d
      BY <1>0, <2>2, <2>7 DEF RotateAccepted
    <3> QED
      BY <3>1, <2>1, <2>7 DEF RotateAccepted, IsRevocation, IsRotation
  <2> QED
    BY <1>1, <2>3, <2>4, <2>5, <2>6, <2>7
       DEF store_descriptor_at, StoreInvalid, StoreRateLimited, StoreStale
<1>2. CASE evict_expired_at \/ Tick
  BY <1>0, <1>2 DEF evict_expired_at, Tick
<1> QED
  BY <1>1, <1>2 DEF Next

\* Revoked ids are never forgotten.
LEMMA RevokedGrows == [Next]_vars => revoked \subseteq revoked'
BY DEF Next, store_descriptor_at, StoreInvalid, StoreRateLimited, StoreStale,
       StorePlain, StoreMalformed, RevokeForeign, RevokeHeld, RevokeAhead,
       RotateRejected, RotateAccepted, evict_expired_at, Tick, vars

\* The rotation recorded for an identity is replaced by a later one only.
LEMMA RotationsRise ==
  ASSUME Inv, [Next]_vars, NEW p \in Identities
  PROVE  \/ rotations'[p] = rotations[p]
         \/ rotations'[p].seq > rotations[p].seq
<1>1. ASSUME NEW d \in Descriptors, RotateAccepted(d)
      PROVE  \/ rotations'[p] = rotations[p]
             \/ rotations'[p].seq > rotations[p].seq
  <2> DEFINE o == d.payload.old_identity
             r == [new |-> d.payload.new_identity, seq |-> d.payload.rotation_seq]
  <2>1. o \in Identities /\ d.payload.rotation_seq \in Nat
    BY <1>1, ControlPayload DEF RotateAccepted
  <2>2. rotations[o] \in [new : Identities \cup {Nobody}, seq : Nat \cup {-1}]
    BY <2>1 DEF Inv, TypeOK
  <2>3. r = rotations[o] \/ r.seq > rotations[o].seq
    BY <1>1, <2>1, <2>2 DEF RotateAccepted, RotationForks, RotationIsStale
  <2>4. rotations' = [rotations EXCEPT ![o] = r]
    BY <1>1 DEF RotateAccepted
  <2> HIDE DEF o, r
  <2> QED
    BY <2>1, <2>3, <2>4 DEF Inv, TypeOK
<1>2. UNCHANGED rotations \/ \E d \in Descriptors : RotateAccepted(d)
  BY DEF Next, store_descriptor_at, StoreInvalid, StoreRateLimited, StoreStale,
         StorePlain, StoreMalformed, RevokeForeign, RevokeHeld, RevokeAhead,
         RotateRejected, evict_expired_at, Tick, vars
<1> QED
  BY <1>1, <1>2

\* What the maps remember of a descriptor, they remember for good.
LEMMA ControlsStep ==
  Inv /\ ControlsRecorded /\ [Next]_vars => ControlsRecorded'
<1> SUFFICES ASSUME Inv, ControlsRecorded, [Next]_vars, NEW d \in Stored'
             PROVE  /\ IsRevocation(d) => d.payload.target_id \in revoked'
                    /\ IsRotation(d) => Recalled(d)'
  BY DEF ControlsRecorded, IsRevocation, IsRotation
<1>1. CASE d \in Stored
  <2>1. d \in Descriptors
    BY <1>1 DEF Stored, Inv, TypeOK
  <2>2. IsRevocation(d) => d.payload.target_id \in revoked'
    BY <1>1, RevokedGrows DEF ControlsRecorded
  <2>3. ASSUME IsRotation(d) PROVE Recalled(d)'
    <3>1. d.payload.old_identity \in Identities /\ d.payload.rotation_seq \in Nat
      BY <2>1, <2>3, ControlPayload
    <3>2. /\ rotations[d.payload.old_identity].seq \in Int
          /\ rotations'[d.payload.old_identity].seq \in Int
      BY <3>1, StepInv DEF Inv, TypeOK
    <3>3. Recalled(d)
      BY <1>1, <2>3 DEF ControlsRecorded
    <3> QED
      BY <3>1, <3>2, <3>3, RotationsRise DEF Recalled
  <2> QED
    BY <2>2, <2>3
<1>2. CASE d \notin Stored
  <2>1. Next
    BY <1>2 DEF vars, Stored
  <2>2. /\ d \in Descriptors
        /\ IsRevocation(d) => d.payload.target_id \in revoked'
        /\ IsRotation(d) => RotateAccepted(d)
    BY <1>2, <2>1, NewlyStored
  <2>3. ASSUME IsRotation(d) PROVE Recalled(d)'
    <3>1. d.payload.old_identity \in Identities
      BY <2>2, <2>3, ControlPayload
    <3> QED
      BY <2>2, <2>3, <3>1 DEF RotateAccepted, Recalled, Inv, TypeOK
  <2> QED
    BY <2>2, <2>3
<1> QED
  BY <1>1, <1>2

\* Every control descriptor that is held is on record.
LEMMA ControlsAlwaysRecorded == Spec => []ControlsRecorded
<1>1. Init => ControlsRecorded
  BY DEF Init, ControlsRecorded, Stored
<1> QED
  BY <1>1, ControlsStep, Invariance, PTL DEF Spec

\* Once a revocation by the target's own publisher has been accepted no query
\* returns the target, whatever is evicted or stored afterwards
\* (process_revocation).
THEOREM RevocationFinal == Spec => RevocationIsFinal
<1> SUFFICES ASSUME NEW r \in Descriptors, NEW t \in RevokedBy(r)
             PROVE  Spec => [](r \in Stored =>
                          [](\A k \in RoutingKeys : t \notin get_descriptors_at(k)))
  BY DEF RevocationIsFinal
<1> DEFINE Dead == t.id \in revoked
<1>1. IsRevocation(r) /\ r.payload.target_id = t.id
  BY DEF RevokedBy
<1>2. ControlsRecorded => (r \in Stored => Dead)
  BY <1>1 DEF ControlsRecorded
<1>3. Dead /\ [Next]_vars => Dead'
  BY RevokedGrows
<1>4. Dead => \A k \in RoutingKeys : t \notin get_descriptors_at(k)
  BY DEF get_descriptors_at
<1> QED
  BY <1>2, <1>3, <1>4, ControlsAlwaysRecorded, PTL DEF Spec

\* Once a rotation signed by the old key has been accepted, no rotation that it
\* supersedes and no fork of it enters the store (process_key_rotation).
THEOREM RotationReplayRejected == Spec => SupersededRotationStaysOut
<1> SUFFICES ASSUME NEW r \in Descriptors, NEW s \in SupersededBy(r)
             PROVE  Spec => [](r \in Stored /\ s \notin Stored => [](s \notin Stored))
  BY DEF SupersededRotationStaysOut
<1> DEFINE o == s.payload.old_identity
           Behind == \/ s.payload.rotation_seq < rotations[o].seq
                     \/ /\ s.payload.rotation_seq = rotations[o].seq
                        /\ s.payload.new_identity # rotations[o].new
           Out == Behind /\ s \notin Stored
<1>1. /\ s \in Descriptors /\ IsRotation(r) /\ IsRotation(s)
      /\ r.payload.old_identity = o
      /\ \/ s.payload.rotation_seq < r.payload.rotation_seq
         \/ /\ s.payload.rotation_seq = r.payload.rotation_seq
            /\ s.payload.new_identity # r.payload.new_identity
  BY DEF SupersededBy
<1>2. /\ o \in Identities
      /\ s.payload.rotation_seq \in Nat /\ r.payload.rotation_seq \in Nat
  BY <1>1, ControlPayload
<1>3. Inv => rotations[o].seq \in Int
  BY <1>2 DEF Inv, TypeOK
<1> HIDE DEF o
<1>4. Inv /\ ControlsRecorded => (r \in Stored => Behind)
  <2> SUFFICES ASSUME Inv, ControlsRecorded, r \in Stored PROVE Behind
    OBVIOUS
  <2>1. Recalled(r)
    BY <1>1 DEF ControlsRecorded
  <2> QED
    BY <2>1, <1>1, <1>2, <1>3 DEF Recalled
<1>5. Inv /\ Out /\ [Next]_vars => Out'
  <2> SUFFICES ASSUME Inv, Out, [Next]_vars PROVE Behind' /\ s \notin Stored'
    OBVIOUS
  <2>1. Behind'
    <3>1. rotations'[o].seq \in Int /\ rotations[o].seq \in Int
      BY <1>2, <1>3, StepInv DEF Inv, TypeOK
    <3> QED
      BY <3>1, <1>2, RotationsRise
  <2>2. ~RotateAccepted(s)
    <3>1. o = s.payload.old_identity
      BY DEF o
    <3> QED
      BY <3>1 DEF RotateAccepted, RotationForks, RotationIsStale
  <2>3. ASSUME Next PROVE s \notin Stored'
    <3> SUFFICES ASSUME s \in Stored' PROVE FALSE
      OBVIOUS
    <3>1. IsRotation(s) => RotateAccepted(s)
      BY <2>3, NewlyStored
    <3> QED
      BY <3>1, <2>2, <1>1
  <2>4. ASSUME UNCHANGED vars PROVE s \notin Stored'
    BY <2>4 DEF vars, Stored
  <2> QED
    BY <2>1, <2>3, <2>4
<1> QED
  BY <1>4, <1>5, ControlsAlwaysRecorded, Invariance, PTL DEF Spec

\* A STORE answered with an error adds nothing to any answer, but for control
\* descriptors whose payload does not parse.
THEOREM RejectionInert == Spec => RejectionAddsOnlyUnparsed
<1> DEFINE Inert ==
             status' \notin {"none", "Ok"} =>
                      \A k \in RoutingKeys : \A d \in get_descriptors_at(k)' :
                        d \in get_descriptors_at(k) \/ d.payload = Malformed
<1>1. Inv /\ [Next]_vars => [Inert]_vars
  <2> SUFFICES ASSUME Inv, Next, status' \notin {"none", "Ok"},
                      NEW k \in RoutingKeys, NEW e \in get_descriptors_at(k)',
                      e.payload # Malformed
               PROVE  e \in get_descriptors_at(k)
    OBVIOUS
  <2>1. \A c \in store[k] : c \in Descriptors
    BY DEF Inv, TypeOK
  <2>2. e \in store'[k] /\ e.id \notin revoked' /\ ~Expired(e, now')
    BY DEF get_descriptors_at
  <2>3. revoked \subseteq revoked'
    BY DEF Next, store_descriptor_at, StoreInvalid, StoreRateLimited, StoreStale,
           StorePlain, StoreMalformed, RevokeForeign, RevokeHeld, RevokeAhead,
           RotateRejected, RotateAccepted, evict_expired_at, Tick
  <2>4. e \in store[k]
    <3>1. CASE UNCHANGED store \/ evict_expired_at
      BY <2>2, <3>1 DEF evict_expired_at
    <3>2. ASSUME NEW d \in Descriptors, d.payload = Malformed, store' = Placed(d)
          PROVE  e \in store[k]
      BY <2>2, <3>2 DEF Placed
    <3>3. ASSUME NEW d \in Descriptors, store' = WithoutId(Placed(d), d.id)
          PROVE  e \in store[k]
      BY <2>2, <3>3 DEF Placed, WithoutId
    <3>4. \/ UNCHANGED store \/ evict_expired_at
          \/ \E d \in Descriptors :
               \/ d.payload = Malformed /\ store' = Placed(d)
               \/ store' = WithoutId(Placed(d), d.id)
      BY DEF Next, store_descriptor_at, StoreInvalid, StoreRateLimited, StoreStale,
             StorePlain, StoreMalformed, RevokeForeign, RevokeHeld, RevokeAhead,
             RotateRejected, RotateAccepted, Tick
    <3> QED
      BY <3>1, <3>2, <3>3, <3>4
  <2>5. now \in Nat /\ (now' = now \/ now' = now + 1)
    <3>1. now \in Nat
      BY RateAssumption DEF Inv, TypeOK
    <3>2. now' = now \/ now' = now + 1
      BY DEF Next, store_descriptor_at, StoreInvalid, StoreRateLimited, StoreStale,
             StorePlain, StoreMalformed, RevokeForeign, RevokeHeld, RevokeAhead,
             RotateRejected, RotateAccepted, evict_expired_at, Tick, Accept
    <3> QED
      BY <3>1, <3>2
  <2>6. ~Expired(e, now)
    BY <2>1, <2>2, <2>4, <2>5, DescriptorFields DEF Expired, EffectiveStart
  <2> QED
    BY <2>2, <2>3, <2>4, <2>6 DEF get_descriptors_at
<1> QED
  BY <1>1, Invariance, PTL DEF Spec, RejectionAddsOnlyUnparsed

-----------------------------------------------------------------------------
(* The store implements DescriptorSlots.                                    *)

\* The instance's copies of the descriptor notions are the store's own.
LEMMA SameNotions ==
  /\ Slots!DedupKeys = DedupKeys
  /\ \A d : Slots!DedupKey(d) = DedupKey(d)
  /\ \A d, t : Slots!Expired(d, t) = Expired(d, t)
BY DEF DedupKeys, Slots!DedupKeys, DedupKey, Slots!DedupKey,
       Expired, Slots!Expired, EffectiveStart, Slots!EffectiveStart

\* Under the invariant a slot holds d exactly when d is stored.
LEMMA SlotOfStored ==
  ASSUME Inv, NEW dk
  PROVE  /\ \A d \in Stored : DedupKey(d) = dk => SlotOf(dk) = d
         /\ SlotOf(dk) # Nobody => SlotOf(dk) \in Stored /\ DedupKey(SlotOf(dk)) = dk
         /\ (\A d \in Stored : DedupKey(d) # dk) => SlotOf(dk) = Nobody
BY DEF SlotOf, Inv, OneVersionEverywhere

\* The same one step later.
LEMMA SlotOfStoredNext ==
  ASSUME Inv', NEW dk
  PROVE  /\ \A d \in Stored' : DedupKey(d) = dk => SlotOf(dk)' = d
         /\ SlotOf(dk)' # Nobody => SlotOf(dk)' \in Stored' /\ DedupKey(SlotOf(dk)') = dk
         /\ (\A d \in Stored' : DedupKey(d) # dk) => SlotOf(dk)' = Nobody
BY DEF SlotOf, Inv, OneVersionEverywhere

\* What a STORE of d may add to the stored descriptors, and what it may take
\* away: d itself if it was valid and not stale, descriptors of d's publisher.
LEMMA StoreFootprint ==
  ASSUME Inv, NEW d \in Descriptors, store_descriptor_at(d)
  PROVE  /\ \A e \in Stored' : e \notin Stored => e = d /\ validate(d, now) /\ ~Stale(d)
         /\ \A e \in Stored : e \notin Stored' => e.publisher = d.publisher
         /\ now' = now
<1>1. \A e : /\ e \in Stored <=> \E k \in RoutingKeys : e \in store[k]
             /\ e \in Stored' <=> \E k \in RoutingKeys : e \in store'[k]
  BY DEF Stored
<1>2. \A e \in Stored : e \in Descriptors /\ e.authentic
  BY <1>1, StoredInMember DEF Inv, TypeOK, AuthenticIn
<1>3. CASE StoreInvalid(d) \/ StoreRateLimited(d) \/ StoreStale(d)
  <2>1. UNCHANGED <<store, now>>
    BY <1>3 DEF StoreInvalid, StoreRateLimited, StoreStale
  <2> QED
    BY <2>1 DEF Stored
<1>4. ASSUME Accept(d),
             \/ store' = Placed(d)
             \/ \E id \in Ids :
                  /\ store' = WithoutId(Placed(d), id)
                  /\ \A e \in Stored : e.id = id => e.publisher = d.publisher
      PROVE  /\ \A e \in Stored' : e \notin Stored => e = d /\ validate(d, now) /\ ~Stale(d)
             /\ \A e \in Stored : e \notin Stored' => e.publisher = d.publisher
             /\ now' = now
  <2>1. validate(d, now) /\ ~Stale(d) /\ now' = now
    BY <1>4 DEF Accept, Admitted
  <2>2. ASSUME NEW e \in Stored', e \notin Stored PROVE e = d
    BY <1>1, <1>4, <2>2 DEF Placed, WithoutId
  <2>3. ASSUME NEW e \in Stored, e \notin Stored' PROVE e.publisher = d.publisher
    <3>1. PICK k \in RoutingKeys : e \in store[k]
      BY <1>1
    <3>2. e \notin store'[k]
      BY <1>1, <2>3
    <3>3. CASE DedupKey(e) = DedupKey(d)
      BY <3>3 DEF DedupKey
    <3>4. CASE DedupKey(e) # DedupKey(d)
      <4>1. e \in Placed(d)[k]
        BY <3>1, <3>4 DEF Placed
      <4>2. PICK id \in Ids :
              /\ store' = WithoutId(Placed(d), id)
              /\ \A f \in Stored : f.id = id => f.publisher = d.publisher
        BY <1>4, <3>2, <4>1
      <4>3. e.id = id
        BY <3>2, <4>1, <4>2 DEF WithoutId
      <4> QED
        BY <4>2, <4>3
    <3> QED
      BY <3>3, <3>4
  <2> QED
    BY <2>1, <2>2, <2>3
<1>5. CASE StorePlain(d) \/ StoreMalformed(d) \/ RevokeAhead(d) \/ RotateAccepted(d)
  BY <1>4, <1>5 DEF StorePlain, StoreMalformed, RevokeAhead, RotateAccepted
<1>6. CASE RevokeForeign(d) \/ RotateRejected(d)
  <2>1. Accept(d) /\ store' = WithoutId(Placed(d), d.id)
    BY <1>6 DEF RevokeForeign, RotateRejected
  <2>2. d.authentic /\ d.id \in Ids
    BY <2>1, DescriptorFields DEF Accept, Admitted, validate
  <2>3. \A e \in Stored : e.id = d.id => e = d
    BY <1>2, <2>2, ContentHashAssumption
  <2> QED
    BY <1>4, <2>1, <2>2, <2>3
<1>7. CASE RevokeHeld(d)
  <2>1. d.payload.target_id \in Ids
    BY <1>7, ControlPayload DEF RevokeHeld
  <2>2. Accept(d) /\ store' = WithoutId(Placed(d), d.payload.target_id)
    BY <1>7 DEF RevokeHeld
  <2>3. PICK t \in Targets(d) : t.publisher = d.publisher
    BY <1>7 DEF RevokeHeld
  <2>4. t \in Descriptors /\ t.authentic /\ t.id = d.payload.target_id
    <3>1. t \in Stored \/ t = d
      BY <1>1 DEF Targets, Placed
    <3>2. d.authentic
      BY <2>2 DEF Accept, Admitted, validate
    <3> QED
      BY <1>2, <3>1, <3>2 DEF Targets
  <2>5. \A e \in Stored : e.id = d.payload.target_id => e = t
    BY <1>2, <2>4, ContentHashAssumption
  <2> QED
    BY <1>4, <2>1, <2>2, <2>3, <2>5
<1> QED
  BY <1>3, <1>5, <1>6, <1>7 DEF store_descriptor_at

\* A STORE of d is a request of d's publisher.
LEMMA StoreIsRequest ==
  ASSUME Inv, Inv', NEW d \in Descriptors, store_descriptor_at(d)
  PROVE  Slots!Request(d.publisher)
<1>1. /\ \A e \in Stored' : e \notin Stored => e = d /\ validate(d, now) /\ ~Stale(d)
      /\ \A e \in Stored : e \notin Stored' => e.publisher = d.publisher
      /\ now' = now
  BY StoreFootprint
<1>2. ASSUME NEW s \in DedupKeys, SlotOf(s)' # SlotOf(s)
      PROVE  /\ s[1] = d.publisher
             /\ \/ SlotOf(s)' = Nobody
                \/ /\ SlotOf(s)' \in Descriptors
                   /\ DedupKey(SlotOf(s)') = s
                   /\ ~Expired(SlotOf(s)', now)
                   /\ SlotOf(s) # Nobody => SlotOf(s).sequence <= SlotOf(s)'.sequence
  <2>1. CASE SlotOf(s)' = Nobody
    <3>1. SlotOf(s) \in Stored /\ DedupKey(SlotOf(s)) = s
      BY <1>2, <2>1, SlotOfStored
    <3>2. SlotOf(s) \notin Stored'
      BY <1>2, <3>1, SlotOfStoredNext
    <3>3. SlotOf(s).publisher = d.publisher
      BY <1>1, <3>1, <3>2
    <3> QED
      BY <2>1, <3>1, <3>3 DEF DedupKey
  <2>2. CASE SlotOf(s)' # Nobody
    <3>1. SlotOf(s)' \in Stored' /\ DedupKey(SlotOf(s)') = s
      BY <2>2, SlotOfStoredNext
    <3>2. SlotOf(s)' \notin Stored
      BY <1>2, <3>1, SlotOfStored
    <3>3. SlotOf(s)' = d /\ validate(d, now) /\ ~Stale(d)
      BY <1>1, <3>1, <3>2
    <3>4. s[1] = d.publisher /\ ~Expired(d, now)
      BY <3>1, <3>3 DEF DedupKey, validate
    <3>5. ASSUME SlotOf(s) # Nobody PROVE SlotOf(s).sequence <= d.sequence
      <4>1. SlotOf(s) \in Stored /\ DedupKey(SlotOf(s)) = s
        BY <3>5, SlotOfStored
      <4>2. SlotOf(s).sequence = sequences[s]
        BY <4>1 DEF Inv, WatermarkMatchesStored
      <4>3. sequences[s] \in Int /\ d.sequence \in Nat
        BY DescriptorFields DEF Inv, TypeOK, NoSequence
      <4> QED
        BY <3>1, <3>3, <4>2, <4>3 DEF Stale
    <3> QED
      BY <3>1, <3>3, <3>4, <3>5
  <2> QED
    BY <2>1, <2>2
<1> QED
  BY <1>1, <1>2, SameNotions DEF Slots!Request, Slots!Written

\* Eviction empties slots of expired descriptors only.
LEMMA EvictIsEvict ==
  ASSUME Inv, Inv', evict_expired_at
  PROVE  Slots!Evict
<1>1. \A e : e \in Stored' <=> e \in Stored /\ ~Expired(e, now)
  BY DEF Stored, evict_expired_at
<1>2. ASSUME NEW s \in DedupKeys, SlotOf(s)' # SlotOf(s)
      PROVE  SlotOf(s)' = Nobody /\ Expired(SlotOf(s), now)
  <2>1. SlotOf(s)' = Nobody
    BY <1>1, <1>2, SlotOfStored, SlotOfStoredNext
  <2>2. SlotOf(s) \in Stored /\ DedupKey(SlotOf(s)) = s
    BY <1>2, <2>1, SlotOfStored
  <2>3. SlotOf(s) \notin Stored'
    BY <1>2, <2>2, SlotOfStoredNext
  <2> QED
    BY <1>1, <2>1, <2>2, <2>3
<1>3. now' = now
  BY DEF evict_expired_at
<1> QED
  BY <1>2, <1>3, SameNotions DEF Slots!Evict

\* The store keeps the promise of DescriptorSlots: a STORE touches slots of its
\* own publisher only and never replaces a newer version, whatever control
\* payload it carries, and eviction touches expired slots only.
THEOREM StoreImplementsSlots == Spec => ImplementsSlots
<1>1. Init => Slots!Init
  <2> SUFFICES ASSUME Init PROVE Slots!Init
    OBVIOUS
  <2>1. Stored = {}
    BY DEF Init, Stored
  <2>2. \A dk : SlotOf(dk) = Nobody
    BY <2>1 DEF SlotOf
  <2> QED
    BY <2>2, SameNotions DEF Slots!Init, Init
<1>2. Inv /\ Inv' /\ [Next]_vars => [Slots!Next]_(Slots!svars)
  <2> SUFFICES ASSUME Inv, Inv', [Next]_vars PROVE [Slots!Next]_(Slots!svars)
    OBVIOUS
  <2>1. ASSUME NEW d \in Descriptors, store_descriptor_at(d) PROVE Slots!Next
    <3>1. Slots!Request(d.publisher) /\ d.publisher \in Identities
      BY <2>1, StoreIsRequest, DescriptorFields
    <3> QED
      BY <3>1 DEF Slots!Next
  <2>2. CASE evict_expired_at
    BY <2>2, EvictIsEvict DEF Slots!Next
  <2>3. CASE Tick
    <3>1. store' = store /\ now' > now
      BY <2>3, RateAssumption DEF Tick, Inv, TypeOK
    <3>2. \A dk : SlotOf(dk)' = SlotOf(dk)
      BY <3>1 DEF SlotOf, Stored
    <3> QED
      BY <3>1, <3>2 DEF Slots!Next, Slots!Pass
  <2>4. CASE UNCHANGED vars
    <3>1. store' = store /\ now' = now
      BY <2>4 DEF vars
    <3>2. \A dk : SlotOf(dk)' = SlotOf(dk)
      BY <3>1 DEF SlotOf, Stored
    <3> QED
      BY <3>1, <3>2 DEF Slots!svars
  <2> QED
    BY <2>1, <2>2, <2>3, <2>4 DEF Next
<1> QED
  BY <1>1, <1>2, Invariance, PTL DEF Spec, ImplementsSlots, Slots!Spec


-----------------------------------------------------------------------------
(* How long a descriptor is answered.                                       *)

\* What is stored has passed validate, at a time that is not after now.
StoredWasValid ==
  \A k \in RoutingKeys : \A d \in store[k] :
    /\ MIN_TTL <= d.ttl /\ d.ttl <= MAX_TTL
    /\ d.timestamp <= now + MAX_CLOCK_SKEW

\* A stored descriptor that is not revoked is answered up to timestamp + ttl and
\* no longer, although evict_expired_at may come much later and the timestamp
\* may lie ahead of the clock; and that end is at most the largest skew and the
\* largest ttl away.
AnswersEndOnTime ==
  \A k \in RoutingKeys : \A d \in store[k] :
    /\ d \in get_descriptors_at(k) <=> d.id \notin revoked /\ now < d.timestamp + d.ttl
    /\ d.timestamp + d.ttl <= now + MAX_CLOCK_SKEW + MAX_TTL

\* What a step stores beside what was stored is one descriptor that is valid.
LEMMA StepStores ==
  ASSUME [Next]_vars, NEW k \in RoutingKeys, NEW e \in store'[k]
  PROVE  e \in store[k] \/ (e \in Descriptors /\ validate(e, now))
<1>1. ASSUME NEW d \in Descriptors, store_descriptor_at(d)
      PROVE  e \in store[k] \/ (e \in Descriptors /\ validate(e, now))
  <2>1. CASE UNCHANGED store
    BY <2>1
  <2>2. CASE Accept(d) /\ \E C \in {Placed(d), WithoutId(Placed(d), d.id),
                                    WithoutId(Placed(d), d.payload.target_id)} : store' = C
    <3>1. validate(d, now)
      BY <2>2 DEF Accept, Admitted
    <3>2. e \in Placed(d)[k]
      BY <2>2 DEF WithoutId
    <3> QED
      BY <3>1, <3>2 DEF Placed
  <2> QED
    BY <1>1, <2>1, <2>2
       DEF store_descriptor_at, StoreInvalid, StoreRateLimited, StoreStale, StorePlain,
           StoreMalformed, RevokeForeign, RevokeHeld, RevokeAhead, RotateRejected,
           RotateAccepted
<1>2. CASE evict_expired_at
  BY <1>2 DEF evict_expired_at
<1>3. CASE Tick \/ UNCHANGED vars
  BY <1>3 DEF Tick, vars
<1> QED
  BY <1>1, <1>2, <1>3 DEF Next

\* The clock never goes back.
LEMMA ClockAdvances ==
  ASSUME Inv, [Next]_vars
  PROVE  now \in Nat /\ now' \in Nat /\ now <= now'
<1>1. now \in Nat
  BY RateAssumption DEF Inv, TypeOK
<1>2. now' = now \/ now' = now + 1
  BY DEF Next, Tick, vars, evict_expired_at, store_descriptor_at, StoreInvalid,
         StoreRateLimited, StoreStale, StorePlain, StoreMalformed, RevokeForeign, RevokeHeld,
         RevokeAhead, RotateRejected, RotateAccepted, Accept
<1> QED
  BY <1>1, <1>2

\* What is stored was valid when it was stored, and time does not take the
\* limits of validate away from it.
LEMMA StoredValid == Spec => []StoredWasValid
<1>1. Init => StoredWasValid
  BY DEF Init, StoredWasValid
<1>2. Inv /\ StoredWasValid /\ [Next]_vars => StoredWasValid'
  <2> SUFFICES ASSUME Inv, StoredWasValid, [Next]_vars, NEW k \in RoutingKeys, NEW d \in store'[k]
               PROVE  /\ MIN_TTL <= d.ttl /\ d.ttl <= MAX_TTL
                      /\ d.timestamp <= now' + MAX_CLOCK_SKEW
    BY DEF StoredWasValid
  <2>1. now \in Nat /\ now' \in Nat /\ now <= now'
    BY ClockAdvances
  <2>2. d \in Descriptors
    BY StepStores DEF Inv, TypeOK
  <2>3. /\ MIN_TTL <= d.ttl /\ d.ttl <= MAX_TTL
        /\ d.timestamp <= now + MAX_CLOCK_SKEW
    BY StepStores DEF StoredWasValid, validate
  <2> QED
    BY <2>1, <2>2, <2>3, DescriptorFields, LimitsAssumption
<1> QED
  BY <1>1, <1>2, Invariance, PTL DEF Spec

\* A stored descriptor is answered until timestamp + ttl, unless revoked, and
\* never after it; nothing that is stored can be answered for longer than
\* MAX_CLOCK_SKEW + MAX_TTL from now on.
THEOREM LifetimeBounded == Spec => []AnswersEndOnTime
<1>1. Inv /\ StoredWasValid => AnswersEndOnTime
  <2> SUFFICES ASSUME Inv, StoredWasValid, NEW k \in RoutingKeys, NEW d \in store[k]
               PROVE  /\ d \in get_descriptors_at(k) <=>
                           d.id \notin revoked /\ now < d.timestamp + d.ttl
                      /\ d.timestamp + d.ttl <= now + MAX_CLOCK_SKEW + MAX_TTL
    BY DEF AnswersEndOnTime
  <2>1. now \in Nat /\ d \in Descriptors /\ d.timestamp \in Nat /\ d.ttl \in Nat
    BY DescriptorFields, RateAssumption DEF Inv, TypeOK
  <2>2. /\ MIN_TTL <= d.ttl /\ d.ttl <= MAX_TTL
        /\ d.timestamp <= now + MAX_CLOCK_SKEW
    BY DEF StoredWasValid
  <2>3. Expired(d, now) <=> d.timestamp + d.ttl <= now
    BY <2>1, <2>2, ExpiryInstant
  <2>4. d \in get_descriptors_at(k) <=> d.id \notin revoked /\ ~Expired(d, now)
    BY DEF get_descriptors_at
  <2>5. d.timestamp + d.ttl <= now + MAX_CLOCK_SKEW + MAX_TTL
    BY <2>1, <2>2, LimitsAssumption
  <2>6. ~Expired(d, now) <=> now < d.timestamp + d.ttl
    BY <2>1, <2>3
  <2> QED
    BY <2>4, <2>5, <2>6
<1> QED
  BY <1>1, Invariance, StoredValid, PTL
=============================================================================
