-------------------------- MODULE HubStorageProofs --------------------------
(***************************************************************************)
(* Proofs about the hub's storage, for every set of descriptors.           *)
(***************************************************************************)
EXTENDS HubStorage, StoreRateLimiterProofs

\* Only descriptors that passed validate have rows, so ids identify them.
RowsAuthentic == \A id \in Ids : descriptors[id] # Absent => descriptors[id].authentic

TableInv == TypeOK /\ IndexesAgree /\ RowsAuthentic

\* The fields of a descriptor have their types.
LEMMA DescriptorFields ==
  ASSUME NEW d \in Descriptors
  PROVE  /\ d.id \in Ids
         /\ d.publisher \in Identities
         /\ d.sequence \in Nat
         /\ DedupKey(d) \in DedupKeys
         /\ RoutingKeysOf(d) \subseteq RoutingKeys
         /\ d # Absent /\ d.id # Absent
<1>1. d \in Descriptor
  BY DescriptorsAssumption
<1>2. /\ d.id \in Ids /\ d.publisher \in Identities /\ d.sequence \in Nat
      /\ d.schema_hash \in Schemas /\ d.topic \in Topics
      /\ d.routing_keys \in Seq(RoutingKeys)
  BY <1>1 DEF Descriptor
<1>3. DedupKey(d) \in DedupKeys
  BY <1>2 DEF DedupKey, DedupKeys
<1>4. RoutingKeysOf(d) \subseteq RoutingKeys
  BY <1>2 DEF RoutingKeysOf
<1> QED
  BY <1>2, <1>3, <1>4, AbsentAssumption

\* What the tables say, in terms of the descriptors that have rows.
LEMMA RowFacts ==
  ASSUME TableInv
  PROVE  /\ \A id \in Ids : descriptors[id] # Absent =>
              descriptors[id] \in Rows /\ descriptors[id].id = id
         /\ \A d \in Rows : /\ d \in Descriptors /\ d.authentic
                            /\ descriptors[d.id] = d
                            /\ dedup_index[DedupKey(d)] = d.id
                            /\ sequences[DedupKey(d)] = d.sequence
         /\ \A d, e \in Rows : DedupKey(d) = DedupKey(e) => d = e
         /\ \A dk \in DedupKeys : dedup_index[dk] # Absent =>
              /\ descriptors[dedup_index[dk]] \in Rows
              /\ DedupKey(descriptors[dedup_index[dk]]) = dk
<1>1. \A id \in Ids : descriptors[id] # Absent =>
        descriptors[id] \in Rows /\ descriptors[id].id = id
  BY DEF TableInv, TypeOK, IndexesAgree, Rows
<1>2. \A d \in Rows : d \in Descriptors /\ descriptors[d.id] = d /\ d.authentic
  BY DescriptorFields DEF Rows, TableInv, RowsAuthentic
<1>3. \A d \in Rows : dedup_index[DedupKey(d)] = d.id
  BY <1>2, DescriptorFields DEF TableInv, IndexesAgree
<1>4. \A d \in Rows : sequences[DedupKey(d)] = d.sequence
  BY <1>2, <1>3, DescriptorFields DEF TableInv, IndexesAgree
<1>5. \A d, e \in Rows : DedupKey(d) = DedupKey(e) => d = e
  BY <1>2, <1>3
<1>6. \A dk \in DedupKeys : dedup_index[dk] # Absent =>
        /\ descriptors[dedup_index[dk]] \in Rows
        /\ DedupKey(descriptors[dedup_index[dk]]) = dk
  <2> SUFFICES ASSUME NEW dk \in DedupKeys, dedup_index[dk] # Absent
               PROVE  /\ descriptors[dedup_index[dk]] \in Rows
                      /\ DedupKey(descriptors[dedup_index[dk]]) = dk
    OBVIOUS
  <2>1. dedup_index[dk] \in Ids
    BY DEF TableInv, TypeOK
  <2>2. /\ descriptors[dedup_index[dk]] # Absent
        /\ DedupKey(descriptors[dedup_index[dk]]) = dk
    BY <2>1 DEF TableInv, IndexesAgree
  <2> QED
    BY <1>1, <2>1, <2>2
<1> QED
  BY <1>1, <1>2, <1>3, <1>4, <1>5, <1>6

\* A query that reads the tables finds the live rows under its routing key.
LEMMA LiveRows ==
  ASSUME TableInv, NEW k \in RoutingKeys, NEW d
  PROVE  d \in Live(k) <=> d \in Rows /\ k \in RoutingKeysOf(d) /\ ~Expired(d, now)
<1>1. ASSUME d \in Live(k)
      PROVE  d \in Rows /\ k \in RoutingKeysOf(d) /\ ~Expired(d, now)
  <2>1. PICK id \in by_routing_key[k] : d = descriptors[id] /\ d # Absent
    BY <1>1 DEF Live
  <2>2. id \in Ids
    BY DEF TableInv, TypeOK
  <2>3. d \in Rows /\ k \in RoutingKeysOf(d)
    BY <2>1, <2>2, RowFacts DEF TableInv, IndexesAgree
  <2> QED
    BY <1>1, <2>3 DEF Live
<1>2. ASSUME d \in Rows, k \in RoutingKeysOf(d), ~Expired(d, now)
      PROVE  d \in Live(k)
  <2>1. d \in Descriptors /\ descriptors[d.id] = d
    BY <1>2, RowFacts
  <2>2. d.id \in Ids /\ d # Absent
    BY <2>1, DescriptorFields
  <2>3. d.id \in by_routing_key[k]
    BY <1>2, <2>1, <2>2 DEF TableInv, IndexesAgree
  <2> QED
    BY <1>2, <2>1, <2>2, <2>3 DEF Live
<1> QED
  BY <1>1, <1>2

-----------------------------------------------------------------------------
(* The write transaction of store_descriptor_at.                            *)

\* The old version is the row of d's slot; a row with d's id is d itself.
LEMMA OldVersion ==
  ASSUME TableInv, NEW d \in Descriptors, d.authentic
  PROVE  /\ OldId(d) # Absent =>
              /\ OldId(d) \in Ids
              /\ descriptors[OldId(d)] \in Rows
              /\ DedupKey(descriptors[OldId(d)]) = DedupKey(d)
              /\ OldKeys(d) = RoutingKeysOf(descriptors[OldId(d)])
         /\ descriptors[d.id] # Absent => descriptors[d.id] = d /\ OldId(d) = d.id
         /\ \A e \in Rows : DedupKey(e) = DedupKey(d) <=> e.id = OldId(d)
<1>1. DedupKey(d) \in DedupKeys /\ d.id \in Ids
  BY DescriptorFields
<1>2. OldId(d) # Absent =>
        /\ OldId(d) \in Ids
        /\ descriptors[OldId(d)] \in Rows
        /\ DedupKey(descriptors[OldId(d)]) = DedupKey(d)
  BY <1>1, RowFacts DEF OldId, TableInv, TypeOK
<1>3. OldId(d) # Absent => OldKeys(d) = RoutingKeysOf(descriptors[OldId(d)])
  BY <1>2, RowFacts, DescriptorFields DEF OldKeys
<1>4. descriptors[d.id] # Absent => descriptors[d.id] = d
  BY <1>1, RowFacts, ContentHashAssumption
<1>5. descriptors[d.id] # Absent => OldId(d) = d.id
  BY <1>1, <1>4, RowFacts DEF OldId
<1>6. \A e \in Rows : DedupKey(e) = DedupKey(d) <=> e.id = OldId(d)
  BY <1>2, RowFacts, DescriptorFields DEF OldId
<1> QED
  BY <1>2, <1>3, <1>4, <1>5, <1>6

\* The tables agree again once the transaction has committed.
LEMMA CommitAgrees ==
  ASSUME TableInv, NEW d \in Descriptors, d.authentic, Commit(d)
  PROVE  IndexesAgree' /\ RowsAuthentic'
<1>0. d.id \in Ids /\ DedupKey(d) \in DedupKeys /\ d # Absent /\ d.id # Absent
  BY DescriptorFields
<1>1. \A id \in Ids :
        descriptors'[id] = IF id = d.id THEN d
                           ELSE IF id = OldId(d) THEN Absent
                           ELSE descriptors[id]
  BY DEF Commit
<1>2. \A id \in Ids : descriptors'[id] # Absent => descriptors'[id].id = id
  BY <1>1 DEF TableInv, IndexesAgree
<1>3. ASSUME NEW k \in RoutingKeys, NEW id \in Ids
      PROVE  id \in by_routing_key'[k] <=>
               descriptors'[id] # Absent /\ k \in RoutingKeysOf(descriptors'[id])
  <2>1. id \in by_routing_key'[k] <=>
          \/ id \in by_routing_key[k] /\ ~(k \in OldKeys(d) /\ id = OldId(d))
          \/ id = d.id /\ k \in RoutingKeysOf(d)
    BY DEF Commit, Reindexed
  <2>2. id \in by_routing_key[k] <=>
          descriptors[id] # Absent /\ k \in RoutingKeysOf(descriptors[id])
    BY DEF TableInv, IndexesAgree
  <2>3. CASE id = d.id
    BY <1>0, <1>1, <2>1, <2>2, <2>3, OldVersion
  <2>4. CASE id # d.id /\ id = OldId(d)
    <3>1. k \in OldKeys(d) <=> k \in RoutingKeysOf(descriptors[id])
      BY <2>4, AbsentAssumption, OldVersion
    <3> QED
      BY <1>1, <2>1, <2>2, <2>4, <3>1
  <2>5. CASE id # d.id /\ id # OldId(d)
    BY <1>1, <2>1, <2>2, <2>5
  <2> QED
    BY <2>3, <2>4, <2>5
<1>4. ASSUME NEW dk \in DedupKeys, NEW id \in Ids
      PROVE  dedup_index'[dk] = id <=>
               descriptors'[id] # Absent /\ DedupKey(descriptors'[id]) = dk
  <2>1. dedup_index'[dk] = IF dk = DedupKey(d) THEN d.id ELSE dedup_index[dk]
    BY <1>0 DEF Commit, TableInv, TypeOK
  <2>2. dedup_index[dk] = id <=>
          descriptors[id] # Absent /\ DedupKey(descriptors[id]) = dk
    BY DEF TableInv, IndexesAgree
  <2>3. CASE id = d.id
    BY <1>0, <1>1, <2>1, <2>2, <2>3, OldVersion
  <2>4. CASE id # d.id /\ id = OldId(d)
    <3>1. DedupKey(descriptors[id]) = DedupKey(d)
      BY <2>4, AbsentAssumption, OldVersion
    <3> QED
      BY <1>1, <2>1, <2>2, <2>4, <3>1
  <2>5. CASE id # d.id /\ id # OldId(d)
    BY <1>1, <2>1, <2>2, <2>5 DEF OldId
  <2> QED
    BY <2>3, <2>4, <2>5
<1>5. ASSUME NEW dk \in DedupKeys
      PROVE  sequences'[dk] = IF dedup_index'[dk] = Absent THEN NoSequence
                              ELSE descriptors'[dedup_index'[dk]].sequence
  <2>1. /\ dedup_index'[dk] = IF dk = DedupKey(d) THEN d.id ELSE dedup_index[dk]
        /\ sequences'[dk] = IF dk = DedupKey(d) THEN d.sequence ELSE sequences[dk]
    BY <1>0 DEF Commit, TableInv, TypeOK
  <2>2. CASE dk = DedupKey(d)
    BY <1>0, <1>1, <2>1, <2>2
  <2>3. CASE dk # DedupKey(d)
    <3>1. sequences[dk] = IF dedup_index[dk] = Absent THEN NoSequence
                          ELSE descriptors[dedup_index[dk]].sequence
      BY DEF TableInv, IndexesAgree
    <3>2. ASSUME dedup_index[dk] # Absent
          PROVE  /\ dedup_index[dk] \in Ids
                 /\ dedup_index[dk] # d.id /\ dedup_index[dk] # OldId(d)
      <4>1. /\ dedup_index[dk] \in Ids
            /\ descriptors[dedup_index[dk]] \in Rows
            /\ DedupKey(descriptors[dedup_index[dk]]) = dk
        BY <3>2, RowFacts DEF TableInv, TypeOK
      <4>2. dedup_index[dk] # OldId(d)
        BY <2>3, <3>2, <4>1, OldVersion
      <4>3. dedup_index[dk] # d.id
        BY <2>3, <4>1, OldVersion, RowFacts, DescriptorFields
      <4> QED
        BY <4>1, <4>2, <4>3
    <3> QED
      BY <1>1, <2>1, <2>3, <3>1, <3>2
  <2> QED
    BY <2>2, <2>3
<1>6. RowsAuthentic'
  BY <1>1 DEF RowsAuthentic, TableInv
<1> QED
  BY <1>2, <1>3, <1>4, <1>5, <1>6 DEF IndexesAgree

\* The transaction of store_descriptor_at keeps the tables well typed.
LEMMA CommitTypes ==
  ASSUME TableInv, NEW d \in Descriptors, Commit(d)
  PROVE  /\ descriptors' \in [Ids -> Descriptors \cup {Absent}]
         /\ by_routing_key' \in [RoutingKeys -> SUBSET Ids]
         /\ dedup_index' \in [DedupKeys -> Ids \cup {Absent}]
         /\ sequences' \in [DedupKeys -> Nat \cup {NoSequence}]
<1>1. d.id \in Ids /\ DedupKey(d) \in DedupKeys /\ d.sequence \in Nat
  BY DescriptorFields
<1>2. descriptors' \in [Ids -> Descriptors \cup {Absent}]
  BY DEF Commit, TableInv, TypeOK
<1>3. by_routing_key' \in [RoutingKeys -> SUBSET Ids]
  BY <1>1 DEF Commit, Reindexed, TableInv, TypeOK
<1>4. dedup_index' \in [DedupKeys -> Ids \cup {Absent}]
  BY <1>1 DEF Commit, TableInv, TypeOK
<1>5. sequences' \in [DedupKeys -> Nat \cup {NoSequence}]
  BY <1>1 DEF Commit, TableInv, TypeOK
<1> QED
  BY <1>2, <1>3, <1>4, <1>5

\* The rows after the transaction: d takes the place of its slot's row.
LEMMA CommitRows ==
  ASSUME TableInv, NEW d \in Descriptors, d.authentic, Commit(d), NEW e
  PROVE  e \in Rows' <=> e = d \/ (e \in Rows /\ DedupKey(e) # DedupKey(d))
<1>1. \A id \in Ids :
        descriptors'[id] = IF id = d.id THEN d
                           ELSE IF id = OldId(d) THEN Absent
                           ELSE descriptors[id]
  BY DEF Commit
<1>2. e \in Rows' <=> e \in Descriptors /\ descriptors'[e.id] = e
  BY DEF Rows
<1>3. e \in Rows <=> e \in Descriptors /\ descriptors[e.id] = e
  BY DEF Rows
<1>4. e \in Descriptors => e.id \in Ids /\ e # Absent
  BY DescriptorFields
<1>5. CASE e = d
  BY <1>1, <1>2, <1>5, DescriptorFields
<1>6. CASE e # d /\ e \in Descriptors /\ e.id = d.id
  <2>1. e \notin Rows'
    BY <1>1, <1>2, <1>4, <1>6
  <2>2. e \in Rows => FALSE
    BY <1>3, <1>4, <1>6, OldVersion
  <2> QED
    BY <1>6, <2>1, <2>2
<1>7. CASE e # d /\ e \in Descriptors /\ e.id # d.id
  BY <1>1, <1>2, <1>3, <1>4, <1>7, OldVersion
<1>8. CASE e \notin Descriptors
  BY <1>2, <1>3, <1>8
<1> QED
  BY <1>5, <1>6, <1>7, <1>8

-----------------------------------------------------------------------------
(* The transaction of evict_expired_at.                                     *)

\* Which ids and slots an eviction concerns.
LEMMA EvictionScope ==
  ASSUME TableInv
  PROVE  /\ \A id \in Ids :
              (\E d \in Rows : Expired(d, now) /\ d.id = id)
                <=> descriptors[id] # Absent /\ Expired(descriptors[id], now)
         /\ \A dk \in DedupKeys :
              dk \in EvictedSlots
                <=> dedup_index[dk] # Absent /\ Expired(descriptors[dedup_index[dk]], now)
<1>1. \A id \in Ids :
        (\E d \in Rows : Expired(d, now) /\ d.id = id)
          <=> descriptors[id] # Absent /\ Expired(descriptors[id], now)
  BY RowFacts, DescriptorFields
<1>2. \A dk \in DedupKeys :
        dk \in EvictedSlots <=> \E d \in Rows : Expired(d, now) /\ DedupKey(d) = dk
  BY DEF EvictedSlots
<1>3. \A dk \in DedupKeys :
        (\E d \in Rows : Expired(d, now) /\ DedupKey(d) = dk)
          <=> dedup_index[dk] # Absent /\ Expired(descriptors[dedup_index[dk]], now)
  BY RowFacts, DescriptorFields
<1> QED
  BY <1>1, <1>2, <1>3

\* The transaction of evict_expired_at keeps the three tables in agreement.
LEMMA EvictAgrees ==
  ASSUME TableInv, EvictTables
  PROVE  IndexesAgree' /\ RowsAuthentic'
<1>1. \A id \in Ids :
        descriptors'[id] =
          IF descriptors[id] # Absent /\ Expired(descriptors[id], now)
          THEN Absent ELSE descriptors[id]
  <2>1. \A id \in Ids :
          descriptors'[id] =
            IF \E d \in Rows : Expired(d, now) /\ d.id = id
            THEN Absent ELSE descriptors[id]
    BY DEF EvictTables
  <2> QED
    BY <2>1, EvictionScope
<1>2. \A dk \in DedupKeys :
        /\ dedup_index'[dk] = IF dk \in EvictedSlots THEN Absent ELSE dedup_index[dk]
        /\ sequences'[dk] = IF dk \in EvictedSlots THEN NoSequence ELSE sequences[dk]
  BY DEF EvictTables
<1>3. \A id \in Ids : descriptors'[id] # Absent => descriptors'[id].id = id
  BY <1>1 DEF TableInv, IndexesAgree
<1>4. ASSUME NEW k \in RoutingKeys, NEW id \in Ids
      PROVE  id \in by_routing_key'[k] <=>
               descriptors'[id] # Absent /\ k \in RoutingKeysOf(descriptors'[id])
  <2>1. id \in by_routing_key'[k] <=>
          /\ id \in by_routing_key[k]
          /\ ~ \E d \in Rows : Expired(d, now) /\ k \in RoutingKeysOf(d) /\ d.id = id
    BY DEF EvictTables
  <2>2. id \in by_routing_key[k] <=>
          descriptors[id] # Absent /\ k \in RoutingKeysOf(descriptors[id])
    BY DEF TableInv, IndexesAgree
  <2>3. (\E d \in Rows : Expired(d, now) /\ k \in RoutingKeysOf(d) /\ d.id = id)
          <=> /\ descriptors[id] # Absent /\ Expired(descriptors[id], now)
              /\ k \in RoutingKeysOf(descriptors[id])
    BY RowFacts, DescriptorFields
  <2> QED
    BY <1>1, <2>1, <2>2, <2>3
<1>5. ASSUME NEW dk \in DedupKeys, NEW id \in Ids
      PROVE  dedup_index'[dk] = id <=>
               descriptors'[id] # Absent /\ DedupKey(descriptors'[id]) = dk
  <2>1. dedup_index[dk] = id <=>
          descriptors[id] # Absent /\ DedupKey(descriptors[id]) = dk
    BY DEF TableInv, IndexesAgree
  <2> QED
    BY <1>1, <1>2, <2>1, EvictionScope, AbsentAssumption
<1>6. ASSUME NEW dk \in DedupKeys
      PROVE  sequences'[dk] = IF dedup_index'[dk] = Absent THEN NoSequence
                              ELSE descriptors'[dedup_index'[dk]].sequence
  <2>1. sequences[dk] = IF dedup_index[dk] = Absent THEN NoSequence
                        ELSE descriptors[dedup_index[dk]].sequence
    BY DEF TableInv, IndexesAgree
  <2>2. dedup_index[dk] # Absent => dedup_index[dk] \in Ids
    BY DEF TableInv, TypeOK
  <2> QED
    BY <1>1, <1>2, <2>1, <2>2, EvictionScope
<1>7. RowsAuthentic'
  BY <1>1 DEF RowsAuthentic, TableInv
<1> QED
  BY <1>3, <1>4, <1>5, <1>6, <1>7 DEF IndexesAgree

\* The transaction of evict_expired_at keeps the tables well typed.
LEMMA EvictTypes ==
  ASSUME TableInv, EvictTables
  PROVE  /\ descriptors' \in [Ids -> Descriptors \cup {Absent}]
         /\ by_routing_key' \in [RoutingKeys -> SUBSET Ids]
         /\ dedup_index' \in [DedupKeys -> Ids \cup {Absent}]
         /\ sequences' \in [DedupKeys -> Nat \cup {NoSequence}]
<1>1. descriptors' \in [Ids -> Descriptors \cup {Absent}]
  BY DEF EvictTables, TableInv, TypeOK
<1>2. by_routing_key' \in [RoutingKeys -> SUBSET Ids]
  BY DEF EvictTables, TableInv, TypeOK
<1>3. dedup_index' \in [DedupKeys -> Ids \cup {Absent}]
  BY DEF EvictTables, TableInv, TypeOK
<1>4. sequences' \in [DedupKeys -> Nat \cup {NoSequence}]
  BY DEF EvictTables, TableInv, TypeOK
<1> QED
  BY <1>1, <1>2, <1>3, <1>4

\* Eviction removes the rows that have expired and no other.
LEMMA EvictRows ==
  ASSUME TableInv, EvictTables, NEW e
  PROVE  e \in Rows' <=> e \in Rows /\ ~Expired(e, now)
<1>1. e \in Descriptors => e.id \in Ids /\ e # Absent
  BY DescriptorFields
<1>2. e \in Descriptors =>
        descriptors'[e.id] =
          IF \E d \in Rows : Expired(d, now) /\ d.id = e.id
          THEN Absent ELSE descriptors[e.id]
  BY <1>1 DEF EvictTables
<1> QED
  BY <1>1, <1>2, EvictionScope DEF Rows

-----------------------------------------------------------------------------
(* The inductive invariant.                                                 *)

Inv ==
  /\ TableInv
  /\ RateInv
  /\ AnswerMissesNothing
  /\ CacheDriftExplained

\* AnswerMissesNothing only speaks of routing keys that are cached.
LEMMA CompleteCache ==
  /\ AnswerMissesNothing <=>
       \A k \in RoutingKeys \ suspect : cache[k] # NotCached => Live(k) \subseteq cache[k]
  /\ AnswerMissesNothing' <=>
       \A k \in RoutingKeys \ suspect' : cache'[k] # NotCached => Live(k)' \subseteq cache'[k]
BY DEF AnswerMissesNothing, Answer

\* The same fact about LiveRows one step later.
LEMMA LiveRowsNext ==
  ASSUME TableInv', NEW k \in RoutingKeys, NEW d
  PROVE  d \in Live(k)' <=> d \in Rows' /\ k \in RoutingKeysOf(d) /\ ~Expired(d, now')
<1>1. ASSUME d \in Live(k)'
      PROVE  d \in Rows' /\ k \in RoutingKeysOf(d) /\ ~Expired(d, now')
  <2>1. PICK id \in by_routing_key'[k] : d = descriptors'[id] /\ d # Absent
    BY <1>1 DEF Live
  <2>2. id \in Ids
    BY DEF TableInv, TypeOK
  <2>3. d.id = id /\ d \in Descriptors /\ k \in RoutingKeysOf(d)
    BY <2>1, <2>2 DEF TableInv, TypeOK, IndexesAgree
  <2> QED
    BY <1>1, <2>1, <2>3 DEF Live, Rows
<1>2. ASSUME d \in Rows', k \in RoutingKeysOf(d), ~Expired(d, now')
      PROVE  d \in Live(k)'
  <2>1. d \in Descriptors /\ descriptors'[d.id] = d
    BY <1>2 DEF Rows
  <2>2. d.id \in Ids /\ d # Absent
    BY <2>1, DescriptorFields
  <2>3. d.id \in by_routing_key'[k]
    BY <1>2, <2>1, <2>2 DEF TableInv, IndexesAgree
  <2> QED
    BY <1>2, <2>1, <2>2, <2>3 DEF Live
<1> QED
  BY <1>1, <1>2

\* The clock only advances: an expired descriptor stays expired.
LEMMA ExpiredStays ==
  ASSUME NEW d \in Descriptors, NEW t \in Nat, NEW u \in Nat, t <= u, Expired(d, t)
  PROVE  Expired(d, u)
<1>1. d.timestamp \in Nat /\ d.ttl \in Nat
  BY DescriptorsAssumption DEF Descriptor
<1> QED
  BY <1>1 DEF Expired, EffectiveStart

\* Steps that leave the tables alone keep the facts about them.
LEMMA TablesUnchanged ==
  ASSUME TableInv, UNCHANGED tables, now' \in 0..MaxTime, timestamps' \in Recorded,
         cache' \in [RoutingKeys -> (SUBSET Descriptors) \cup {NotCached}],
         suspect' \subseteq RoutingKeys
  PROVE  TableInv' /\ Rows' = Rows
<1>1. TypeOK'
  BY DEF tables, TableInv, TypeOK
<1>2. IndexesAgree' /\ RowsAuthentic' /\ Rows' = Rows
  BY DEF tables, TableInv, IndexesAgree, RowsAuthentic, Rows
<1> QED
  BY <1>1, <1>2 DEF TableInv

\* Rate limiting keeps its part of the invariant.
LEMMA AttemptKeeps ==
  ASSUME Inv, NEW d \in Descriptors, NEW trusted, CountAttempt(d, trusted)
  PROVE  timestamps' \in Recorded /\ RateInv'
<1>1. CASE UNCHANGED timestamps
  BY <1>1 DEF Inv, TableInv, TypeOK, RateInv
<1>2. CASE check_and_record(d.publisher)
  BY <1>2, DescriptorFields, CheckAndRecord, RateAssumption DEF Inv, TableInv, TypeOK
<1> QED
  BY <1>1, <1>2 DEF CountAttempt

\* A freshly opened database satisfies the inductive invariant.
LEMMA InitInv == Init => Inv
<1> SUFFICES ASSUME Init PROVE Inv
  OBVIOUS
<1>1. TypeOK
  BY RateAssumption DEF Init, TypeOK, EmptyCache, NoSequence, Recorded
<1>2. IndexesAgree /\ RowsAuthentic
  BY AbsentAssumption DEF Init, IndexesAgree, RowsAuthentic
<1>3. RateInv
  BY FS_EmptySet, RateAssumption DEF Init, RateInv
<1>4. AnswerMissesNothing /\ CacheDriftExplained
  <2>1. \A k \in RoutingKeys : cache[k] = NotCached
    BY DEF Init, EmptyCache
  <2> QED
    BY <2>1, CompleteCache DEF CacheDriftExplained
<1> QED
  BY <1>1, <1>2, <1>3, <1>4 DEF Inv, TableInv

\* A committed STORE keeps the invariant.  The cached lists that survive are
\* those of routing keys d is not stored under.
LEMMA CommittedInv ==
  ASSUME Inv, NEW d \in Descriptors, NEW trusted, StoreCommitted(d, trusted)
  PROVE  Inv'
<1>1. d.authentic /\ Commit(d) /\ now' = now /\ CountAttempt(d, trusted)
  BY DEF StoreCommitted, validate
<1>2. timestamps' \in Recorded /\ RateInv'
  BY <1>1, AttemptKeeps
<1>3. \A k \in RoutingKeys :
        cache'[k] = IF k \in RoutingKeysOf(d) THEN NotCached ELSE cache[k]
  BY DEF StoreCommitted, Invalidated
<1>4. cache' \in [RoutingKeys -> (SUBSET Descriptors) \cup {NotCached}]
  BY DEF StoreCommitted, Invalidated, Inv, TableInv, TypeOK
<1>4a. suspect' \subseteq RoutingKeys
  BY DEF StoreCommitted, Inv, TableInv, TypeOK
<1>5. TableInv'
  <2>1. TypeOK'
    BY <1>1, <1>2, <1>4, <1>4a, CommitTypes DEF TypeOK, Inv, TableInv
  <2> QED
    BY <1>1, <2>1, CommitAgrees DEF Inv, TableInv
<1>6. \A e : e \in Rows' <=> e = d \/ (e \in Rows /\ DedupKey(e) # DedupKey(d))
  BY <1>1, CommitRows DEF Inv
<1>7. AnswerMissesNothing'
  <2> SUFFICES ASSUME NEW k \in RoutingKeys \ suspect', cache'[k] # NotCached,
                      NEW e \in Live(k)'
               PROVE  e \in cache'[k]
    BY CompleteCache
  <2>1. cache'[k] = cache[k] /\ k \notin RoutingKeysOf(d) /\ k \notin suspect
    BY <1>3 DEF StoreCommitted
  <2>2. e \in Rows' /\ k \in RoutingKeysOf(e) /\ ~Expired(e, now)
    BY <1>1, <1>5, LiveRowsNext
  <2>3. e \in Rows
    BY <1>6, <2>1, <2>2
  <2>4. e \in Live(k)
    BY <2>2, <2>3, LiveRows DEF Inv
  <2> QED
    BY <2>1, <2>4, CompleteCache DEF Inv
<1>8. CacheDriftExplained'
  <2> SUFFICES ASSUME NEW k \in RoutingKeys, cache'[k] # NotCached, NEW c \in cache'[k]
               PROVE  \/ c \in Rows'
                      \/ \E e \in Rows' : DedupKey(e) = DedupKey(c) /\ k \notin RoutingKeysOf(e)
    BY DEF CacheDriftExplained
  <2>1. cache'[k] = cache[k] /\ k \notin RoutingKeysOf(d) /\ d \in Rows'
    BY <1>3, <1>6
  <2>2. \/ c \in Rows
        \/ \E e \in Rows : DedupKey(e) = DedupKey(c) /\ k \notin RoutingKeysOf(e)
    BY <2>1 DEF Inv, CacheDriftExplained
  <2> QED
    BY <1>6, <2>1, <2>2
<1> QED
  BY <1>2, <1>5, <1>7, <1>8 DEF Inv

\* Steps that leave the tables alone and only drop cached lists keep Inv, as
\* long as the clock does not go back.
LEMMA QuietInv ==
  ASSUME Inv, UNCHANGED tables, now' \in 0..MaxTime, now <= now',
         timestamps' \in Recorded, RateInv',
         cache' \in [RoutingKeys -> (SUBSET Descriptors) \cup {NotCached}],
         suspect' \subseteq RoutingKeys,
         \A k \in RoutingKeys :
           cache'[k] # NotCached =>
             \/ cache'[k] = cache[k] /\ (k \in suspect => k \in suspect')
             \/ cache'[k] = Live(k)
             \/ k \in suspect' /\ cache'[k] \subseteq Live(k)
  PROVE  Inv'
<1>1. TableInv' /\ Rows' = Rows
  BY TablesUnchanged DEF Inv
<1>2. \A k \in RoutingKeys : Live(k)' \subseteq Live(k)
  <2> SUFFICES ASSUME NEW k \in RoutingKeys, NEW e \in Live(k)' PROVE e \in Live(k)
    OBVIOUS
  <2>1. e \in Rows /\ k \in RoutingKeysOf(e) /\ ~Expired(e, now')
    BY <1>1, LiveRowsNext
  <2>2. now \in Nat /\ now' \in Nat /\ e \in Descriptors
    BY <2>1, RateAssumption DEF Inv, TableInv, TypeOK, Rows
  <2>3. ~Expired(e, now)
    BY <2>1, <2>2, ExpiredStays
  <2> QED
    BY <2>1, <2>3, LiveRows DEF Inv
<1>3. \A k \in RoutingKeys : Live(k) \subseteq Rows
  BY LiveRows DEF Inv
<1>4. AnswerMissesNothing'
  <2> SUFFICES ASSUME NEW k \in RoutingKeys \ suspect', cache'[k] # NotCached
               PROVE  Live(k)' \subseteq cache'[k]
    BY CompleteCache
  <2>1. CASE cache'[k] = cache[k] /\ k \notin suspect
    BY <1>2, <2>1, CompleteCache DEF Inv
  <2>2. CASE cache'[k] = Live(k)
    BY <1>2, <2>2
  <2> QED
    BY <2>1, <2>2
<1>5. CacheDriftExplained'
  <2> SUFFICES ASSUME NEW k \in RoutingKeys, cache'[k] # NotCached, NEW c \in cache'[k]
               PROVE  \/ c \in Rows'
                      \/ \E e \in Rows' : DedupKey(e) = DedupKey(c) /\ k \notin RoutingKeysOf(e)
    BY DEF CacheDriftExplained
  <2>1. CASE cache'[k] = cache[k]
    BY <1>1, <2>1 DEF Inv, CacheDriftExplained
  <2>2. CASE cache'[k] \subseteq Live(k)
    BY <1>1, <1>3, <2>2
  <2> QED
    BY <2>1, <2>2
<1> QED
  BY <1>1, <1>4, <1>5 DEF Inv

\* Eviction keeps the invariant: the cache it leaves behind is empty.
LEMMA EvictInv ==
  ASSUME Inv, evict_expired
  PROVE  Inv'
<1>1. TypeOK' /\ RateInv'
  BY EvictTypes DEF evict_expired, Inv, TableInv, TypeOK, EmptyCache, RateInv
<1>2. IndexesAgree' /\ RowsAuthentic'
  BY EvictAgrees DEF evict_expired, Inv
<1>3. \A k \in RoutingKeys : cache'[k] = NotCached
  BY DEF evict_expired, EmptyCache
<1> QED
  BY <1>1, <1>2, <1>3, CompleteCache DEF Inv, TableInv, CacheDriftExplained

\* Every step of the hub storage preserves the inductive invariant.
LEMMA StepInv == Inv /\ [Next]_vars => Inv'
<1> SUFFICES ASSUME Inv, [Next]_vars PROVE Inv'
  OBVIOUS
<1>0. /\ now \in 0..MaxTime /\ now <= now /\ timestamps \in Recorded /\ RateInv
      /\ cache \in [RoutingKeys -> (SUBSET Descriptors) \cup {NotCached}]
      /\ EmptyCache \in [RoutingKeys -> (SUBSET Descriptors) \cup {NotCached}]
      /\ suspect \subseteq RoutingKeys
  BY RateAssumption DEF Inv, TableInv, TypeOK, EmptyCache
<1>1. ASSUME NEW d \in Descriptors, NEW trusted \in BOOLEAN,
             store_descriptor_at(d, trusted)
      PROVE  Inv'
  <2>1. CASE UNCHANGED vars
    BY <1>0, <2>1, QuietInv DEF vars, cached, RateInv
  <2>2. CASE StoreRateLimited(d, trusted) \/ StoreAborted(d, trusted)
    <3>1. timestamps' \in Recorded /\ RateInv'
      BY <2>2, AttemptKeeps DEF StoreRateLimited, StoreAborted
    <3>2. UNCHANGED <<now, tables, cache, suspect>>
      BY <2>2 DEF StoreRateLimited, StoreAborted, cached
    <3> QED
      BY <1>0, <3>1, <3>2, QuietInv
  <2>3. CASE StoreCommitted(d, trusted)
    BY <2>3, CommittedInv
  <2> QED
    BY <1>1, <2>1, <2>2, <2>3 DEF store_descriptor_at, StoreInvalid
<1>2. ASSUME NEW k \in RoutingKeys, QueryMiss(k) PROVE Inv'
  <2>1. Live(k) \in SUBSET Descriptors
    BY LiveRows DEF Inv, Rows
  <2>2. /\ UNCHANGED <<now, timestamps, tables, suspect>>
        /\ cache' = [cache EXCEPT ![k] = Live(k)]
    BY <1>2 DEF QueryMiss
  <2>3. cache' \in [RoutingKeys -> (SUBSET Descriptors) \cup {NotCached}]
    BY <1>0, <2>1, <2>2
  <2>4. \A j \in RoutingKeys : cache'[j] = cache[j] \/ cache'[j] = Live(j)
    BY <1>0, <2>2
  <2>5. RateInv'
    BY <1>0, <2>2 DEF RateInv
  <2> QED
    BY <1>0, <2>2, <2>3, <2>4, <2>5, QuietInv
<1>9. ASSUME NEW k \in RoutingKeys, QueryPartial(k) PROVE Inv'
  <2>1. Live(k) \in SUBSET Descriptors
    BY LiveRows DEF Inv, Rows
  <2>2. PICK read \in SUBSET Live(k) : cache' = [cache EXCEPT ![k] = read]
    BY <1>9 DEF QueryPartial
  <2>3. suspect' = suspect \cup {k} /\ UNCHANGED <<now, timestamps, tables>>
    BY <1>9 DEF QueryPartial
  <2>4. cache' \in [RoutingKeys -> (SUBSET Descriptors) \cup {NotCached}]
    BY <1>0, <2>1, <2>2
  <2>5. \A j \in RoutingKeys :
          \/ cache'[j] = cache[j] /\ (j \in suspect => j \in suspect')
          \/ j \in suspect' /\ cache'[j] \subseteq Live(j)
    BY <1>0, <2>2, <2>3
  <2>6. RateInv'
    BY <1>0, <2>3 DEF RateInv
  <2> QED
    BY <1>0, <2>3, <2>4, <2>5, <2>6, QuietInv
<1>3. ASSUME NEW k \in RoutingKeys, CacheDrop(k) PROVE Inv'
  <2>1. /\ UNCHANGED <<now, timestamps, tables>>
        /\ cache' = [cache EXCEPT ![k] = NotCached] /\ suspect' = suspect \ {k}
    BY <1>3 DEF CacheDrop
  <2>2. cache' \in [RoutingKeys -> (SUBSET Descriptors) \cup {NotCached}]
    BY <1>0, <2>1
  <2>3. \A j \in RoutingKeys :
          cache'[j] = NotCached \/ (cache'[j] = cache[j] /\ (j \in suspect => j \in suspect'))
    BY <1>0, <2>1
  <2>4. RateInv'
    BY <1>0, <2>1 DEF RateInv
  <2> QED
    BY <1>0, <2>1, <2>2, <2>3, <2>4, QuietInv
<1>4. CASE evict_expired
  BY <1>4, EvictInv
<1>5. CASE EvictAborted
  <2>1. UNCHANGED <<now, timestamps, tables>> /\ cache' = EmptyCache /\ suspect' = {}
    BY <1>5 DEF EvictAborted
  <2>2. RateInv' /\ \A k \in RoutingKeys : cache'[k] = NotCached
    BY <1>0, <2>1 DEF RateInv, EmptyCache
  <2> QED
    BY <1>0, <2>1, <2>2, QuietInv
<1>6. CASE Restart
  <2>1. /\ UNCHANGED <<now, tables>> /\ cache' = EmptyCache /\ suspect' = {}
        /\ timestamps' = [p \in Identities |-> {}]
    BY <1>6 DEF Restart
  <2>2. timestamps' \in Recorded
    BY <2>1 DEF Recorded
  <2>3. RateInv'
    BY <2>1, FS_EmptySet, RateAssumption DEF RateInv
  <2>4. \A k \in RoutingKeys : cache'[k] = NotCached
    BY <2>1 DEF EmptyCache
  <2> QED
    BY <1>0, <2>1, <2>2, <2>3, <2>4, QuietInv
<1>7. CASE Tick
  <2>1. UNCHANGED <<timestamps, tables, cache, suspect>> /\ now' \in 0..MaxTime /\ now <= now'
    BY <1>0, <1>7, RateAssumption DEF Tick, cached
  <2>2. RateInv'
    BY <1>0, <2>1 DEF RateInv
  <2> QED
    BY <1>0, <2>1, <2>2, QuietInv
<1>8. CASE UNCHANGED vars
  BY <1>0, <1>8, QuietInv DEF vars, cached, RateInv
<1> QED
  BY <1>1, <1>2, <1>3, <1>4, <1>5, <1>6, <1>7, <1>8, <1>9 DEF Next

\* The invariant holds throughout.
THEOREM Invariance == Spec => []Inv
BY InitInv, StepInv, PTL DEF Spec

-----------------------------------------------------------------------------
(* The properties of the hub's storage.                                     *)

\* Type correctness of the tables, the cache and the limiter.
THEOREM TypeCorrect == Spec => []TypeOK
<1>1. Inv => TypeOK
  BY DEF Inv, TableInv
<1> QED
  BY <1>1, Invariance, PTL

\* The four tables always describe the same descriptors: no dangling index
\* entry, no unreachable row, no watermark without its row.
THEOREM TablesAgree == Spec => []IndexesAgree
<1>1. Inv => IndexesAgree
  BY DEF Inv, TableInv
<1> QED
  BY <1>1, Invariance, PTL

\* The cache never hides a live descriptor from a query.
THEOREM AnswersComplete == Spec => []AnswerMissesNothing
<1>1. Inv => AnswerMissesNothing
  BY DEF Inv
<1> QED
  BY <1>1, Invariance, PTL

\* A cached version that is gone from the tables was superseded by one stored
\* under other routing keys.
THEOREM CacheDrift == Spec => []CacheDriftExplained
<1>1. Inv => CacheDriftExplained
  BY DEF Inv
<1> QED
  BY <1>1, Invariance, PTL

-----------------------------------------------------------------------------
(* The tables implement DescriptorSlots.                                    *)

SlotOf(dk) ==
  IF dedup_index[dk] = Absent THEN Absent ELSE descriptors[dedup_index[dk]]

\* The abstract module's copies of the descriptor operators are the ones the
\* hub storage uses.
LEMMA SameNotions ==
  /\ Slots!DedupKeys = DedupKeys
  /\ \A d : Slots!DedupKey(d) = DedupKey(d)
  /\ \A d, t : Slots!Expired(d, t) = Expired(d, t)
BY DEF DedupKeys, Slots!DedupKeys, DedupKey, Slots!DedupKey,
       Expired, Slots!Expired, EffectiveStart, Slots!EffectiveStart

\* A committed STORE changes one slot: to d.
LEMMA CommitSlot ==
  ASSUME Inv, NEW d \in Descriptors, d.authentic, Commit(d), NEW s \in DedupKeys
  PROVE  SlotOf(s)' = IF s = DedupKey(d) THEN d ELSE SlotOf(s)
<1>0. d.id \in Ids /\ DedupKey(d) \in DedupKeys /\ d # Absent /\ d.id # Absent
  BY DescriptorFields
<1>1. dedup_index'[s] = IF s = DedupKey(d) THEN d.id ELSE dedup_index[s]
  BY <1>0 DEF Commit, Inv, TableInv, TypeOK
<1>2. \A id \in Ids :
        descriptors'[id] = IF id = d.id THEN d
                           ELSE IF id = OldId(d) THEN Absent
                           ELSE descriptors[id]
  BY DEF Commit
<1>3. CASE s = DedupKey(d)
  BY <1>0, <1>1, <1>2, <1>3 DEF SlotOf
<1>4. CASE s # DedupKey(d) /\ dedup_index[s] = Absent
  BY <1>1, <1>4 DEF SlotOf
<1>5. CASE s # DedupKey(d) /\ dedup_index[s] # Absent
  <2>1. /\ dedup_index[s] \in Ids
        /\ descriptors[dedup_index[s]] \in Rows
        /\ descriptors[dedup_index[s]] # Absent
        /\ DedupKey(descriptors[dedup_index[s]]) = s
    BY <1>5, RowFacts, DescriptorFields DEF Inv, TableInv, TypeOK
  <2>2. dedup_index[s] # d.id /\ dedup_index[s] # OldId(d)
    BY <1>5, <2>1, OldVersion DEF Inv
  <2> QED
    BY <1>1, <1>2, <1>5, <2>1, <2>2 DEF SlotOf
<1> QED
  BY <1>3, <1>4, <1>5

\* Eviction empties the slots whose descriptor has expired.
LEMMA EvictSlot ==
  ASSUME Inv, EvictTables, NEW s \in DedupKeys, SlotOf(s)' # SlotOf(s)
  PROVE  SlotOf(s)' = Absent /\ Expired(SlotOf(s), now)
<1>1. dedup_index'[s] = IF s \in EvictedSlots THEN Absent ELSE dedup_index[s]
  BY DEF EvictTables
<1>2. CASE s \in EvictedSlots
  BY <1>1, <1>2, EvictionScope DEF SlotOf, Inv
<1>3. CASE s \notin EvictedSlots /\ dedup_index[s] # Absent
  <2>1. dedup_index[s] \in Ids /\ ~Expired(descriptors[dedup_index[s]], now)
    BY <1>3, EvictionScope DEF Inv, TableInv, TypeOK
  <2>2. descriptors'[dedup_index[s]] = descriptors[dedup_index[s]]
    BY <2>1, EvictionScope DEF EvictTables, Inv
  <2> QED
    BY <1>1, <1>3, <2>2 DEF SlotOf
<1>4. CASE s \notin EvictedSlots /\ dedup_index[s] = Absent
  BY <1>1, <1>4 DEF SlotOf
<1> QED
  BY <1>2, <1>3, <1>4

\* The hub's tables keep the promise of DescriptorSlots through cache misses,
\* failed transactions and restarts.
THEOREM HubImplementsSlots == Spec => ImplementsSlots
<1>1. Init => Slots!Init
  BY SameNotions DEF Init, Slots!Init
<1>2. Inv /\ [Next]_vars => [Slots!Next]_(Slots!svars)
  <2> SUFFICES ASSUME Inv, [Next]_vars PROVE [Slots!Next]_(Slots!svars)
    OBVIOUS
  <2>1. ASSUME NEW d \in Descriptors, NEW trusted \in BOOLEAN,
               StoreCommitted(d, trusted)
        PROVE  Slots!Next
    <3>1. /\ d.authentic /\ ~Expired(d, now) /\ Commit(d) /\ now' = now /\ ~Stale(d)
          /\ d.publisher \in Identities /\ d.sequence \in Nat
      BY <2>1, DescriptorFields DEF StoreCommitted, validate
    <3>2. ASSUME NEW s \in DedupKeys, SlotOf(s)' # SlotOf(s)
          PROVE  /\ s[1] = d.publisher
                 /\ SlotOf(s)' = d /\ DedupKey(d) = s
                 /\ SlotOf(s) # Absent => SlotOf(s).sequence <= d.sequence
      <4>1. s = DedupKey(d) /\ SlotOf(s)' = d
        BY <3>1, <3>2, CommitSlot
      <4>2. SlotOf(s) # Absent => SlotOf(s).sequence = sequences[s]
        BY RowFacts DEF SlotOf, Inv
      <4>3. sequences[s] \in Int
        BY DEF Inv, TableInv, TypeOK, NoSequence
      <4> QED
        BY <3>1, <4>1, <4>2, <4>3 DEF Stale, DedupKey
    <3>3. Slots!Request(d.publisher)
      BY <3>1, <3>2, SameNotions DEF Slots!Request, Slots!Written, SlotOf
    <3> QED
      BY <3>1, <3>3 DEF Slots!Next
  <2>2. CASE evict_expired
    <3>1. \A s \in DedupKeys :
            SlotOf(s)' # SlotOf(s) => SlotOf(s)' = Absent /\ Expired(SlotOf(s), now)
      BY <2>2, EvictSlot DEF evict_expired
    <3>2. now' = now
      BY <2>2 DEF evict_expired
    <3> QED
      BY <3>1, <3>2, SameNotions DEF Slots!Next, Slots!Evict, SlotOf
  <2>3. CASE Tick
    <3>1. UNCHANGED tables /\ now' > now
      BY <2>3, RateAssumption DEF Tick, Inv, TableInv, TypeOK
    <3> QED
      BY <3>1 DEF tables, Slots!Next, Slots!Pass
  <2>4. CASE UNCHANGED <<now, tables>>
    BY <2>4 DEF tables, Slots!svars
  <2>5. \/ \E d \in Descriptors, trusted \in BOOLEAN : StoreCommitted(d, trusted)
        \/ evict_expired \/ Tick \/ UNCHANGED <<now, tables>>
    BY DEF Next, store_descriptor_at, StoreInvalid, StoreRateLimited, StoreAborted,
           QueryMiss, QueryPartial, CacheDrop, EvictAborted, Restart, vars, tables
  <2> QED
    BY <2>1, <2>2, <2>3, <2>4, <2>5
<1> QED
  BY <1>1, <1>2, Invariance, PTL DEF Spec, ImplementsSlots, Slots!Spec

-----------------------------------------------------------------------------
(* How an answer comes to differ from the tables.                           *)

\* An answer that agrees with the tables stops doing so in three ways only: a
\* listed descriptor expires, the query that loaded it could not read all rows,
\* or a commit moved a slot away from the routing key.  An answer that differs
\* stays so only as long as nothing throws the cached list out: no eviction,
\* failed eviction, restart, nor commit under the routing key.
DriftHasCause ==
  [][\A k \in RoutingKeys :
       Answer(k)' # Live(k)' =>
         \/ /\ Answer(k) # Live(k) /\ cache'[k] = cache[k]
            /\ ~evict_expired /\ ~EvictAborted /\ ~Restart
            /\ \A d \in Descriptors, trusted \in BOOLEAN :
                 StoreCommitted(d, trusted) => k \notin RoutingKeysOf(d)
         \/ Tick
         \/ QueryPartial(k)
         \/ \E d \in Descriptors, trusted \in BOOLEAN :
              StoreCommitted(d, trusted) /\ k \in OldKeys(d) \ RoutingKeysOf(d)]_vars

\* The live rows under a routing key do not change with a commit that neither
\* brings a descriptor under it nor takes one away.
LEMMA LiveKept ==
  ASSUME Inv, Inv', NEW d \in Descriptors, NEW trusted, StoreCommitted(d, trusted),
         NEW k \in RoutingKeys, k \notin RoutingKeysOf(d), k \notin OldKeys(d)
  PROVE  Live(k)' = Live(k)
<1>1. d.authentic /\ Commit(d) /\ now' = now
  BY DEF StoreCommitted, validate
<1>2. \A e : e \in Rows' <=> e = d \/ (e \in Rows /\ DedupKey(e) # DedupKey(d))
  BY <1>1, CommitRows DEF Inv
<1>3. ASSUME NEW e \in Rows, k \in RoutingKeysOf(e)
      PROVE  DedupKey(e) # DedupKey(d)
  <2>1. DedupKey(e) = DedupKey(d) => e.id = OldId(d) /\ descriptors[e.id] = e
    BY <1>1, OldVersion, RowFacts DEF Inv
  <2>2. OldId(d) # Absent => OldKeys(d) = RoutingKeysOf(descriptors[OldId(d)])
    BY <1>1, OldVersion DEF Inv
  <2>3. e.id # Absent
    BY RowFacts, DescriptorFields DEF Inv
  <2> QED
    BY <1>3, <2>1, <2>2, <2>3
<1>4. ASSUME NEW e
      PROVE  e \in Live(k)' <=> e \in Live(k)
  <2>1. e \in Live(k)' <=> e \in Rows' /\ k \in RoutingKeysOf(e) /\ ~Expired(e, now)
    BY <1>1, LiveRowsNext DEF Inv
  <2>2. e \in Live(k) <=> e \in Rows /\ k \in RoutingKeysOf(e) /\ ~Expired(e, now)
    BY LiveRows DEF Inv
  <2> QED
    BY <1>2, <1>3, <2>1, <2>2
<1> QED
  BY <1>4

\* One step of DriftHasCause.
LEMMA DriftStep ==
  ASSUME Inv, Inv', [Next]_vars, NEW k \in RoutingKeys, Answer(k)' # Live(k)'
  PROVE  \/ /\ Answer(k) # Live(k) /\ cache'[k] = cache[k]
            /\ ~evict_expired /\ ~EvictAborted /\ ~Restart
            /\ \A d \in Descriptors, trusted \in BOOLEAN :
                 StoreCommitted(d, trusted) => k \notin RoutingKeysOf(d)
         \/ Tick
         \/ QueryPartial(k)
         \/ \E d \in Descriptors, trusted \in BOOLEAN :
              StoreCommitted(d, trusted) /\ k \in OldKeys(d) \ RoutingKeysOf(d)
<1>1. cache'[k] # NotCached /\ cache'[k] # Live(k)'
  BY DEF Answer
<1>2. cache \in [RoutingKeys -> (SUBSET Descriptors) \cup {NotCached}]
  BY DEF Inv, TableInv, TypeOK
<1>3. ~evict_expired /\ ~EvictAborted /\ ~Restart
  BY <1>1 DEF evict_expired, EvictAborted, Restart, EmptyCache
<1>4. \A d \in Descriptors, trusted \in BOOLEAN :
        StoreCommitted(d, trusted) => k \notin RoutingKeysOf(d) /\ cache'[k] = cache[k]
  BY <1>1 DEF StoreCommitted, Invalidated
<1>5. UNCHANGED <<now, tables>> => Live(k)' = Live(k)
  BY DEF Live, tables
<1>6. cache'[k] = cache[k] /\ Live(k)' = Live(k) => Answer(k) # Live(k)
  BY <1>1 DEF Answer
<1>7. ASSUME NEW d \in Descriptors, NEW trusted \in BOOLEAN, store_descriptor_at(d, trusted)
      PROVE  \/ Answer(k) # Live(k) /\ cache'[k] = cache[k]
             \/ StoreCommitted(d, trusted) /\ k \in OldKeys(d) \ RoutingKeysOf(d)
  <2>1. CASE StoreCommitted(d, trusted)
    BY <1>4, <1>6, <2>1, LiveKept
  <2>2. CASE StoreInvalid(d, trusted) \/ StoreRateLimited(d, trusted) \/ StoreAborted(d, trusted)
    <3>1. UNCHANGED <<now, tables>> /\ cache' = cache
      BY <2>2 DEF StoreInvalid, StoreRateLimited, StoreAborted, vars, cached
    <3> QED
      BY <1>5, <1>6, <3>1
  <2> QED
    BY <1>7, <2>1, <2>2 DEF store_descriptor_at
<1>8. ASSUME NEW j \in RoutingKeys, QueryMiss(j) \/ QueryPartial(j) \/ CacheDrop(j)
      PROVE  (Answer(k) # Live(k) /\ cache'[k] = cache[k]) \/ QueryPartial(k)
  <2>1. UNCHANGED <<now, tables>>
    BY <1>8 DEF QueryMiss, QueryPartial, CacheDrop
  <2>2. CASE j = k
    <3>1. ~QueryMiss(k)
      BY <1>1, <1>2, <1>5, <2>1 DEF QueryMiss
    <3>2. ~CacheDrop(k)
      BY <1>1, <1>2 DEF CacheDrop
    <3> QED
      BY <1>8, <2>2, <3>1, <3>2
  <2>3. CASE j # k
    <3>1. cache'[k] = cache[k]
      BY <1>2, <1>8, <2>3 DEF QueryMiss, QueryPartial, CacheDrop
    <3> QED
      BY <1>5, <1>6, <2>1, <3>1
  <2> QED
    BY <2>2, <2>3
<1>9. CASE UNCHANGED vars
  <2>1. UNCHANGED <<now, tables>> /\ cache' = cache
    BY <1>9 DEF vars, cached
  <2> QED
    BY <1>3, <1>4, <1>5, <1>6, <2>1
<1> QED
  BY <1>3, <1>4, <1>7, <1>8, <1>9 DEF Next

\* The three ways in which an answer comes to differ from the tables are all
\* there are, and an eviction, even a failed one, a restart or a commit under
\* the routing key makes it agree again: the part of AnswerHeals that does not
\* depend on when the expiry task runs.
THEOREM DriftCauses == Spec => DriftHasCause
<1>1. Inv /\ Inv' /\ [Next]_vars =>
        [\A k \in RoutingKeys :
           Answer(k)' # Live(k)' =>
             \/ /\ Answer(k) # Live(k) /\ cache'[k] = cache[k]
                /\ ~evict_expired /\ ~EvictAborted /\ ~Restart
                /\ \A d \in Descriptors, trusted \in BOOLEAN :
                     StoreCommitted(d, trusted) => k \notin RoutingKeysOf(d)
             \/ Tick
             \/ QueryPartial(k)
             \/ \E d \in Descriptors, trusted \in BOOLEAN :
                  StoreCommitted(d, trusted) /\ k \in OldKeys(d) \ RoutingKeysOf(d)]_vars
  <2> SUFFICES ASSUME Inv, Inv', [Next]_vars, NEW k \in RoutingKeys, Answer(k)' # Live(k)'
               PROVE  \/ /\ Answer(k) # Live(k) /\ cache'[k] = cache[k]
                         /\ ~evict_expired /\ ~EvictAborted /\ ~Restart
                         /\ \A d \in Descriptors, trusted \in BOOLEAN :
                              StoreCommitted(d, trusted) => k \notin RoutingKeysOf(d)
                      \/ Tick
                      \/ QueryPartial(k)
                      \/ \E d \in Descriptors, trusted \in BOOLEAN :
                           StoreCommitted(d, trusted) /\ k \in OldKeys(d) \ RoutingKeysOf(d)
    OBVIOUS
  <2> QED
    BY DriftStep
<1> QED
  BY <1>1, Invariance, PTL DEF Spec, DriftHasCause

-----------------------------------------------------------------------------
(* How long a descriptor is answered.                                       *)

\* What has a row has passed validate, at a time that is not after now.
RowsWereValid ==
  \A d \in Rows : /\ MIN_TTL <= d.ttl /\ d.ttl <= MAX_TTL
                  /\ d.timestamp <= now + MAX_CLOCK_SKEW

\* A query that reads the tables lists a row up to timestamp + ttl and no
\* longer, and that end is at most the largest skew and the largest ttl away,
\* over restarts and evictions that fail.
RowsEndOnTime ==
  \A d \in Rows :
    /\ \A k \in RoutingKeysOf(d) : d \in Live(k) <=> now < d.timestamp + d.ttl
    /\ d.timestamp + d.ttl <= now + MAX_CLOCK_SKEW + MAX_TTL

\* What has a row was valid when it was stored, and time does not take the
\* limits of validate away from it.
LEMMA RowsValid == Spec => []RowsWereValid
<1>1. Init => RowsWereValid
  BY DescriptorFields DEF Init, RowsWereValid, Rows
<1>2. Inv /\ RowsWereValid /\ [Next]_vars => RowsWereValid'
  <2> SUFFICES ASSUME Inv, RowsWereValid, [Next]_vars, NEW e \in Rows'
               PROVE  /\ MIN_TTL <= e.ttl /\ e.ttl <= MAX_TTL
                      /\ e.timestamp <= now' + MAX_CLOCK_SKEW
    BY DEF RowsWereValid
  <2>1. now \in Nat
    BY RateAssumption DEF Inv, TableInv, TypeOK
  <2>2. e \in Descriptors /\ e.timestamp \in Nat /\ e.ttl \in Nat
    BY DescriptorsAssumption DEF Rows, Descriptor
  <2>3. ASSUME e \in Rows, now' = now \/ now' = now + 1
        PROVE  /\ MIN_TTL <= e.ttl /\ e.ttl <= MAX_TTL
               /\ e.timestamp <= now' + MAX_CLOCK_SKEW
    <3>1. /\ MIN_TTL <= e.ttl /\ e.ttl <= MAX_TTL
          /\ e.timestamp <= now + MAX_CLOCK_SKEW
      BY <2>3 DEF RowsWereValid
    <3> QED
      BY <2>1, <2>2, <2>3, <3>1, LimitsAssumption
  <2>4. ASSUME UNCHANGED tables
        PROVE  e \in Rows
    BY <2>4 DEF Rows, tables
  <2>5. ASSUME NEW d \in Descriptors, NEW trusted \in BOOLEAN, StoreCommitted(d, trusted)
        PROVE  /\ MIN_TTL <= e.ttl /\ e.ttl <= MAX_TTL
               /\ e.timestamp <= now' + MAX_CLOCK_SKEW
    <3>1. validate(d, now) /\ d.authentic /\ Commit(d) /\ now' = now
      BY <2>5 DEF StoreCommitted, validate
    <3>2. e = d \/ e \in Rows
      BY <3>1, CommitRows DEF Inv
    <3> QED
      BY <2>3, <3>1, <3>2 DEF validate
  <2>6. ASSUME NEW d \in Descriptors, NEW trusted \in BOOLEAN,
               StoreInvalid(d, trusted) \/ StoreRateLimited(d, trusted)
                 \/ StoreAborted(d, trusted)
        PROVE  UNCHANGED tables /\ now' = now
    BY <2>6 DEF StoreInvalid, StoreRateLimited, StoreAborted, vars
  <2>7. ASSUME NEW k \in RoutingKeys, QueryMiss(k) \/ QueryPartial(k) \/ CacheDrop(k)
        PROVE  UNCHANGED tables /\ now' = now
    BY <2>7 DEF QueryMiss, QueryPartial, CacheDrop
  <2>8. CASE evict_expired
    <3>1. e \in Rows /\ now' = now
      BY <2>8, EvictRows DEF evict_expired, Inv
    <3> QED
      BY <2>3, <3>1
  <2>9. CASE EvictAborted \/ Restart \/ Tick \/ UNCHANGED vars
    <3>1. UNCHANGED tables /\ (now' = now \/ now' = now + 1)
      BY <2>9 DEF EvictAborted, Restart, Tick, vars
    <3> QED
      BY <2>3, <2>4, <3>1
  <2> QED
    BY <2>3, <2>4, <2>5, <2>6, <2>7, <2>8, <2>9 DEF Next, store_descriptor_at
<1> QED
  BY <1>1, <1>2, Invariance, PTL DEF Spec

\* A row of the hub's tables is listed until timestamp + ttl and never after
\* it, and nothing that has a row can be listed for longer than MAX_CLOCK_SKEW +
\* MAX_TTL from now on, whatever restarts and failed evictions come.
THEOREM LifetimeBounded == Spec => []RowsEndOnTime
<1>1. Inv /\ RowsWereValid => RowsEndOnTime
  <2> SUFFICES ASSUME Inv, RowsWereValid, NEW d \in Rows
               PROVE  /\ \A k \in RoutingKeysOf(d) :
                           d \in Live(k) <=> now < d.timestamp + d.ttl
                      /\ d.timestamp + d.ttl <= now + MAX_CLOCK_SKEW + MAX_TTL
    BY DEF RowsEndOnTime
  <2>1. now \in Nat /\ d \in Descriptors /\ d.timestamp \in Nat /\ d.ttl \in Nat
    BY DescriptorsAssumption, RateAssumption DEF Inv, TableInv, TypeOK, Rows, Descriptor
  <2>2. /\ MIN_TTL <= d.ttl /\ d.ttl <= MAX_TTL
        /\ d.timestamp <= now + MAX_CLOCK_SKEW
    BY DEF RowsWereValid
  <2>3. Expired(d, now) <=> d.timestamp + d.ttl <= now
    BY <2>1, <2>2, ExpiryInstant
  <2>4. ~Expired(d, now) <=> now < d.timestamp + d.ttl
    BY <2>1, <2>3
  <2>5. ASSUME NEW k \in RoutingKeysOf(d)
        PROVE  d \in Live(k) <=> now < d.timestamp + d.ttl
    <3>1. k \in RoutingKeys
      BY <2>1, DescriptorFields
    <3> QED
      BY <2>4, <3>1, LiveRows DEF Inv
  <2>6. d.timestamp + d.ttl <= now + MAX_CLOCK_SKEW + MAX_TTL
    BY <2>1, <2>2, LimitsAssumption
  <2> QED
    BY <2>5, <2>6
<1> QED
  BY <1>1, Invariance, RowsValid, PTL
=============================================================================
