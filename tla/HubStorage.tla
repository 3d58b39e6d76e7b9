----------------------------- MODULE HubStorage -----------------------------
(***************************************************************************)
(* The storage of a hub: CachedStorage over RedbStorage.  Four redb tables *)
(* (descriptors, a routing-key index, a dedup index, sequence watermarks)  *)
(* change together in one write transaction; a cache of query results sits *)
(* in front of them and, like the rate limiter, is lost in a restart.      *)
(*                                                                         *)
(* Every operation runs under the hub's DHT mutex, so it is one step; a    *)
(* transaction that fails leaves the tables as they were (redb's           *)
(* atomicity, external to the repository).  `trusted` is the value of      *)
(* skip_rate_limit for the call.                                           *)
(***************************************************************************)
EXTENDS StoreRateLimiter

CONSTANTS
  Absent,      \* a row or an index entry that a table lacks
  NotCached    \* a routing key the cache has no entry for

ASSUME AbsentAssumption == Absent \notin Ids /\ Absent \notin Descriptors

ASSUME NotCachedAssumption == \A S \in SUBSET Descriptors : NotCached # S

VARIABLES
  descriptors,     \* DESCRIPTORS:    id -> descriptor
  by_routing_key,  \* BY_ROUTING_KEY: routing key -> ids
  dedup_index,     \* DEDUP_INDEX:    dedup key -> id
  sequences,       \* SEQUENCES:      dedup key -> sequence
  cache,           \* routing key -> cached result, or NotCached
  suspect          \* history: routing keys whose cached result is of a failed read

tables == <<descriptors, by_routing_key, dedup_index, sequences>>

cached == <<cache, suspect>>

vars == <<now, timestamps, tables, cached>>

NoSequence == -1

EmptyCache == [k \in RoutingKeys |-> NotCached]

\* The four tables, the cache and the windows keep their type.
TypeOK ==
  /\ now \in 0..MaxTime
  /\ timestamps \in Recorded
  /\ descriptors \in [Ids -> Descriptors \cup {Absent}]
  /\ by_routing_key \in [RoutingKeys -> SUBSET Ids]
  /\ dedup_index \in [DedupKeys -> Ids \cup {Absent}]
  /\ sequences \in [DedupKeys -> Nat \cup {NoSequence}]
  /\ cache \in [RoutingKeys -> (SUBSET Descriptors) \cup {NotCached}]
  /\ suspect \subseteq RoutingKeys

Init ==
  /\ now = 0
  /\ timestamps = [p \in Identities |-> {}]
  /\ descriptors = [id \in Ids |-> Absent]
  /\ by_routing_key = [k \in RoutingKeys |-> {}]
  /\ dedup_index = [dk \in DedupKeys |-> Absent]
  /\ sequences = [dk \in DedupKeys |-> NoSequence]
  /\ cache = EmptyCache
  /\ suspect = {}

-----------------------------------------------------------------------------
(* RedbStorage and CachedStorage: store_descriptor_at.                      *)

\* The descriptors that have a row.
Rows == {d \in Descriptors : descriptors[d.id] = d}

\* Rate limiting, skipped for gossip, bootstrap and seeding.
MayStore(d, trusted) == trusted \/ WithinLimit(d.publisher)

CountAttempt(d, trusted) ==
  IF trusted THEN UNCHANGED timestamps ELSE check_and_record(d.publisher)

\* Mutation: the comparison is off by one.
Stale_OffByOne(d) == d.sequence + 1 < sequences[DedupKey(d)]

Stale(d) == d.sequence < sequences[DedupKey(d)]

\* The row of the version that d replaces, found through the dedup index.
OldId(d) == dedup_index[DedupKey(d)]

\* The routing keys of that row, none when there is no such row.
OldKeys(d) ==
  IF OldId(d) # Absent /\ descriptors[OldId(d)] # Absent
  THEN RoutingKeysOf(descriptors[OldId(d)])
  ELSE {}

\* The routing-key index once d has taken the place of the old version.
Reindexed(d) ==
  [k \in RoutingKeys |->
     (IF k \in OldKeys(d) THEN by_routing_key[k] \ {OldId(d)} ELSE by_routing_key[k])
       \cup (IF k \in RoutingKeysOf(d) THEN {d.id} ELSE {})]

\* One write transaction: replace the old version and update every index.
Commit(d) ==
  /\ descriptors' = [id \in Ids |->
                       IF id = d.id THEN d
                       ELSE IF id = OldId(d) THEN Absent
                       ELSE descriptors[id]]
  /\ by_routing_key' = Reindexed(d)
  /\ dedup_index' = [dedup_index EXCEPT ![DedupKey(d)] = d.id]
  /\ sequences' = [sequences EXCEPT ![DedupKey(d)] = d.sequence]

\* Mutation: the cache is not invalidated by writes.
Invalidated_Never(keys) == cache

\* The cache once the entries of some routing keys are invalidated.
Invalidated(keys) ==
  [k \in RoutingKeys |-> IF k \in keys THEN NotCached ELSE cache[k]]

StoreInvalid(d, trusted) ==
  /\ ~validate(d, now)
  /\ UNCHANGED vars

StoreRateLimited(d, trusted) ==
  /\ validate(d, now)
  /\ ~MayStore(d, trusted)
  /\ CountAttempt(d, trusted)
  /\ UNCHANGED <<now, tables, cached>>

\* A stale sequence, or an error of the database before or at the commit:
\* the transaction is dropped and nothing is invalidated.
StoreAborted(d, trusted) ==
  /\ validate(d, now)
  /\ MayStore(d, trusted)
  /\ CountAttempt(d, trusted)
  /\ UNCHANGED <<now, tables, cached>>

StoreCommitted(d, trusted) ==
  /\ validate(d, now)
  /\ MayStore(d, trusted)
  /\ ~Stale(d)
  /\ CountAttempt(d, trusted)
  /\ Commit(d)
  /\ cache' = Invalidated(RoutingKeysOf(d))
  /\ suspect' = suspect \ RoutingKeysOf(d)
  /\ UNCHANGED now

store_descriptor_at(d, trusted) ==
  \/ StoreInvalid(d, trusted)
  \/ StoreRateLimited(d, trusted)
  \/ StoreAborted(d, trusted)
  \/ StoreCommitted(d, trusted)

-----------------------------------------------------------------------------
(* Queries.                                                                 *)

\* RedbStorage::get_descriptors without filters.
Live(k) ==
  {d \in {descriptors[id] : id \in by_routing_key[k]} \ {Absent} : ~Expired(d, now)}

\* What CachedStorage::get_descriptors returns: a cached list as it is.
Answer(k) == IF cache[k] # NotCached THEN cache[k] ELSE Live(k)

\* A query that misses the cache loads the list into it.
QueryMiss(k) ==
  /\ cache[k] = NotCached
  /\ cache' = [cache EXCEPT ![k] = Live(k)]
  /\ UNCHANGED <<now, timestamps, tables, suspect>>

\* A read of the tables fails: the list lacks the rows that were not read, all
\* of them when the transaction or a table does not open, and is cached as it
\* is.
QueryPartial(k) ==
  /\ cache[k] = NotCached
  /\ \E read \in SUBSET Live(k) : cache' = [cache EXCEPT ![k] = read]
  /\ suspect' = suspect \cup {k}
  /\ UNCHANGED <<now, timestamps, tables>>

\* moka drops an entry, on its own account, to stay within max_capacity.
CacheDrop(k) ==
  /\ cache[k] # NotCached
  /\ cache' = [cache EXCEPT ![k] = NotCached]
  /\ suspect' = suspect \ {k}
  /\ UNCHANGED <<now, timestamps, tables>>

-----------------------------------------------------------------------------
(* The expiry task, restarts and the clock.                                 *)

\* Mutation: the dedup index keeps the entry of an evicted descriptor.
EvictedSlots_None == {}

\* The slots whose descriptor is evicted.
EvictedSlots == {DedupKey(d) : d \in {e \in Rows : Expired(e, now)}}

EvictTables ==
  LET gone == {d \in Rows : Expired(d, now)} IN
  /\ descriptors' = [id \in Ids |->
                       IF \E d \in gone : d.id = id THEN Absent ELSE descriptors[id]]
  /\ by_routing_key' = [k \in RoutingKeys |->
                          by_routing_key[k]
                            \ {d.id : d \in {e \in gone : k \in RoutingKeysOf(e)}}]
  /\ dedup_index' = [dk \in DedupKeys |->
                       IF dk \in EvictedSlots THEN Absent ELSE dedup_index[dk]]
  /\ sequences' = [dk \in DedupKeys |->
                     IF dk \in EvictedSlots THEN NoSequence ELSE sequences[dk]]

\* Mutation: eviction leaves the cache alone.
evict_expired_KeepsCache ==
  /\ EvictTables
  /\ UNCHANGED <<now, timestamps, cached>>

evict_expired ==
  /\ EvictTables
  /\ cache' = EmptyCache
  /\ suspect' = {}
  /\ UNCHANGED <<now, timestamps>>

\* The transaction of the eviction fails; the cache is cleared all the same.
EvictAborted ==
  /\ cache' = EmptyCache
  /\ suspect' = {}
  /\ UNCHANGED <<now, timestamps, tables>>

\* The process stops and RedbStorage::open finds the tables on disk.
Restart ==
  /\ timestamps' = [p \in Identities |-> {}]
  /\ cache' = EmptyCache
  /\ suspect' = {}
  /\ UNCHANGED <<now, tables>>

Tick ==
  /\ now < MaxTime
  /\ now' = now + 1
  /\ UNCHANGED <<timestamps, tables, cached>>

Next ==
  \/ \E d \in Descriptors, trusted \in BOOLEAN : store_descriptor_at(d, trusted)
  \/ \E k \in RoutingKeys : QueryMiss(k) \/ QueryPartial(k) \/ CacheDrop(k)
  \/ evict_expired
  \/ EvictAborted
  \/ Restart
  \/ Tick

Spec == Init /\ [][Next]_vars

\* The expiry task runs every 60 seconds for as long as the hub is up, and a
\* database error of its transaction is not permanent.
FairSpec == Spec /\ WF_vars(evict_expired)

-----------------------------------------------------------------------------
(* Safety.                                                                  *)

\* The four tables describe the same descriptors: a routing key leads to the
\* rows that carry it, a slot leads to its one row and to the sequence of that
\* row, and no index entry outlives the row it points to.
IndexesAgree ==
  /\ \A id \in Ids : descriptors[id] # Absent => descriptors[id].id = id
  /\ \A k \in RoutingKeys, id \in Ids :
       id \in by_routing_key[k] <=>
         descriptors[id] # Absent /\ k \in RoutingKeysOf(descriptors[id])
  /\ \A dk \in DedupKeys, id \in Ids :
       dedup_index[dk] = id <=>
         descriptors[id] # Absent /\ DedupKey(descriptors[id]) = dk
  /\ \A dk \in DedupKeys :
       sequences[dk] = IF dedup_index[dk] = Absent THEN NoSequence
                       ELSE descriptors[dedup_index[dk]].sequence

\* A query answers with every live descriptor stored under its routing key,
\* whatever the cache holds, unless the cached list is the result of a failed
\* read that no write, eviction or restart has thrown out since.
AnswerMissesNothing ==
  \A k \in RoutingKeys \ suspect : Live(k) \subseteq Answer(k)

\* The only way a cached list may hold a version that is gone from the tables:
\* it was superseded by one that is not stored under that routing key.
CacheDriftExplained ==
  \A k \in RoutingKeys :
    cache[k] # NotCached =>
      \A d \in cache[k] :
        \/ d \in Rows
        \/ \E e \in Rows : DedupKey(e) = DedupKey(d) /\ k \notin RoutingKeysOf(e)

Slots == INSTANCE DescriptorSlots WITH
  Vacant <- Absent,
  slot <- [dk \in DedupKeys |->
             IF dedup_index[dk] = Absent THEN Absent ELSE descriptors[dedup_index[dk]]],
  clock <- now

\* The hub's tables keep the promise of a descriptor store: a STORE touches one
\* slot of its publisher and never replaces a newer version, eviction touches
\* expired slots only, and a restart touches none.
ImplementsSlots == Slots!Spec

(* Liveness, under FairSpec.                                                *)

\* An answer that differs from the tables, because the cached list holds an
\* expired or a superseded descriptor or lacks one that could not be read, does
\* not stay so: the expiry task clears the cache.
AnswerHeals == \A k \in RoutingKeys : (Answer(k) # Live(k)) ~> (Answer(k) = Live(k))

-----------------------------------------------------------------------------
(* What documents and comments say and the code does not do.                *)

\* redb.rs: the persisted SEQUENCES table is replay protection, so once a
\* version has been stored no earlier version of its slot is stored again.
ReplayProtected ==
  \A d, e \in Descriptors :
    DedupKey(d) = DedupKey(e) /\ e.sequence < d.sequence =>
      [](d \in Rows => [](e \notin Rows))

\* PROTOCOL.md 5.5: a node that receives a valid revocation removes the target.
RevokedTargetRemoved ==
  \A r, d \in Rows :
    r.schema_hash = Revocation /\ r.payload # Malformed /\ r.publisher = d.publisher
      => r.payload.target_id # d.id
=============================================================================
