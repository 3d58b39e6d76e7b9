# A TLA+ model of the mesh protocol's stores, DHT nodes, peering and gossip

This project models the parts of the repository whose correctness depends on
the order in which things happen: the two descriptor stores, the peers map of a
hub, the gossip between hubs, the DHT nodes with their routing tables, the
tenant database behind the admin API, and what a hub admits to its storage and
keeps alive there. Each part is a module of actions translated from the Rust
source, checked by TLC on small instances; the main safety properties are
proved with TLAPS for every value of the constants.
`PROJECT.json` maps definitions to source lines.

## 1. The system

A *descriptor* is a signed record that a publisher stores under one to eight
routing keys. It competes with others for its slot, (publisher, schema_hash,
topic), by sequence number, and lives for a ttl. Nodes and hubs keep
descriptors and answer queries by routing key; hubs find each other through
advertisements, which are descriptors too, and gossip what they store.

| component | state | operations | what makes it correct |
|---|---|---|---|
| descriptor (`mesh-core/src/descriptor.rs`) | none | `validate` | stateless checks 1-7 of PROTOCOL.md 2.2 |
| descriptor store (`mesh-dht/src/storage.rs`) | contents by routing key, watermarks, revoked ids, rotations, rate windows | `store_descriptor_at` (with revocations and rotations), `get_descriptors_at`, `evict_expired_at` | one version per slot under all its keys, watermarks that never fall, revocations that hold, superseded rotations that stay out, nobody touches another publisher's slot |
| hub storage (`mesh-hub/src/storage/`) | four redb tables, a cache, rate windows | store, query, evict, restart | tables that agree after every path, answers that miss nothing, a cache that does not stay wrong |
| peer manager (`mesh-hub/src/peering.rs`, `lib.rs`) | peers map: connection, status, failure counter | bootstrap, discovery, connect, gossip, health check, registration of incoming hubs | no connection stranded or replaced, a dead one found out; a reachable hub is connected again |
| gossip (`peering.rs`, `lib.rs`) | catalogs, the PeerManager mutex, calls in flight | rounds of STOREs and PINGs, request handlers | versions never regress, rounds end, what fits a batch reaches the peers |
| routing table (`mesh-dht/src/routing.rs`, `distance.rs`) | 256 k-buckets | add, closest, all (challenge and remove without a caller) | bounded buckets without duplicates, no serving node displaced, nearest nodes found |
| DHT node (`mesh-dht/src/node.rs`, `mesh-client/src/lib.rs`) | routing table and store | PING, STORE, FIND_NODE, FIND_VALUE, lookup, iterative store, bootstrap; publish and discover of the client | lookups end, and come back empty only when nobody known can answer; a reported success has a holder |
| hub admission (`rate_limit.rs`, `policy.rs`, `hooks.rs`) | a sliding window per identity, the store mode | the hook before a STORE: rate limit, tenant lookup, policy; cleanup | what counts in a window is what passed within it; a restricted hub takes through the hook only what tenants publish |
| tenants (`tenant.rs`, `auth.rs`, `admin.rs`) | three SQLite tables | create, delete, register, remove, quotas, challenge, verify, MU deduction | a challenge registers once, no identity without its tenant, a balance is never negative, wherever a statement fails |
| the hub's own descriptors (`peering.rs`, `seeding.rs`, `lib.rs`) | own slots in the storage, two timers | publish the advertisement, skip it, seed | advertisement and seeds stay live between refreshes that are made |
| transport (`mesh-transport`) | QUIC connections | one request, one answer, keep-alive, no request timeout | external protocol |
| wire formats, identities, hashes (`mesh-core`) | none | encode, decode, sign | pure functions over bytes |
| command lines, gateway, seed list (`network.rs`), configuration, metrics, SDKs, bridges | none of interest | one request at a time | |

How they interact. A hub's connection handler (`lib.rs`) first asks the
PeerManager, under its tokio mutex, whether the sender is a peer or an
advertised hub; then it takes the DHT mutex and calls the DHT node, which
updates the routing table and calls the store. Background tasks of a hub:
expiry (every 60 s), discovery, gossip, health checks, refresh of its own
advertisement. Gossip and health checks hold the PeerManager mutex across their
network calls; discovery releases it between its decision and its connect. All
storage operations of a hub run under the DHT mutex, which includes the
`skip_rate_limit` flag that a gossip STORE sets and resets.

A STORE of anybody but a peer hub passes the hook of `handle_store`, under the
DHT mutex: the rate limiter counts it for its publisher, the tenant database,
behind a mutex of its own that the admin API uses too, says whether the
publisher is a tenant identity, and the policy decides. The hub's own
advertisement is such a STORE; its refresh task gives up for a whole period
when it finds the PeerManager mutex held. The seeder writes to the storage
directly. What peers send back of the hub's own descriptors goes past the hook.

A DHT node that listens answers requests once its bootstrap is over; each
request also puts its sender into the routing table. A client makes one request
at a time: bootstrap through its seeds, then a lookup in rounds over the nodes
it knows and hears of, or a STORE to the nodes nearest to each routing key,
each with a last resort of one direct request to a target.

Hard behaviours: a version that moves between routing keys; control descriptors
that arrive before what they speak of, or fail half-way; a cache behind which
tables change; transactions that fail and processes that restart; decisions
taken under one lock hold and used under another; several tasks on one failure
counter; mutexes held across calls between hubs; snapshots that arrive late; requests
that are handled and whose answer is lost; tables that fill up while nodes
leave; database statements that fail after others have succeeded; timers that
fire late or are skipped while what they refresh grows old.
`PROJECT.json` lists them as hazards, with the line where each one bites.

## 2. Modules

| module | models | notes |
|---|---|---|
| `Descriptors` | `Descriptor`, `validate`, `DedupKey`, expiry | a record with the fields the stores tell apart; `authentic` stands for id and signature, `oversize` for the length checks, a control payload is its parsed map or `Malformed` |
| `StoreRateLimiter` | the sliding window both stores use | the vector of instants is a multiset |
| `DescriptorSlots` | nothing: what a store promises | a request touches only slots of its publisher, never replaces a newer version; eviction empties expired slots only |
| `DescriptorStore` | `DescriptorStore` of mesh-dht | each way through `store_descriptor_at` is an action, its Result is in `status` |
| `HubStorage` | `CachedStorage` over `RedbStorage` | four tables, cache, aborted transactions, failing reads, restarts; `suspect` is a history variable |
| `PeerManager` | the peers map of one hub | other hubs go up and down, advertisements come and go; `call` is a task that holds the mutex and waits for a peer that is up |
| `HubGossip` | gossip and health rounds of several hubs, and their handlers | the mutex of each hub, calls in flight, calls that fail while their handler runs on |
| `RoutingTable` | k-buckets, XOR distance, `add_node`, `closest_nodes` | operators; an id is a function from bit positions to bits, a table one from bucket indexes to sequences |
| `DhtNode` | bootstrap, handlers, `lookup_value`, `iterative_store`, `publish` and `discover_from` | `table` and `held` are the nodes' state, `job` is where each node stands in its operation (the locals of the async function), `up` and `failures` belong to the network; a lookup's history is in `holders` and `unanswered` |
| `TenantRegistry` | nothing: what the tenant database promises | which tenants exist and which identities are theirs |
| `Tenants` | `TenantManager` and the handlers of the admin API that write | one action per handler; the statements a failure leaves done are a choice inside the action; `uses` is history |
| `HubRateLimiter` | `check_identity`, `cleanup` | a deque of instants is a set of numbered instants; `passed` is history |
| `HubAdmission` | the hook, the policy, the hub's advertisement and seeds, its start and stop | a STORE takes three steps, `request` is the one that holds the DHT mutex; `own` are the hub's slots, `copies` the same slots at a peer; `seen` and `missed` are history |
| `MC*` | | the small instances for TLC |
| `*Proofs` | | theorems and lemmas |

`DescriptorStore` and `HubStorage` extend `StoreRateLimiter`, which extends
`Descriptors`, and each instantiates `DescriptorSlots` with a refinement
mapping. `HubGossip` composes several hubs: its `catalog` is the table of
`HubStorage` seen as a set with one descriptor per slot, its `Merge` the effect
of `store_descriptor_at` on it. `DhtNode` extends `RoutingTable` and composes
servers and clients; its `held` is `DescriptorStore` seen as one bit per node.
`Tenants` instantiates `TenantRegistry` with a refinement mapping;
`HubAdmission` extends `HubRateLimiter` and composes it with `TenantRegistry`
(whose `Next` is what operators and tenants do meanwhile), with the storage and
with the hub's timers. It uses of the database no more than what `Tenants` is
shown to implement.

### Abstractions

- Time is a small counter; one unit stands for any number of microseconds. The
  clock of the stores does not go back.
- Ids are collision-free and signatures are not forged
  (`ContentHashAssumption`).
- Maps are total functions with a value for "no entry" (`NoSequence`, `Absent`,
  `NotCached`, `Unknown`). The order of a vector of descriptors is not kept; a
  descriptor stored twice under one key is one element.
- Query filters narrow an answer and are left out.
- redb's write transactions are atomic (external). The code ignores errors of
  single table operations inside the eviction's transaction (`let _ =`); the
  model takes the operations of a committed transaction to have succeeded.
- `PeerManager`: a hub has one address and one advertisement. The failure
  counter stops at `DISCONNECT_THRESHOLD`; the code compares with `>=` only.
  `connect_to_peer` does not compare the identity it reaches with the one
  expected, and neither does the model. What a round writes becomes visible
  when it gives the mutex back, so a round is one step, its last, before which
  it may wait (`CallWaits`) for a peer that is up. A peer that goes away ends
  the wait: the transport closes a connection that is idle for 30 s
  (`mesh-transport/src/endpoint.rs:24`). A connect is such a wait always.
- `HubGossip`: the horizon is shorter than any ttl, and hubs know each other as
  peers, so STOREs between them go past hooks and limits. A client's STORE
  needs the PeerManager mutex too, because the pre-check is made for every
  request with an authenticated identity, and one without is rejected.
- `DhtNode`: a call is handled and answered, not handled, or handled with its
  answer lost; at most `MaxFailures` calls to a node that serves fail, calls to
  one that has left or does not serve yet always do. The handler and the
  answer are one step: a node that awaits an answer holds itself, so nothing
  else of it can happen in between, and the order of handlers at the called
  node is the order of the steps. A server listens when its bootstrap is over
  (`mesh-node/src/main.rs:286-309`). There is one descriptor, under
  `routing_keys`, which no store drops within the horizon; a STORE is accepted
  or rejected at will, which stands for hooks, limits and validation. Query
  hooks are left out, and so is `last_seen`, which is never read. Each
  client performs `MaxOps` operations; at most `MaxDepartures` servers leave.
  `lookup_value` collects descriptors of all nodes of a batch; the model keeps
  only whether there is one.
- `Tenants`: a handler holds the mutex of `TenantManager` from its first
  statement to its last, so handlers do not interleave; a failing statement or
  a stop leaves the ones before it done, for no handler opens a transaction.
  That the foreign key of `tenant_identities` is enforced is external: rusqlite
  is built with its bundled SQLite, which turns foreign keys on. Fresh UUIDs are
  fresh. Whoever verifies a challenge holds the key of the identity.
- `HubAdmission`: a STORE is sent by the publisher of its descriptor or by a
  peer hub. The PeerManager mutex may be busy whenever the refresh asks for it
  (its rounds are in `HubGossip`). A timer fires at most `LATENESS` after it is
  due, and a STORE takes no time on this clock. Policy, storage errors and the
  storage's other reasons may reject any STORE. Routing-key blocks, and which
  descriptors of others expire, are left open. The slots of the hub are modelled
  version by version because their sequences are what refreshes depend on.

## 3. Runs

Bounds are the `CONSTANTS` of the cfg files; `MaxTime` bounds the clock,
`MaxBreaks` the calls that fail.

| run | question | instance |
|---|---|---|
| `store` | does the store keep one version per slot, its watermarks, rate windows, revocations and rotations, is a rejected STORE without effect, is `DescriptorSlots` implemented? | two publishers, two keys, three versions that move between the keys (two of equal sequence), a descriptor stamped in the future, own, foreign and broken revocations, rotations of one key with lower, equal and higher `rotation_seq` in three slots, one of them signed by somebody else, the highest the first to expire, one descriptor per check of `validate`; clock 0..3 |
| `hub_storage` | do the tables agree, do queries miss anything, does a wrong answer heal, is `DescriptorSlots` implemented? | three versions, a neighbour under a shared key, a forged descriptor, a revocation; failing reads, aborted transactions, restarts |
| `peers` | are connections stranded or replaced, is a dead one found out, is a reachable hub connected again? | two hubs that can both be reached, one of them a seed; `max_peers` 1, so that one keeps the other out; calls that nobody answers |
| `gossip` | do mutexes and calls fit together, do versions regress, do rounds end and does what fits a batch arrive? | a hub that holds a connection to another, two versions of a slot and a descriptor of another, which comes between them in the table; a batch of one; one call that fails |
| `tenants` | does a challenge register once, does a balance stay non-negative, is `TenantRegistry` implemented? | two tenants, two identities whose DIDs an operator may mix up, one challenge that may outlive its tenant or expire, a negative `mu_limit`, a balance that covers one of two deductions |
| `admission` | are the rate windows exact, does the hook of a restricted hub admit only tenants, do the hub's own descriptors stay live? | an allowlist hub with one seed, one client, one tenant, two starts, timers late by up to one tick; limit 1 per window 1, periods 2, ttl 4, clock 0..4 |
| `dht` | do requests, answers and bootstraps keep the tables well formed, does a publish that succeeds have a holder, is an empty lookup explained, does everything end? | two servers, a publisher and a seeker that know different seeds, ids of three bits, `K` 2 and `alpha` 2, two routing keys; one call that fails, one server that leaves |

The ttl values let a newer version expire before an older one, an expired
descriptor be cached and stored again, and a rate window empty itself within
the clock's bound; the thresholds let the failure counter cross both bands; a
failing call leaves its handler behind, which then meets the calls of later
rounds (within one round it would take a batch of two). More slots, keys or
hubs only repeat these cases: no action relates more than two descriptors, or
more than two hubs.

The instances are such that the exceptions of the liveness properties bind. In
`peers`, `ReachablePeerConnected` fails if either of its two exceptions is taken
out: with room for one peer, the other hub keeps it; and a peer that is up and
never answers keeps the mutex. Broken advertisements and blocked addresses,
which only take hubs away, are left to the theorems. In `gossip`, the batch is
smaller than the table, and `GossipDelivers` fails if it is stated for the whole
table.

In `admission` the constants keep the order the defaults have: the window (60 s)
is shorter than the period of the advertisement (1800 s), and the ttl (3600 s)
is twice that period, and twice the default seeding interval: more than one
late period. The clock's bound is one ttl, so a version that is not refreshed in
time has lapsed before the end, whether it was written by the first or by the
second life of the hub. The other two store modes differ by one comparison:
`TenantOnly` is refused and admitted like `Allowlist`, `Open` is not
restricted; the theorems are about all of them.

In `dht` the second server and both clients share a bucket of the first, so a
bucket overflows; tables have from no entry to more than `K`, so the fallback
of a lookup is both taken and passed over; the second routing key starts from
the table the first one enlarged. The published descriptor may reach a server
between the rounds of a lookup and its fallback, which is the case the
fallback's mutant misses.

Runs that show a difference between a document or comment and the code (each is
a finding in `PROJECT.json`, with the quote):

| run | what happens |
|---|---|
| `hub_replay` | eviction forgets the watermark, and an older version that still lives is stored again |
| `hub_revocation` | the hub's store keeps the target of a revocation |
| `peers_max` | seeds, incoming hubs and recovering peers exceed `max_peers` |
| `gossip_deadlock` | two hubs that gossip to each other wait for each other's mutex |
| `dht_address` | a seed that is bound to the wildcard address gives that as its own, and its FIND_NODE answer replaces the address at which bootstrap reached it |

Other differences, met while modelling and described by the models though no
run is spent on them: an equal sequence with another id replaces the stored
version (`mesh-dht/src/storage.rs:190`), which PROTOCOL.md:230 calls a
conflicting update to reject; a descriptor stamped ahead of the clock lives up to the
skew longer than its ttl, because `min(timestamp, now)` is taken again at each
clock reading (`mesh-dht/src/storage.rs:419`, PROTOCOL.md 2.2 step 4); a
revocation that comes before its target is recorded without a comparison of
publishers (`storage.rs:290`), so that somebody else's hides the target, which
PROTOCOL.md:686 rules out (`RevocationIsFinal` is about the target's own
publisher only, and no property wants the target hidden otherwise); a control
descriptor that does
not parse is answered with an error and stays stored (`storage.rs:218`; the
exception in `RejectionAddsOnlyUnparsed`); a cached list may hold expired
descriptors, and superseded ones whose successor has other routing keys, until
the expiry task clears the cache (`mesh-hub/src/storage/mod.rs:52`, the second
case of `CacheDriftExplained`). A full bucket drops every newcomer without a
PING of its least recently seen node, where PROTOCOL.md:485-489 has that node
evicted if it does not respond; so a bucket of departed nodes stays that way
(the TODO at `mesh-dht/src/node.rs:583`; proved as `FullBucketAdmitsNobody`).
`AnsweringServersStay` is the half of that rule which the code has: a node that
responds stays. Lookup candidates are merged without a look for duplicates
(`node.rs:353`), so the `K` that are kept may be fewer nodes, and one node may
be asked twice in a batch. The comment of `bucket_index` calls bucket 0 the
farthest and 255 the closest (`mesh-dht/src/distance.rs:44`); by its formula it
is the other way round. `resolve_challenge`, if it is called one day, pushes
the candidate without a look for it in the bucket (`routing.rs:161`).

Key rotations, PROTOCOL.md 7.1. Of two rotations of one key with the same
`rotation_seq` and different successors both are to be rejected and the key is
to be taken for compromised (761-763); the code keeps the first and marks
nothing (`storage.rs:361`). An equal `rotation_seq` with the same successor is
to be rejected (756-758); the code accepts it again. The rotation is to be
signed by the old key, and so are the two identities in it (751-754);
`process_key_rotation` compares neither the publisher nor any signature with
`old_identity`, so anybody's rotation is recorded. `SupersededRotationStaysOut`
claims what the text and the code have in common: once a rotation signed by the
old key is accepted, lower ones and forks of it stay out. It says nothing of
what is accepted on somebody else's word, and the run has such a rotation.

Gossip and peers. A round sends the first `MAX_GOSSIP_BATCH` descriptors in
table order and never those behind them (`mesh-hub/src/peering.rs:255`), while
the comment at 653-657 speaks of the full descriptor set and of hubs that
converge to one catalog; TLC finds the descriptor that never arrives as soon as
`GossipDelivers` is stated for the whole table. Every failed STORE of a round
is counted in `consecutive_failures` (`peering.rs:313`), which the comments
(30, 33, 68) and operator-guide.md:440 call consecutive health-check failures:
one failed PING after four failed STOREs disconnects a peer. That a peer is not
given up early is therefore no property here; that it is not kept for ever is
(`FailuresAddUp`). A request that is never answered holds the PeerManager mutex
of the hub that sent it for as long as the peer is up: `send_request` has no
timeout (`mesh-transport/src/connection.rs:137`) and the keep-alive of 10 s
(`endpoint.rs:29`) holds the connection. Discovery, gossip, health checks and
every request the hub receives wait meanwhile.

Of the hub itself: its advertisement goes through the hub's own hook, so a hub
in a restricted mode refuses it unless the hub is a tenant identity of itself;
the answer is dropped and success is logged (`peering.rs:463`,
operator-guide.md:434). One skipped refresh is enough for the advertisement to
lapse, since its ttl is two periods and timers are never early. Seeds always
have sequence 1, so an older copy that a peer sends back replaces the newer one
until the next seeding, and entries of one type share a slot, of which the last
wins (`seeding.rs:87-90`). The seeding interval is configurable and not compared
with the ttl: `TimesAssumption` is about the ones that fit. `missed` in `OwnDescriptorsLive` names these cases.
`delete_tenant` and `update_quotas` run their statements outside a transaction
(`tenant.rs:154`, `:258`), so a failure leaves a tenant without its identities
or with some of its quotas changed; and a challenge is spent when the
registration behind it fails (`admin.rs:490`). `deduct_mu` (`tenant.rs:211`)
has no caller but tests, although operator-guide.md:339 says that MU are
deducted per operation: the model has the action, a running hub does not take
it.

`gossip_deadlock` needs a word. A round holds its hub's PeerManager mutex while
it awaits each answer; the handler at the other hub awaits that hub's mutex,
which its own round may hold while it awaits an answer of the first.
`send_request` has no timeout, and the keep-alive of the connection prevents an
idle timeout, so nothing breaks the cycle. Every later request that either hub
receives waits too. The run's `MaxBreaks` is 0 for that reason; its cfg turns
TLC's own deadlock check off so that the temporal property is what fails.

### Fairness

- `HubStorage`: weak fairness of `evict_expired`, a loop around a 60 s
  interval. A permanent database error is excluded.
- `PeerManager`: no wait for a peer that is up is assumed to end, neither of
  bootstrap nor of a gossip round or a health check. Weak fairness of bootstrap
  while it does not wait, and of the end of a gossip round whose peer has gone
  away (the idle timeout). Strong fairness of health checks and of the steps of
  discovery, which are loops around a sleep: the mutex may be taken by others
  again and again, but tokio's mutex serves its waiters in order. A connect
  ends with the handshake or the idle timeout.
- `HubGossip`: weak fairness of each task's steps; strong fairness of taking
  the mutex and, per hub, of handling requests, since tokio's mutex is FIFO.
  Nothing is assumed of `CallFails`.
- `DhtNode`: a node with a job goes on with it: every call ends with an answer
  or an error of the transport. A handler of a node waits for nobody, and one
  that is gone is found out by the idle timeout; a server that keeps its
  connection and never answers is excluded, for nothing in the code would end
  the wait for it. Stated without ENABLED: infinitely often a node is not busy or
  its job changes, which is weak fairness of `Work`, for `Work` is enabled
  exactly while the node is busy. Starting an operation is not fair.

## 4. Proofs

| module | inductive invariant | why it is needed |
|---|---|---|
| `StoreRateLimiterProofs` | `RateInv`: what is recorded for a publisher is finite and within the limit | the window shown by `RateWindowBounded` is a subset of what is recorded; bounding that is inductive and bounding the window alone is not |
| `DescriptorStoreProofs` | types, `RateInv`, `OneVersionEverywhere`, `WatermarkMatchesStored`, authentic contents; `ControlsRecorded`: the maps remember every revocation and rotation that is held | a rejected control descriptor is removed by id: that this removes nothing else needs authentic contents, and that the previous version is gone needs one version per slot. What a revocation or rotation does after it is evicted rests on what the maps, which only grow, took from it before |
| `HubStorageProofs` | types, rates, `IndexesAgree`, authentic rows; for the cache, what a list may hold and must hold | the old version is found through the dedup index and its keys through its row, so all four tables are needed at once |
| `PeerManagerProofs` | types, the three safety invariants, and that discovery is quiet while bootstrap runs | a seed is registered without a look at its entry: before the tasks start there is nothing to replace |
| `HubGossipProofs` | types, rounds (a sleeping task has nothing left; a task's peer is linked), lock discipline, one call per round | an answer wakes the task that waits for it only because no other request names that task |
| `DhtNodeProofs` | types, well-formed tables, and `JobOK` of each job | a server of a small table that held the descriptor when the fallback began is still in the queue or has not answered (`Explained`), which the property says of the end only; a job that will report success has its holder already |
| `TenantsProofs` | types, the two keys of `tenant_identities`, and that an unconsumed challenge has registered nobody (`ConsumedFirst`) | `ChallengeUsedOnce` alone would allow a used challenge that can still be redeemed; removing an identity by its DID removes whole pairs only because a pair has one row |
| `HubAdmissionProofs` | types; exact and finite windows; who is registered is in `seen`; timers in time, own versions never ahead of the next one (`VersionsInv`), the hub's own STOREs a period apart (`HubWindowInv`), and the age of what is not missed (`AdInv`, `SeedsInv`) | that a version is live now says nothing of the next instant: it must be as young as the timer promises. That the refresh is let in needs the hub's window empty by then, and that it replaces what is stored needs no version from the future |

`DhtNodeProofs` first proves the operators of `RoutingTable`: `add_node` keeps
a table well formed; `ByDistance` is a permutation because its places are, an
injection of a finite set into itself; `closest_nodes` leaves out nothing nearer
than what it returns. `AddAll` and `FlattenSeq` are recursive functions: the
first index that fails, the least of a set of naturals (`LeastNatural`), stands
for the induction.

Proved for every value of the constants that satisfies the named assumptions,
of the properties the runs check: type correctness of the seven components; of
the in-memory store `OneVersionEverywhere`, `WatermarkMatchesStored`,
`RateWindowBounded`, `WatermarkNeverFalls`, `SupersededRotationStaysOut`,
`RevocationIsFinal`, `RejectionAddsOnlyUnparsed` and the refinement of
`DescriptorSlots`; of the hub's storage `IndexesAgree`, `AnswerMissesNothing`,
`CacheDriftExplained` and the refinement; of the peers map
`DiscoveryTargetUnconnected`, `DisconnectedIsReleased`, `UnhealthyBand` and
`FailuresAddUp`; of gossip `LockHeldByRound`, `OneCallPerRound` and
`VersionsNeverRegress`; of the DHT nodes `TablesWellFormed`, `AnsweringServersStay`,
`EmptyLookupExplained` and `PublishedIsHeld`; of the tenant database
`ChallengeUsedOnce` and the refinement of `TenantRegistry`; of the hub's
admission `WindowExact`, `AdmittedWereTenants` and `OwnDescriptorsLive`, from the
assumption that a ttl outlasts a late period and a window is shorter than a
period (`TimesAssumption`).

Some theorems say more than the runs ask; their statements are defined in the
proof modules.

- **Expiry.** `expires_at` takes the smaller of the timestamp and the clock, so
  it seems to depend on when it is asked. For every ttl that `validate` accepts
  it does not (`ExpiryInstant`): a descriptor is answered until timestamp + ttl
  exactly, whenever it is evicted (`LifetimeBounded`, of both stores), and that
  is at most `MAX_CLOCK_SKEW + MAX_TTL` away. It needs that what is stored was
  valid once and that time takes none of the limits away (`StoredValid`,
  `RowsValid`).
- **The cache.** `DriftCauses` lists the only steps by which an answer comes to
  differ from the tables (an expiry, a failed read, a commit that moves a slot
  away), and shows that no eviction, restart or commit under the key leaves it
  so.
- **Gossip and the mutexes.** A round that does not go on waits for a linked
  peer in a round of its own (`RoundsWaitOnlyForPeers`). So where connections
  have no cycle, given as a depth that every link lowers, the least deep
  waiting hub contradicts itself and some hub goes on
  (`NoDeadlockWithoutCycle`); the run `gossip_deadlock` shows what two hubs
  connected to each other do. `RoundsShrink` counts the steps a round has left
  and shows that each takes one off (`Hubs` and `Descriptors` finite, as any
  network's are; `BatchesBounded` needs the same of `Descriptors`).
- **Replication.** A hub holds what some client published and nothing else
  (`ReplicationInventsNothing`), and one version of a slot (`OneVersionPerHub`),
  the newest published version is never lost everywhere (`NewestStays`), and
  the catalog of each hub implements `DescriptorSlots` under clients and gossip
  together (`EveryHubImplementsSlots`). The model has no
  clock, its horizon being shorter than any ttl, so its descriptors are ones
  that `validate` accepts (`ValidAssumption`).
- **Jobs.** `JobsMoveOn` gives the order in which a bootstrap, lookup or publish
  comes to its end: a call off the queue, a later phase, a routing key less, or
  a round of at most `alpha` entries of nodes that no earlier round asked. That
  `Without` leaves out what it should is `FlattenTyping` at the set of entries
  of other nodes.
- **Full buckets.** A bucket with `K` entries keeps its nodes for ever
  (`FullBucketAdmitsNobody`): it loses none, and has no room.
- **The hub's own STORE** is never refused by its own rate limit
  (`OwnRefreshIsNotLimited`), at late timers and restarts too; the registry that
  the hook reads moves only as `TenantRegistry` allows (`HubUsesRegistry`).

Only model-checked: the liveness properties `AnswerHeals`,
`ReachablePeerConnected`, `GossipDelivers`, `RoundsEnd` and `JobsEnd` (liveness
under fairness is out of the proof system's reach), and every violation. What
the steps must do for them is proved where it can be said of a step:
`DriftCauses`, `DeadConnectionFoundOut`, `RoundsShrink` with
`NoDeadlockWithoutCycle`, and `JobsMoveOn`; the arguments from fairness, and that
their orders are well founded, stay with TLC.

## 5. Not modelled

- The windows per IP, the quota checks and the MU budget (`rate_limit.rs`,
  `policy.rs`): only their unit tests call them. The setters of the metrics
  likewise.
- `resolve_challenge` and `remove_node` of the routing table: no caller.
- When a lookup without failures finds a holder although the table has more
  than `K` entries: it depends on which nodes know which, and the code promises
  nothing about it. The model has the lookup, and a bound on what an empty one
  means (`EmptyLookupExplained`).
- Handlers of the admin API that only read, health and metrics endpoints.
- The fetch of the signed seed list (`network.rs`): it adds addresses to the
  seeds before bootstrap, which `PeerManager` takes as given.
- Query filters and cursors, the HTTP gateway's translation of requests, command
  lines, configuration and its defaults: pure functions of one request.
- Wire formats and cryptography (`mesh-core`): pure functions over bytes.
- QUIC and TLS (`mesh-transport`): external protocols; only that a request is
  answered or fails, and has no timeout of its own, is used.
- Schemas, SDKs, bridges, tools and deployment files: constants, clients in
  other languages and scripts.
