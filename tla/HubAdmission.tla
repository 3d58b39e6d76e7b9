---------------------------- MODULE HubAdmission ----------------------------
(***************************************************************************)
(* What gets into the storage of a hub, and what stays there of the hub's  *)
(* own.  A STORE of an outside publisher passes the hook (rate limit,      *)
(* tenant lookup, policy); so does the hub's own advertisement, which a    *)
(* task refreshes.  Seed descriptors, the STOREs of peer hubs and what     *)
(* bootstrap fetches go past the hook.                                     *)
(*                                                                         *)
(* The DHT mutex is held from the first step of a STORE to its last; the   *)
(* tenant database has a mutex of its own, so operators work in between.   *)
(* The PeerManager mutex may be held by a round of another task whenever   *)
(* it is asked for (HubGossip has the rounds).  A tick of the clock is     *)
(* long against a STORE.  The hub's own slots are modelled version by      *)
(* version; of a descriptor of somebody else, only that the storage holds  *)
(* one (HubStorage has the rest).                                          *)
(***************************************************************************)
EXTENDS HubRateLimiter

CONSTANTS
  Tenants,
  Hub,            \* the hub's own identity
  Blocked,        \* blocked_identities
  StoreModes,     \* the store modes a configuration may choose from
  SeedTypes,      \* types of the entries of the seed file, one entry per type
  Ad,             \* the slot of the advertisement
  Vacant,         \* nothing is stored in a slot
  NoRequest,      \* the DHT mutex is free
  PERIOD,         \* between refreshes of the advertisement
  SEED_INTERVAL,  \* between two seedings
  LATENESS,       \* bound on how late a timer fires
  TTL,            \* of the hub's descriptors
  MaxTime,        \* bound on the clock
  MaxStarts       \* bound on the starts of the hub

Own == SeedTypes \cup {Ad}

Version == [sequence : Nat, timestamp : Nat]

ASSUME NamesAssumption ==
  /\ Hub \in Identities /\ Blocked \subseteq Identities \ {Hub}
  /\ StoreModes \subseteq {"Open", "TenantOnly", "Allowlist"}
  /\ Ad \notin SeedTypes
  /\ Vacant \notin Version

\* The two periods are half the ttl; a timer is late by less than a period.
ASSUME TimesAssumption ==
  /\ PERIOD \in Nat /\ SEED_INTERVAL \in Nat /\ LATENESS \in Nat /\ TTL \in Nat
  /\ PERIOD + LATENESS < TTL /\ SEED_INTERVAL + LATENESS < TTL
  /\ WINDOW < PERIOD
  /\ MaxTime \in Nat /\ MaxStarts \in Nat

VARIABLES
  existing, registered,   \* the tenant registry
  store_mode,   \* of the configuration
  phase,        \* of the hub
  starts,       \* how often it may still be started
  request,      \* the STORE under the DHT mutex, or NoRequest
  own,          \* the hub's own slots in its storage
  copies,       \* the same slots in the storage of a peer
  foreign,      \* outside publishers the storage has a descriptor of
  ad_due,       \* when the refresh task wakes up
  seed_due,     \* when the seeder wakes up
  missed        \* history: own slots whose last scheduled version did not get
                \* in, or was displaced by an older one

limiter == <<identity_windows, passed>>
registry == <<existing, registered>>
config == <<store_mode>>
timers == <<ad_due, seed_due>>
storage == <<own, foreign, missed>>
process == <<phase, starts>>

vars == <<now, limiter, registry, config, process, request, storage, copies, timers>>

R == INSTANCE TenantRegistry

\* A STORE under way.  `seen` is history: whether its publisher was registered,
\* at any time since it arrived.
Request ==
  [publisher : Identities, version : Version, blocked : BOOLEAN,
   lookup : {"due", "tenant", "stranger"}, seen : SUBSET BOOLEAN]

ASSUME RequestAssumption == NoRequest \notin Request

\* The hub's windows, storage, timers and STORE under way keep their type.
TypeOK ==
  /\ now \in 0..MaxTime
  /\ identity_windows \in Windows /\ passed \in Windows
  /\ existing \subseteq Tenants /\ registered \subseteq Tenants \X Identities
  /\ store_mode \in StoreModes
  /\ phase \in {"down", "starting", "boot", "serving"}
  /\ starts \in 0..MaxStarts
  /\ request \in Request \cup {NoRequest}
  /\ own \in [Own -> Version \cup {Vacant}]
  /\ copies \in [Own -> Version \cup {Vacant}]
  /\ foreign \subseteq Identities
  /\ ad_due \in Nat /\ seed_due \in Nat
  /\ missed \subseteq Own

Init ==
  /\ now = 0
  /\ identity_windows = NoWindows /\ passed = NoWindows
  /\ R!Init
  /\ store_mode \in StoreModes
  /\ phase = "down" /\ starts = MaxStarts
  /\ request = NoRequest
  /\ own = [o \in Own |-> Vacant]
  /\ copies = [o \in Own |-> Vacant]
  /\ foreign = {}
  /\ ad_due = 0 /\ seed_due = 0
  /\ missed = {}

-----------------------------------------------------------------------------

Running == phase \in {"boot", "serving"}

\* The DHT mutex can be taken.
Free == phase # "down" /\ request = NoRequest

Live(v) == v # Vacant /\ v.timestamp + TTL > now

IsTenant(p) == \E t \in Tenants : <<t, p>> \in registered

\* Mutation: an equal sequence is refused too.
Stale_OrEqual(v, current) == current # Vacant /\ v.sequence <= current.sequence

Stale(v, current) == current # Vacant /\ v.sequence < current.sequence

\* Descriptor::create, of what the storage compares.
Created(sequence) == [sequence |-> sequence, timestamp |-> now]

\* The advertisement takes its sequence from the clock; a seed and what a
\* client publishes have always 1.
AdVersion == Created(now)

SeedVersion == Created(1)

ClientVersion == Created(1)

-----------------------------------------------------------------------------
(* handle_store with the hook.                                              *)

Received(p, v, blocked) ==
  request' = [publisher |-> p, version |-> v, blocked |-> blocked,
              lookup |-> "due", seen |-> {IsTenant(p)}]

\* A client creates a descriptor and sends its STORE, which waits for the
\* pre-check and then for the DHT mutex.  Whether a routing key of it is blocked
\* is left open.
Publish(p) ==
  /\ phase = "serving" /\ Free
  /\ p # Hub
  /\ \/ /\ CheckPasses(p)
        /\ \E blocked \in BOOLEAN : Received(p, ClientVersion, blocked \/ p \in Blocked)
     \/ CheckRefuses(p) /\ UNCHANGED request
  /\ UNCHANGED <<now, registry, config, process, storage, copies, timers>>

\* A failing query counts as "not a tenant".
LookupTenant ==
  /\ request # NoRequest /\ request.lookup = "due"
  /\ \E found \in {IsTenant(request.publisher), FALSE} :
       request' = [request EXCEPT !.lookup = IF found THEN "tenant" ELSE "stranger"]
  /\ UNCHANGED <<now, limiter, registry, config, process, storage, copies, timers>>

\* Mutation: one of the two restricted modes is not looked at.
Restricted_TenantOnly == store_mode = "TenantOnly"

Restricted == store_mode \in {"TenantOnly", "Allowlist"}

check_store(r) == ~(Restricted /\ r.lookup = "stranger") /\ ~r.blocked

\* The hub's own STORE: the storage takes it unless it holds a newer one.
AdStored(v) ==
  /\ IF Stale(v, own[Ad])
     THEN UNCHANGED <<own, missed>>
     ELSE own' = [own EXCEPT ![Ad] = v] /\ missed' = missed \ {Ad}
  /\ UNCHANGED foreign

ForeignStored(p) ==
  /\ foreign' = foreign \cup {p}
  /\ UNCHANGED <<own, missed>>

\* The hook lets the STORE pass, and the storage has no other objection.
StoreAccepted ==
  /\ check_store(request)
  /\ IF request.publisher = Hub
     THEN AdStored(request.version)
     ELSE ForeignStored(request.publisher)

\* The policy refuses it, or the storage has an error or, of a descriptor of
\* somebody else, any other reason.  Nobody looks at the answer to the hub's
\* own STORE.
StoreRejected ==
  /\ missed' = IF request.publisher = Hub THEN missed \cup {Ad} ELSE missed
  /\ UNCHANGED <<own, foreign>>

FinishStore ==
  /\ request # NoRequest /\ request.lookup # "due"
  /\ request' = NoRequest
  /\ StoreAccepted \/ StoreRejected
  /\ UNCHANGED <<now, limiter, registry, config, process, copies, timers>>

-----------------------------------------------------------------------------
(* The hub's own descriptors.                                               *)

NextRefresh == now + PERIOD

\* publish_self_advertisement, at the start and whenever the timer fires.
PublishAd ==
  /\ Free
  /\ phase = "starting" \/ (Running /\ now >= ad_due)
  /\ ad_due' = NextRefresh
  /\ phase' = IF phase = "starting" THEN "boot" ELSE phase
  /\ \/ CheckPasses(Hub) /\ Received(Hub, AdVersion, FALSE)
     \/ CheckRefuses(Hub) /\ UNCHANGED request
  /\ UNCHANGED <<now, registry, config, starts, storage, copies, seed_due>>

\* try_lock fails: some round, a handler or the bootstrap holds the mutex.
SkipAd ==
  /\ Running /\ now >= ad_due
  /\ ad_due' = NextRefresh
  /\ missed' = missed \cup {Ad}
  /\ UNCHANGED <<now, limiter, registry, config, process, request, own, foreign,
                 copies, seed_due>>

\* seed_now, with the storage failing on some entries.
seed_now ==
  /\ \E failed \in SUBSET SeedTypes :
       LET stored == {o \in SeedTypes \ failed : ~Stale(SeedVersion, own[o])} IN
       /\ own' = [o \in Own |-> IF o \in stored THEN SeedVersion ELSE own[o]]
       /\ missed' = (missed \cup failed) \ stored
  /\ seed_due' = now + SEED_INTERVAL
  /\ UNCHANGED foreign

\* The seed peers are done: the hub seeds itself and listens.
FinishBoot ==
  /\ phase = "boot" /\ Free
  /\ phase' = "serving"
  /\ seed_now
  /\ UNCHANGED <<now, limiter, registry, config, starts, request, copies, ad_due>>

Reseed ==
  /\ phase = "serving" /\ Free
  /\ now >= seed_due
  /\ seed_now
  /\ UNCHANGED <<now, limiter, registry, config, process, request, copies, ad_due>>

\* A peer gets the hub's descriptors by gossip.
GossipOut ==
  /\ phase = "serving"
  /\ copies' = [o \in Own |-> IF Live(own[o]) /\ ~Stale(own[o], copies[o])
                              THEN own[o] ELSE copies[o]]
  /\ UNCHANGED <<now, limiter, registry, config, process, request, storage, timers>>

\* A copy of one of the hub's own descriptors comes back, past the hook: in the
\* STORE of a peer hub, or, of the advertisement, from a seed peer.
GossipIn(o) ==
  /\ Running /\ Free
  /\ phase = "boot" => o = Ad
  /\ Live(copies[o])
  /\ ~Stale(copies[o], own[o])
  /\ own' = [own EXCEPT ![o] = copies[o]]
  /\ missed' = IF own[o] # Vacant /\ copies[o].timestamp < own[o].timestamp
               THEN missed \cup {o} ELSE missed
  /\ UNCHANGED <<now, limiter, registry, config, process, request, foreign, copies, timers>>

\* A descriptor of somebody else comes the same way.
RelayIn(p) ==
  /\ Running /\ Free
  /\ p # Hub
  /\ foreign' = foreign \cup {p}
  /\ UNCHANGED <<now, limiter, registry, config, process, request, own, missed, copies,
                 timers>>

-----------------------------------------------------------------------------
(* Other tasks, operators, and the life of the process.                     *)

\* The expiry task; when descriptors of others expire is not modelled.
Evict ==
  /\ Free
  /\ own' = [o \in Own |-> IF Live(own[o]) THEN own[o] ELSE Vacant]
  /\ \E expired \in SUBSET foreign : foreign' = foreign \ expired
  /\ UNCHANGED <<now, limiter, registry, config, process, request, missed, copies, timers>>

CleanupTask ==
  /\ phase # "down"
  /\ cleanup
  /\ UNCHANGED <<now, registry, config, process, request, storage, copies, timers>>

AdminRequest ==
  /\ phase # "down"
  /\ R!Next
  /\ request' = IF request = NoRequest THEN request
                ELSE LET p == request.publisher IN
                     [request EXCEPT !.seen = @ \cup {\E t \in Tenants : <<t, p>> \in registered'}]
  /\ UNCHANGED <<now, limiter, config, process, storage, copies, timers>>

Start ==
  /\ phase = "down" /\ starts > 0
  /\ starts' = starts - 1
  /\ phase' = "starting"
  /\ UNCHANGED <<now, limiter, registry, config, request, storage, copies, timers>>

\* The storage and the registry are on disk; windows and timers are not.
Stop ==
  /\ phase # "down"
  /\ phase' = "down"
  /\ request' = NoRequest
  /\ identity_windows' = NoWindows /\ passed' = NoWindows
  /\ ad_due' = 0 /\ seed_due' = 0
  /\ UNCHANGED <<now, registry, config, starts, storage, copies>>

\* A timer that is due fires in time.
InTime ==
  /\ Running => now < ad_due + LATENESS
  /\ phase = "serving" => now < seed_due + LATENESS

Tick ==
  /\ now < MaxTime
  /\ request = NoRequest
  /\ InTime
  /\ now' = now + 1
  /\ Forget
  /\ UNCHANGED <<identity_windows, registry, config, process, request, storage, copies,
                 timers>>

Next ==
  \/ \E p \in Identities : Publish(p)
  \/ LookupTenant
  \/ FinishStore
  \/ PublishAd
  \/ SkipAd
  \/ FinishBoot
  \/ Reseed
  \/ GossipOut
  \/ \E o \in Own : GossipIn(o)
  \/ \E p \in Identities : RelayIn(p)
  \/ Evict
  \/ CleanupTask
  \/ AdminRequest
  \/ Start
  \/ Stop
  \/ Tick

Spec == Init /\ [][Next]_vars

-----------------------------------------------------------------------------
(* Safety.                                                                  *)

\* While a STORE goes through the hook of a hub in a restricted mode, the storage
\* takes no descriptor but that of the STORE, and only of somebody who was a
\* registered tenant identity at some time since it arrived, although operators
\* change the registry between the lookup and the store and peers write past
\* the hook.
AdmittedWereTenants ==
  [][request # NoRequest /\ store_mode # "Open" =>
       \A p \in foreign' \ foreign :
         p = request.publisher /\ TRUE \in request.seen]_vars

\* While the hub serves, its advertisement and each of its seeds are live,
\* unless its last refresh was skipped, was refused by policy or failed, or a
\* peer has put back an older copy: late timers, eviction, restarts and the
\* hub's own rate limit do not make them lapse.
OwnDescriptorsLive ==
  phase = "serving" => \A o \in Own \ missed : Live(own[o])
=============================================================================
