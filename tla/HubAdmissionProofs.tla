------------------------- MODULE HubAdmissionProofs -------------------------
(***************************************************************************)
(* Proofs about HubAdmission, for any identities, tenants, store modes,    *)
(* limits and periods: the sliding windows are exact, only tenants get     *)
(* past the hook of a restricted hub, and the hub's own descriptors stay   *)
(* live between refreshes.                                                 *)
(***************************************************************************)
EXTENDS HubAdmission, FiniteSetTheorems, TLAPS

-----------------------------------------------------------------------------
(* The inductive invariant.                                                 *)

\* What passed can be counted, and is what the windows hold.
LimiterInv ==
  /\ \A p \in Identities : IsFiniteSet(passed[p])
  /\ WindowExact

\* Who was found was registered, and who is registered was; between two lives nothing is under way.
RequestInv ==
  /\ request # NoRequest /\ (request.lookup = "tenant" \/ IsTenant(request.publisher))
       => TRUE \in request.seen
  /\ phase = "down" => request = NoRequest

\* Timers fire in time.
TimersInv ==
  /\ Running => now <= ad_due + LATENESS
  /\ phase = "serving" => now <= seed_due + LATENESS

\* The hub's own STOREs are a period apart, so that none is refused.
HubWindowInv ==
  /\ ~Running => passed[Hub] = {}
  /\ \A e \in passed[Hub] : e[1] + PERIOD <= ad_due

\* No version of an own slot is ahead of the one its publisher makes next.
NotAhead(o, v) == v # Vacant => v.sequence <= IF o = Ad THEN now ELSE 1

VersionsInv == \A o \in Own : NotAhead(o, own[o]) /\ NotAhead(o, copies[o])

AdPending == request # NoRequest /\ request.publisher = Hub

\* An advertisement under way was made now.
PendingInv ==
  AdPending => request.version = AdVersion /\ ad_due = now + PERIOD

\* Unless it was missed, the version of the last refresh is stored, or it is
\* under way and the one before it is live.
AdInv ==
  Running /\ Ad \notin missed =>
    \/ own[Ad] # Vacant /\ own[Ad].timestamp + PERIOD >= ad_due
    \/ AdPending /\ (phase = "serving" => Live(own[Ad]))

SeedsInv ==
  phase = "serving" =>
    \A o \in SeedTypes \ missed :
      own[o] # Vacant /\ own[o].timestamp + SEED_INTERVAL >= seed_due

OwnInv == TimersInv /\ HubWindowInv /\ VersionsInv /\ PendingInv /\ AdInv /\ SeedsInv

Inv == TypeOK /\ LimiterInv /\ RequestInv /\ OwnInv

-----------------------------------------------------------------------------
(* The rate limiter.                                                        *)

\* A STORE that passes is counted once, in the window and in the history.
LEMMA PassesExact ==
  ASSUME TypeOK, LimiterInv, NEW p \in Identities, CheckPasses(p), UNCHANGED now
  PROVE  /\ LimiterInv'
         /\ identity_windows' \in Windows /\ passed' \in Windows
         /\ \E n \in Nat : passed' = [passed EXCEPT ![p] = @ \cup {<<now, n>>}]
<1> DEFINE n == Cardinality({e \in passed[p] : e[1] = now})
<1>1. /\ now \in Nat /\ WINDOW \in Nat /\ STORE_LIMIT \in Nat
      /\ passed \in Windows /\ identity_windows \in Windows
  BY RateLimitConfig, TimesAssumption DEF TypeOK
<1>2. n \in Nat
  <2>1. IsFiniteSet({e \in passed[p] : e[1] = now})
    BY FS_Subset DEF LimiterInv
  <2> QED BY <2>1, FS_CardinalityType
<1>3. Younger(identity_windows[p], WINDOW) = passed[p]
  BY DEF LimiterInv, WindowExact
<1>4. Push(passed[p]) = passed[p] \cup {<<now, n>>}
  BY DEF Push
<1> HIDE DEF n
<1>5. /\ passed' = [passed EXCEPT ![p] = @ \cup {<<now, n>>}]
      /\ identity_windows' = [identity_windows EXCEPT ![p] = passed[p] \cup {<<now, n>>}]
  BY <1>3, <1>4 DEF CheckPasses
<1>6. passed' \in Windows /\ identity_windows' \in Windows
  BY <1>1, <1>2, <1>5 DEF Windows
<1>7. ASSUME NEW q \in Identities
      PROVE  /\ IsFiniteSet(passed'[q]) /\ Cardinality(passed'[q]) <= STORE_LIMIT
             /\ Younger(identity_windows[q], WINDOW)' = passed'[q]
  <2>1. CASE q = p
    <3>1. passed'[q] = passed[p] \cup {<<now, n>>} /\ identity_windows'[q] = passed'[q]
      BY <1>1, <1>5, <2>1 DEF Windows
    <3>2. IsFiniteSet(passed[p]) /\ Cardinality(passed[p]) < STORE_LIMIT
      BY <1>3 DEF LimiterInv, CheckPasses, WithinLimit
    <3>3. IsFiniteSet(passed'[q])
      BY <3>1, <3>2, FS_AddElement
    <3>4. Cardinality(passed[p]) \in Nat /\ Cardinality(passed'[q]) \in Nat
      BY <3>2, <3>3, FS_CardinalityType
    <3>5. Cardinality(passed'[q]) \in {Cardinality(passed[p]), Cardinality(passed[p]) + 1}
      BY <3>1, <3>2, FS_AddElement
    <3>6. \A e \in passed'[q] : now - e[1] <= WINDOW
      BY <1>1, <1>3, <3>1 DEF Younger
    <3> QED
      BY <1>1, <3>1, <3>2, <3>3, <3>4, <3>5, <3>6 DEF Younger
  <2>2. CASE q # p
    BY <1>1, <1>5, <2>2 DEF Windows, LimiterInv, WindowExact, Younger
  <2> QED BY <2>1, <2>2
<1> QED
  BY <1>2, <1>5, <1>6, <1>7 DEF LimiterInv, WindowExact

\* A refused STORE drops old entries and leaves no trace.
LEMMA RefusesExact ==
  ASSUME TypeOK, LimiterInv, NEW p \in Identities, CheckRefuses(p), UNCHANGED now
  PROVE  LimiterInv' /\ identity_windows' \in Windows /\ UNCHANGED passed
<1>1. /\ passed' = passed /\ identity_windows \in Windows
      /\ identity_windows' = [identity_windows EXCEPT ![p] = Younger(@, WINDOW)]
  BY DEF CheckRefuses, TypeOK
<1>2. identity_windows' \in Windows
  BY <1>1 DEF Windows, Younger
<1>3. ASSUME NEW q \in Identities
      PROVE  Younger(identity_windows[q], WINDOW)' = Younger(identity_windows[q], WINDOW)
  BY <1>1 DEF Windows, Younger
<1> QED
  BY <1>1, <1>2, <1>3 DEF LimiterInv, WindowExact

\* The cleanup task drops nothing that still counts.
LEMMA CleanupExact ==
  ASSUME TypeOK, LimiterInv, cleanup, UNCHANGED now
  PROVE  LimiterInv' /\ identity_windows' \in Windows /\ UNCHANGED passed
<1>1. /\ passed' = passed /\ identity_windows \in Windows /\ now \in Nat /\ WINDOW \in Nat
      /\ identity_windows' = [q \in Identities |-> Younger(identity_windows[q], 2 * WINDOW)]
  BY RateLimitConfig, TimesAssumption DEF cleanup, TypeOK
<1>2. identity_windows' \in Windows
  BY <1>1 DEF Windows, Younger
<1>3. ASSUME NEW q \in Identities
      PROVE  Younger(identity_windows[q], WINDOW)' = Younger(identity_windows[q], WINDOW)
  <2>1. \A e \in identity_windows[q] : e[1] \in Nat
    BY <1>1 DEF Windows
  <2> QED BY <1>1, <2>1 DEF Younger
<1> QED
  BY <1>1, <1>2, <1>3 DEF LimiterInv, WindowExact

\* With the clock, the same entries leave the window and the history.
LEMMA TickExact ==
  ASSUME TypeOK, LimiterInv, now' = now + 1, Forget, UNCHANGED identity_windows
  PROVE  LimiterInv' /\ passed' \in Windows
         /\ \A p \in Identities : passed'[p] \subseteq passed[p]
<1>1. /\ now \in Nat /\ WINDOW \in Nat /\ STORE_LIMIT \in Nat
      /\ passed \in Windows /\ identity_windows \in Windows
      /\ \A p \in Identities : passed'[p] = {e \in passed[p] : now' - e[1] <= WINDOW}
  BY RateLimitConfig, TimesAssumption DEF TypeOK, Forget
<1>2. passed' \in Windows
  BY <1>1 DEF Windows, Forget
<1>3. ASSUME NEW p \in Identities
      PROVE  /\ IsFiniteSet(passed'[p]) /\ Cardinality(passed'[p]) <= STORE_LIMIT
             /\ Younger(identity_windows[p], WINDOW)' = passed'[p]
  <2>1. IsFiniteSet(passed[p]) /\ Cardinality(passed[p]) <= STORE_LIMIT
    BY DEF LimiterInv, WindowExact
  <2>2. IsFiniteSet(passed'[p]) /\ Cardinality(passed'[p]) <= Cardinality(passed[p])
    BY <1>1, <2>1, FS_Subset
  <2>3. Cardinality(passed[p]) \in Nat /\ Cardinality(passed'[p]) \in Nat
    BY <2>1, <2>2, FS_CardinalityType
  <2>4. passed[p] = {e \in identity_windows[p] : now - e[1] <= WINDOW}
    BY DEF LimiterInv, WindowExact, Younger
  <2>5. \A e \in identity_windows[p] : e[1] \in Nat
    BY <1>1 DEF Windows
  <2>6. Younger(identity_windows[p], WINDOW)' = passed'[p]
    BY <1>1, <2>4, <2>5 DEF Younger
  <2> QED BY <1>1, <2>1, <2>2, <2>3, <2>6
<1> QED
  BY <1>1, <1>2, <1>3 DEF LimiterInv, WindowExact

\* A process begins with empty windows.
LEMMA EmptyExact ==
  ASSUME identity_windows = NoWindows, passed = NoWindows
  PROVE  LimiterInv /\ identity_windows \in Windows /\ passed \in Windows
<1>1. \A p \in Identities : identity_windows[p] = {} /\ passed[p] = {}
  BY DEF NoWindows
<1>2. IsFiniteSet({}) /\ Cardinality({}) = 0
  BY FS_EmptySet
<1> QED
  BY <1>1, <1>2, RateLimitConfig DEF LimiterInv, WindowExact, Windows, NoWindows, Younger

-----------------------------------------------------------------------------
(* Types.                                                                   *)

\* What a STORE looks like when it arrives.
LEMMA ReceivedTyping ==
  ASSUME NEW p \in Identities, NEW v \in Version, NEW blocked \in BOOLEAN,
         Received(p, v, blocked)
  PROVE  /\ request' \in Request
         /\ request'.publisher = p /\ request'.version = v /\ request'.lookup = "due"
<1>1. {IsTenant(p)} \in SUBSET BOOLEAN
  BY DEF IsTenant
<1> QED
  BY <1>1 DEF Received, Request

\* The versions the code makes.
LEMMA VersionTyping ==
  ASSUME TypeOK
  PROVE  AdVersion \in Version /\ SeedVersion \in Version /\ ClientVersion \in Version
BY TimesAssumption DEF TypeOK, AdVersion, SeedVersion, ClientVersion, Created, Version

LEMMA StepType == TypeOK /\ LimiterInv /\ [Next]_vars => TypeOK'
<1> SUFFICES ASSUME TypeOK, LimiterInv, [Next]_vars PROVE TypeOK'
  OBVIOUS
<1> USE TimesAssumption
<1>0. /\ now \in Nat /\ PERIOD \in Nat /\ SEED_INTERVAL \in Nat
      /\ now + PERIOD \in Nat /\ now + SEED_INTERVAL \in Nat
      /\ SeedTypes \subseteq Own /\ Ad \in Own
  BY DEF TypeOK, Own
<1>1. ASSUME NEW p \in Identities, Publish(p)
      PROVE  TypeOK'
  <2>1. CASE CheckPasses(p) /\ \E blocked \in BOOLEAN : Received(p, ClientVersion, blocked \/ p \in Blocked)
    <3>1. PICK blocked \in BOOLEAN : Received(p, ClientVersion, blocked \/ p \in Blocked)
      BY <2>1
    <3>2. (blocked \/ p \in Blocked) \in BOOLEAN
      OBVIOUS
    <3>3. request' \in Request
      BY <3>1, <3>2, ReceivedTyping, VersionTyping
    <3>4. identity_windows' \in Windows /\ passed' \in Windows
      BY <1>1, <2>1, PassesExact DEF Publish
    <3> QED
      BY <1>1, <3>3, <3>4 DEF Publish, TypeOK, registry, config, process, storage, timers
  <2>2. CASE CheckRefuses(p) /\ UNCHANGED request
    <3>1. identity_windows' \in Windows /\ UNCHANGED passed
      BY <1>1, <2>2, RefusesExact DEF Publish
    <3> QED
      BY <1>1, <2>2, <3>1 DEF Publish, TypeOK, registry, config, process, storage, timers
  <2> QED
    BY <1>1, <2>1, <2>2 DEF Publish
<1>2. ASSUME LookupTenant
      PROVE  TypeOK'
  <2>1. request \in Request
    BY <1>2 DEF LookupTenant, TypeOK
  <2>2. request' \in Request
    BY <1>2, <2>1 DEF LookupTenant, Request
  <2> QED
    BY <1>2, <2>2
       DEF LookupTenant, TypeOK, limiter, registry, config, process, storage, timers
<1>3. ASSUME FinishStore
      PROVE  TypeOK'
  <2>1. request \in Request
    BY <1>3 DEF FinishStore, TypeOK
  <2>2. own' \in [Own -> Version \cup {Vacant}] /\ foreign' \subseteq Identities
        /\ missed' \subseteq Own
    <3>1. CASE StoreAccepted
      BY <1>0, <2>1, <3>1 DEF StoreAccepted, AdStored, ForeignStored, Request, TypeOK
    <3>2. CASE StoreRejected
      BY <1>0, <3>2 DEF StoreRejected, TypeOK
    <3> QED
      BY <1>3, <3>1, <3>2 DEF FinishStore
  <2> QED
    BY <1>3, <2>2 DEF FinishStore, TypeOK, limiter, registry, config, process, timers
<1>4. ASSUME PublishAd
      PROVE  TypeOK'
  <2>1. ad_due' \in Nat /\ phase' \in {"starting", "boot", "serving"}
    BY <1>0, <1>4 DEF PublishAd, NextRefresh, TypeOK, Free
  <2>2. CASE CheckPasses(Hub) /\ Received(Hub, AdVersion, FALSE)
    <3>1. request' \in Request
      BY <2>2, ReceivedTyping, VersionTyping, NamesAssumption
    <3>2. identity_windows' \in Windows /\ passed' \in Windows
      BY <1>4, <2>2, PassesExact, NamesAssumption DEF PublishAd
    <3> QED
      BY <1>4, <2>1, <3>1, <3>2 DEF PublishAd, TypeOK, registry, config, storage
  <2>3. CASE CheckRefuses(Hub) /\ UNCHANGED request
    <3>1. identity_windows' \in Windows /\ UNCHANGED passed
      BY <1>4, <2>3, RefusesExact, NamesAssumption DEF PublishAd
    <3> QED
      BY <1>4, <2>1, <2>3, <3>1 DEF PublishAd, TypeOK, registry, config, storage
  <2> QED
    BY <1>4, <2>2, <2>3 DEF PublishAd
<1>5. ASSUME SkipAd
      PROVE  TypeOK'
  BY <1>0, <1>5
     DEF SkipAd, NextRefresh, TypeOK, limiter, registry, config, process
<1>6. ASSUME seed_now
      PROVE  /\ own' \in [Own -> Version \cup {Vacant}] /\ missed' \subseteq Own
             /\ seed_due' \in Nat /\ UNCHANGED foreign
  BY <1>0, <1>6, VersionTyping DEF seed_now, TypeOK
<1>7. ASSUME FinishBoot
      PROVE  TypeOK'
  <2>1. seed_now
    BY <1>7 DEF FinishBoot
  <2> QED
    BY <1>6, <1>7, <2>1 DEF FinishBoot, TypeOK, limiter, registry, config
<1>8. ASSUME Reseed
      PROVE  TypeOK'
  <2>1. seed_now
    BY <1>8 DEF Reseed
  <2> QED
    BY <1>6, <1>8, <2>1 DEF Reseed, TypeOK, limiter, registry, config, process
<1>9. ASSUME GossipOut
      PROVE  TypeOK'
  BY <1>9 DEF GossipOut, TypeOK, limiter, registry, config, process, storage, timers
<1>10. ASSUME NEW o \in Own, GossipIn(o)
       PROVE  TypeOK'
  BY <1>10 DEF GossipIn, TypeOK, limiter, registry, config, process, timers
<1>11. ASSUME NEW p \in Identities, RelayIn(p)
       PROVE  TypeOK'
  BY <1>11 DEF RelayIn, TypeOK, limiter, registry, config, process, timers
<1>12. ASSUME Evict
       PROVE  TypeOK'
  BY <1>12 DEF Evict, TypeOK, limiter, registry, config, process, timers
<1>13. ASSUME CleanupTask
       PROVE  TypeOK'
  <2>1. identity_windows' \in Windows /\ UNCHANGED passed
    BY <1>13, CleanupExact DEF CleanupTask
  <2> QED
    BY <1>13, <2>1 DEF CleanupTask, TypeOK, registry, config, process, storage, timers
<1>14. ASSUME AdminRequest
       PROVE  TypeOK'
  <2>1. existing' \subseteq Tenants /\ registered' \subseteq Tenants \X Identities
    BY <1>14 DEF AdminRequest, TypeOK, R!Next, R!CreateTenant, R!Register,
                 R!Unregister, R!DeleteTenant
  <2>2. request' \in Request \cup {NoRequest}
    <3>1. CASE request = NoRequest
      BY <1>14, <3>1 DEF AdminRequest
    <3>2. CASE request # NoRequest
      <4> DEFINE found == \E t \in Tenants : <<t, request.publisher>> \in registered'
      <4>1. found \in BOOLEAN
        OBVIOUS
      <4>2. request' = [request EXCEPT !.seen = @ \cup {found}]
        BY <1>14, <3>2 DEF AdminRequest
      <4>3. request \in Request
        BY <3>2 DEF TypeOK
      <4> HIDE DEF found
      <4> QED
        BY <4>1, <4>2, <4>3 DEF Request
    <3> QED BY <3>1, <3>2
  <2> QED
    BY <1>14, <2>1, <2>2 DEF AdminRequest, TypeOK, limiter, config, process, storage, timers
<1>15. ASSUME Start
       PROVE  TypeOK'
  BY <1>15 DEF Start, TypeOK, limiter, registry, config, storage, timers
<1>16. ASSUME Stop
       PROVE  TypeOK'
  BY <1>16, EmptyExact
     DEF Stop, TypeOK, Windows, NoWindows, registry, config, storage
<1>17. ASSUME Tick
       PROVE  TypeOK'
  <2>1. passed' \in Windows
    BY <1>17, TickExact DEF Tick
  <2> QED
    BY <1>17, <2>1 DEF Tick, TypeOK, registry, config, process, storage, timers
<1>18. ASSUME UNCHANGED vars
       PROVE  TypeOK'
  BY <1>18 DEF vars, TypeOK, limiter, registry, config, process, storage, timers
<1> QED
  BY <1>1, <1>2, <1>3, <1>4, <1>5, <1>7, <1>8, <1>9, <1>10, <1>11, <1>12, <1>13,
     <1>14, <1>15, <1>16, <1>17, <1>18 DEF Next
-----------------------------------------------------------------------------
(* The windows, and the STORE under way.                                    *)

LEMMA StepLimiter == TypeOK /\ LimiterInv /\ [Next]_vars => LimiterInv'
<1> SUFFICES ASSUME TypeOK, LimiterInv, [Next]_vars PROVE LimiterInv'
  OBVIOUS
<1>1. ASSUME NEW p \in Identities, Publish(p)
      PROVE  LimiterInv'
  BY <1>1, PassesExact, RefusesExact DEF Publish
<1>2. ASSUME PublishAd
      PROVE  LimiterInv'
  BY <1>2, PassesExact, RefusesExact, NamesAssumption DEF PublishAd
<1>3. ASSUME CleanupTask
      PROVE  LimiterInv'
  BY <1>3, CleanupExact DEF CleanupTask
<1>4. ASSUME Tick
      PROVE  LimiterInv'
  BY <1>4, TickExact DEF Tick
<1>5. ASSUME Stop
      PROVE  LimiterInv'
  <2>1. (identity_windows = NoWindows)' /\ (passed = NoWindows)'
    BY <1>5 DEF Stop, NoWindows
  <2>2. \A p \in Identities : identity_windows'[p] = {} /\ passed'[p] = {}
    BY <2>1 DEF NoWindows
  <2>3. IsFiniteSet({}) /\ Cardinality({}) = 0
    BY FS_EmptySet
  <2>4. ASSUME NEW p \in Identities
        PROVE  /\ IsFiniteSet(passed'[p]) /\ Cardinality(passed'[p]) <= STORE_LIMIT
               /\ Younger(identity_windows[p], WINDOW)' = passed'[p]
    <3>1. identity_windows'[p] = {} /\ passed'[p] = {}
      BY <2>2
    <3>2. Younger(identity_windows[p], WINDOW)' = {}
      BY <3>1 DEF Younger
    <3> QED BY <2>3, <3>1, <3>2, RateLimitConfig
  <2> QED
    BY <2>4 DEF LimiterInv, WindowExact
<1>6. ASSUME UNCHANGED <<now, limiter>>
      PROVE  LimiterInv'
  BY <1>6 DEF limiter, LimiterInv, WindowExact, Younger
<1>7. ASSUME \/ LookupTenant \/ FinishStore \/ SkipAd \/ FinishBoot \/ Reseed \/ GossipOut
             \/ \E o \in Own : GossipIn(o)
             \/ \E p \in Identities : RelayIn(p)
             \/ Evict \/ AdminRequest \/ Start \/ UNCHANGED vars
      PROVE  UNCHANGED <<now, limiter>>
  BY <1>7 DEF LookupTenant, FinishStore, SkipAd, FinishBoot, Reseed, GossipOut, GossipIn,
              RelayIn, Evict, AdminRequest, Start, vars
<1> QED
  BY <1>1, <1>2, <1>3, <1>4, <1>5, <1>6, <1>7 DEF Next

LEMMA StepRequest == TypeOK /\ RequestInv /\ [Next]_vars => RequestInv'
<1> SUFFICES ASSUME TypeOK, RequestInv, [Next]_vars PROVE RequestInv'
  OBVIOUS
<1>1. ASSUME NEW p \in Identities, NEW v, NEW blocked, Received(p, v, blocked), Free,
             UNCHANGED <<registered>>, phase' # "down"
      PROVE  RequestInv'
  <2>1. request'.publisher = p /\ request'.lookup = "due" /\ request'.seen = {IsTenant(p)}
    BY <1>1 DEF Received
  <2>2. IsTenant(p)' = IsTenant(p)
    BY <1>1 DEF IsTenant
  <2>3. IsTenant(p) => TRUE \in {IsTenant(p)}
    <3>1. CASE IsTenant(p)
      <4>1. IsTenant(p) = TRUE
        BY <3>1 DEF IsTenant
      <4> QED BY <4>1
    <3> QED BY <3>1
  <2>4. IsTenant(request.publisher)' = IsTenant(p)'
    BY <2>1
  <2> QED
    BY <1>1, <2>1, <2>2, <2>3, <2>4 DEF RequestInv
<1>2. ASSUME NEW p \in Identities, Publish(p)
      PROVE  RequestInv'
  BY <1>1, <1>2 DEF Publish, Free, RequestInv, registry, process
<1>3. ASSUME LookupTenant
      PROVE  RequestInv'
  <2>1. request \in Request
    BY <1>3 DEF LookupTenant, TypeOK
  <2>2. PICK found \in {IsTenant(request.publisher), FALSE} :
          request' = [request EXCEPT !.lookup = IF found THEN "tenant" ELSE "stranger"]
    BY <1>3 DEF LookupTenant
  <2>3. request'.publisher = request.publisher /\ request'.seen = request.seen
    BY <2>1, <2>2 DEF Request
  <2>4. request'.lookup = "tenant" => IsTenant(request.publisher)
    BY <2>1, <2>2 DEF Request
  <2>5. IsTenant(request.publisher)' => IsTenant(request.publisher)
    BY <1>3, <2>3 DEF LookupTenant, IsTenant, registry
  <2>6. phase' # "down"
    BY <1>3 DEF LookupTenant, RequestInv, process
  <2> QED
    BY <1>3, <2>3, <2>4, <2>5, <2>6 DEF RequestInv, LookupTenant
<1>4. ASSUME FinishStore
      PROVE  RequestInv'
  BY <1>4 DEF FinishStore, RequestInv
<1>5. ASSUME PublishAd
      PROVE  RequestInv'
  <2>1. phase' # "down" /\ request = NoRequest
    BY <1>5 DEF PublishAd, Free
  <2> QED
    BY <1>1, <1>5, <2>1, NamesAssumption DEF PublishAd, RequestInv, registry
<1>6. ASSUME AdminRequest
      PROVE  RequestInv'
  <2>1. phase' = phase /\ phase # "down"
    BY <1>6 DEF AdminRequest, process
  <2>2. CASE request # NoRequest
    <3> DEFINE found == \E t \in Tenants : <<t, request.publisher>> \in registered'
    <3>1. request \in Request
      BY <2>2 DEF TypeOK
    <3>2. request' = [request EXCEPT !.seen = @ \cup {found}]
      BY <1>6, <2>2 DEF AdminRequest
    <3>3. /\ request'.publisher = request.publisher /\ request'.lookup = request.lookup
          /\ request'.seen = request.seen \cup {found}
      <4> HIDE DEF found
      <4> QED BY <3>1, <3>2 DEF Request
    <3>4. ASSUME found
          PROVE  TRUE \in request.seen \cup {found}
      <4>1. found = TRUE
        BY <3>4
      <4> QED BY <4>1
    <3>5. IsTenant(request.publisher)' => found
      BY <3>3 DEF IsTenant
    <3> HIDE DEF found
    <3> QED
      BY <2>1, <2>2, <3>3, <3>4, <3>5 DEF RequestInv
  <2> QED
    BY <1>6, <2>1, <2>2 DEF AdminRequest, RequestInv
<1>7. ASSUME UNCHANGED <<registered, request>>, phase' = "down" => request = NoRequest
      PROVE  RequestInv'
  BY <1>7 DEF RequestInv, IsTenant
<1>8. ASSUME \/ SkipAd \/ FinishBoot \/ Reseed \/ GossipOut
             \/ \E o \in Own : GossipIn(o)
             \/ \E p \in Identities : RelayIn(p)
             \/ Evict \/ CleanupTask \/ Start \/ Tick \/ UNCHANGED vars
      PROVE  UNCHANGED <<registered, request>> /\ (phase' = "down" => request = NoRequest)
  BY <1>8 DEF SkipAd, FinishBoot, Reseed, GossipOut, GossipIn, RelayIn, Evict, CleanupTask,
              Start, Tick, vars, registry, process, RequestInv
<1>9. ASSUME Stop
      PROVE  RequestInv'
  BY <1>9 DEF Stop, RequestInv
<1> QED
  BY <1>2, <1>3, <1>4, <1>5, <1>6, <1>7, <1>8, <1>9 DEF Next
-----------------------------------------------------------------------------
(* The hub's own descriptors.                                               *)

\* Numbers a step computes with.
LEMMA Numbers ==
  ASSUME TypeOK
  PROVE  /\ now \in Nat /\ ad_due \in Nat /\ seed_due \in Nat
         /\ PERIOD \in Nat /\ SEED_INTERVAL \in Nat /\ LATENESS \in Nat /\ TTL \in Nat
         /\ PERIOD + LATENESS < TTL /\ SEED_INTERVAL + LATENESS < TTL
         /\ WINDOW \in Nat /\ WINDOW < PERIOD
         /\ Ad \in Own /\ SeedTypes \subseteq Own /\ Ad \notin SeedTypes
         /\ Own = SeedTypes \cup {Ad}
  BY TimesAssumption, NamesAssumption, RateLimitConfig DEF TypeOK, Own

\* A stored version of an own slot has numbers.
LEMMA OwnVersion ==
  ASSUME TypeOK, NEW o \in Own
  PROVE  /\ own[o] # Vacant => own[o].sequence \in Nat /\ own[o].timestamp \in Nat
         /\ copies[o] # Vacant => copies[o].sequence \in Nat /\ copies[o].timestamp \in Nat
  BY DEF TypeOK, Version

\* What a refresh has stored lives until after the next one.
LEMMA AdLive ==
  ASSUME TypeOK, OwnInv, Running, Ad \notin missed, ~AdPending
  PROVE  own[Ad] # Vacant /\ own[Ad].timestamp + PERIOD >= ad_due /\ Live(own[Ad])
<1>1. own[Ad] # Vacant /\ own[Ad].timestamp + PERIOD >= ad_due
  BY DEF OwnInv, AdInv
<1>2. now <= ad_due + LATENESS
  BY DEF OwnInv, TimersInv
<1> QED
  BY <1>1, <1>2, Numbers, OwnVersion DEF Live

LEMMA SeedLive ==
  ASSUME TypeOK, OwnInv, phase = "serving", NEW o \in SeedTypes \ missed
  PROVE  own[o] # Vacant /\ own[o].timestamp + SEED_INTERVAL >= seed_due /\ Live(own[o])
<1>1. own[o] # Vacant /\ own[o].timestamp + SEED_INTERVAL >= seed_due
  BY DEF OwnInv, SeedsInv
<1>2. now <= seed_due + LATENESS
  BY DEF OwnInv, TimersInv
<1> QED
  BY <1>1, <1>2, Numbers, OwnVersion DEF Live

\* When the hub publishes, nothing of its own is in the window.
LEMMA HubWithinLimit ==
  ASSUME TypeOK, LimiterInv, OwnInv, phase = "starting" \/ (Running /\ now >= ad_due)
  PROVE  WithinLimit(Hub)
<1>1. passed[Hub] = Younger(identity_windows[Hub], WINDOW)
  BY NamesAssumption DEF LimiterInv, WindowExact
<1>2. \A e \in passed[Hub] : e[1] \in Nat /\ now - e[1] <= WINDOW
  BY <1>1, NamesAssumption DEF TypeOK, Windows, Younger
<1>3. passed[Hub] = {}
  <2>1. CASE phase = "starting"
    BY <2>1 DEF OwnInv, HubWindowInv, Running
  <2>2. CASE now >= ad_due
    BY <1>2, <2>2, Numbers DEF OwnInv, HubWindowInv
  <2> QED BY <2>1, <2>2
<1> QED
  BY <1>1, <1>3, FS_EmptySet, RateLimitConfig DEF WithinLimit

\* A seeding gives every slot it does not miss a version made now.
LEMMA Seeding ==
  ASSUME TypeOK, OwnInv, seed_now, UNCHANGED now
  PROVE  /\ own'[Ad] = own[Ad] /\ (Ad \in missed' <=> Ad \in missed)
         /\ seed_due' = now + SEED_INTERVAL
         /\ \A o \in SeedTypes : NotAhead(o, own[o])'
         /\ \A o \in SeedTypes \ missed' : own'[o] # Vacant /\ own'[o].timestamp = now
<1>1. PICK failed \in SUBSET SeedTypes :
        LET stored == {o \in SeedTypes \ failed : ~Stale(SeedVersion, own[o])} IN
        /\ own' = [o \in Own |-> IF o \in stored THEN SeedVersion ELSE own[o]]
        /\ missed' = (missed \cup failed) \ stored
  BY DEF seed_now
<1> DEFINE stored == {o \in SeedTypes \ failed : ~Stale(SeedVersion, own[o])}
<1>2. /\ own' = [o \in Own |-> IF o \in stored THEN SeedVersion ELSE own[o]]
      /\ missed' = (missed \cup failed) \ stored
  BY <1>1
<1>3. SeedVersion # Vacant /\ SeedVersion.sequence = 1 /\ SeedVersion.timestamp = now
  BY VersionTyping, NamesAssumption DEF SeedVersion, Created
<1>4. ASSUME NEW o \in SeedTypes
      PROVE  /\ NotAhead(o, own[o]) /\ ~Stale(SeedVersion, own[o])
             /\ o # Ad /\ o \in Own
  <2>1. NotAhead(o, own[o]) /\ o # Ad /\ o \in Own
    BY Numbers DEF OwnInv, VersionsInv
  <2> QED
    BY <1>3, <2>1, OwnVersion DEF NotAhead, Stale
<1>5. Ad \notin stored /\ Ad \notin failed /\ Ad \in Own
  BY Numbers
<1>6. stored = SeedTypes \ failed
  BY <1>4
<1> HIDE DEF stored
<1>7. own'[Ad] = own[Ad] /\ (Ad \in missed' <=> Ad \in missed)
  BY <1>2, <1>5
<1>8. ASSUME NEW o \in SeedTypes
      PROVE  NotAhead(o, own[o])' /\ (o \notin missed' => own'[o] # Vacant /\ own'[o].timestamp = now)
  <2>1. o # Ad /\ own'[o] = IF o \in stored THEN SeedVersion ELSE own[o]
    BY <1>2, <1>4
  <2>2. o \notin missed' => o \in stored
    BY <1>2, <1>6
  <2> QED
    BY <1>3, <1>4, <2>1, <2>2 DEF NotAhead
<1> QED
  BY <1>7, <1>8 DEF seed_now

\* Steps that leave alone what the hub's own descriptors depend on.
LEMMA OwnFrame ==
  ASSUME OwnInv, AdPending' <=> AdPending,
         AdPending => request'.version = request.version,
         UNCHANGED <<now, phase, own, copies, missed, ad_due, seed_due>>,
         passed'[Hub] = passed[Hub]
  PROVE  OwnInv'
<1>1. AdVersion' = AdVersion /\ Live(own[Ad])' = Live(own[Ad])
  BY DEF AdVersion, Created, Live
<1>2. TimersInv' /\ HubWindowInv'
  BY DEF OwnInv, TimersInv, HubWindowInv, Running
<1>3. VersionsInv'
  BY DEF OwnInv, VersionsInv, NotAhead
<1>4. PendingInv'
  BY <1>1 DEF OwnInv, PendingInv
<1>5. AdInv' /\ SeedsInv'
  BY <1>1 DEF OwnInv, AdInv, SeedsInv, Running
<1> QED
  BY <1>2, <1>3, <1>4, <1>5 DEF OwnInv
\* The end of a STORE, of the hub or of somebody else.
LEMMA FinishOwn ==
  ASSUME TypeOK, RequestInv, OwnInv, FinishStore
  PROVE  OwnInv'
<1>1. /\ request \in Request /\ request # NoRequest /\ request' = NoRequest
      /\ phase' = phase /\ passed' = passed /\ now' = now /\ copies' = copies
      /\ ad_due' = ad_due /\ seed_due' = seed_due
  BY DEF FinishStore, TypeOK, limiter, process, timers
<1>2. TimersInv' /\ HubWindowInv' /\ PendingInv'
  BY <1>1 DEF OwnInv, TimersInv, HubWindowInv, PendingInv, AdPending, Running
<1>3. CASE AdPending /\ StoreAccepted
  <2>1. request.version = AdVersion /\ ad_due = now + PERIOD
    BY <1>3 DEF OwnInv, PendingInv
  <2>2. AdVersion # Vacant /\ AdVersion.sequence = now /\ AdVersion.timestamp = now
    BY VersionTyping, NamesAssumption DEF AdVersion, Created
  <2>3. NotAhead(Ad, own[Ad])
    BY Numbers DEF OwnInv, VersionsInv
  <2>4. ~Stale(AdVersion, own[Ad])
    BY <2>2, <2>3, Numbers, OwnVersion DEF NotAhead, Stale
  <2>5. own' = [own EXCEPT ![Ad] = AdVersion] /\ missed' = missed \ {Ad}
    BY <1>3, <2>1, <2>4 DEF AdPending, StoreAccepted, AdStored
  <2>6. own'[Ad] = AdVersion /\ \A o \in SeedTypes : own'[o] = own[o]
    BY <2>5, Numbers DEF TypeOK
  <2>7. VersionsInv'
    BY <1>1, <2>2, <2>6, Numbers DEF OwnInv, VersionsInv, NotAhead
  <2>8. AdInv'
    BY <1>1, <2>1, <2>2, <2>6, Numbers DEF AdInv
  <2>9. SeedsInv'
    BY <1>1, <2>5, <2>6, Numbers DEF OwnInv, SeedsInv
  <2> QED
    BY <1>2, <2>7, <2>8, <2>9 DEF OwnInv
<1>4. CASE AdPending /\ StoreRejected
  <2>1. own' = own /\ missed' = missed \cup {Ad}
    BY <1>4 DEF AdPending, StoreRejected
  <2> QED
    BY <1>1, <1>2, <2>1 DEF OwnInv, VersionsInv, NotAhead, AdInv, SeedsInv
<1>5. CASE ~AdPending
  <2>1. own' = own /\ missed' = missed
    BY <1>1, <1>5 DEF AdPending, FinishStore, StoreAccepted, ForeignStored, StoreRejected
  <2> QED
    BY <1>1, <1>2, <1>5, <2>1
       DEF OwnInv, VersionsInv, NotAhead, AdInv, SeedsInv, Running
<1> QED
  BY <1>3, <1>4, <1>5 DEF FinishStore

\* A refresh is never refused by the rate limit, and the advertisement it
\* replaces lives until the STORE is done.
LEMMA PublishOwn ==
  ASSUME TypeOK, LimiterInv, OwnInv, PublishAd
  PROVE  OwnInv'
<1>1. /\ request = NoRequest /\ now' = now /\ own' = own /\ copies' = copies
      /\ missed' = missed /\ seed_due' = seed_due /\ ad_due' = now + PERIOD
      /\ phase = "starting" \/ (Running /\ now >= ad_due)
      /\ phase' = IF phase = "starting" THEN "boot" ELSE phase
  BY DEF PublishAd, Free, NextRefresh, storage
<1>2. CheckPasses(Hub) /\ Received(Hub, AdVersion, FALSE)
  BY <1>1, HubWithinLimit DEF PublishAd, CheckRefuses
<1>3. request' \in Request /\ request'.publisher = Hub /\ request'.version = AdVersion
  BY <1>2, ReceivedTyping, VersionTyping, NamesAssumption
<1>4. AdVersion' = AdVersion /\ AdPending'
  BY <1>1, <1>3, RequestAssumption DEF AdVersion, Created, AdPending
<1>5. Running' /\ (phase' = "serving" => phase = "serving")
  BY <1>1 DEF Running
<1>6. TimersInv'
  BY <1>1, <1>5, Numbers DEF OwnInv, TimersInv
<1>7. HubWindowInv'
  <2>1. PICK n \in Nat : passed' = [passed EXCEPT ![Hub] = @ \cup {<<now, n>>}]
    BY <1>1, <1>2, PassesExact, NamesAssumption
  <2>2. passed'[Hub] = passed[Hub] \cup {<<now, n>>}
    BY <2>1, NamesAssumption DEF TypeOK, Windows
  <2>3. \A e \in passed[Hub] : e[1] \in Nat /\ e[1] + PERIOD <= now + PERIOD
    <3>1. CASE phase = "starting"
      BY <3>1 DEF OwnInv, HubWindowInv, Running
    <3>2. CASE now >= ad_due
      BY <3>2, Numbers, NamesAssumption DEF OwnInv, HubWindowInv, TypeOK, Windows
    <3> QED BY <1>1, <3>1, <3>2
  <2>4. <<now, n>>[1] = now
    OBVIOUS
  <2> QED
    BY <1>1, <1>5, <2>2, <2>3, <2>4, Numbers DEF HubWindowInv
<1>8. VersionsInv'
  BY <1>1 DEF OwnInv, VersionsInv, NotAhead
<1>9. PendingInv'
  BY <1>1, <1>3, <1>4 DEF PendingInv
<1>10. AdInv'
  <2>1. phase' = "serving" /\ Ad \notin missed => Live(own[Ad])
    BY <1>1, <1>5, AdLive DEF AdPending, Running
  <2>2. Live(own[Ad])' = Live(own[Ad])
    BY <1>1 DEF Live
  <2> QED
    BY <1>1, <1>4, <2>1, <2>2 DEF AdInv
<1>11. SeedsInv'
  BY <1>1, <1>5 DEF OwnInv, SeedsInv
<1> QED
  BY <1>6, <1>7, <1>8, <1>9, <1>10, <1>11 DEF OwnInv

\* A copy that comes back is not ahead, and makes a slot missed when it is older
\* than what it replaces.
LEMMA GossipInOwn ==
  ASSUME TypeOK, OwnInv, NEW o \in Own, GossipIn(o)
  PROVE  OwnInv'
<1>1. /\ Running /\ request = NoRequest /\ request' = request /\ phase' = phase
      /\ now' = now /\ passed' = passed /\ copies' = copies
      /\ ad_due' = ad_due /\ seed_due' = seed_due
      /\ own' = [own EXCEPT ![o] = copies[o]] /\ copies[o] # Vacant
      /\ missed' = IF own[o] # Vacant /\ copies[o].timestamp < own[o].timestamp
                   THEN missed \cup {o} ELSE missed
  BY DEF GossipIn, Free, Live, process, limiter, timers
<1>2. own'[o] = copies[o] /\ \A q \in Own \ {o} : own'[q] = own[q]
  BY <1>1 DEF TypeOK
<1>3. TimersInv' /\ HubWindowInv' /\ PendingInv'
  BY <1>1 DEF OwnInv, TimersInv, HubWindowInv, PendingInv, AdPending, Running
<1>4. VersionsInv'
  <2>1. ASSUME NEW q \in Own
        PROVE  NotAhead(q, own[q])' /\ NotAhead(q, copies[q])'
    <3>1. NotAhead(q, own[q]) /\ NotAhead(q, copies[q])
      BY DEF OwnInv, VersionsInv
    <3> QED BY <1>1, <1>2, <3>1 DEF NotAhead
  <2> QED BY <2>1 DEF VersionsInv
<1>5. AdInv'
  <2>1. SUFFICES ASSUME Running, Ad \notin missed'
                 PROVE  own'[Ad] # Vacant /\ own'[Ad].timestamp + PERIOD >= ad_due
    BY <1>1 DEF AdInv, Running
  <2>2. own[Ad] # Vacant /\ own[Ad].timestamp + PERIOD >= ad_due
    BY <1>1, <2>1, AdLive DEF AdPending
  <2> QED
    BY <1>1, <1>2, <2>1, <2>2, Numbers, OwnVersion
<1>6. SeedsInv'
  <2>1. SUFFICES ASSUME phase = "serving", NEW q \in SeedTypes \ missed'
                 PROVE  own'[q] # Vacant /\ own'[q].timestamp + SEED_INTERVAL >= seed_due
    BY <1>1 DEF SeedsInv
  <2>2. q \in Own /\ own[q] # Vacant /\ own[q].timestamp + SEED_INTERVAL >= seed_due
    BY <1>1, <2>1, SeedLive, Numbers
  <2> QED
    BY <1>1, <1>2, <2>1, <2>2, Numbers, OwnVersion
<1> QED
  BY <1>3, <1>4, <1>5, <1>6 DEF OwnInv

\* What is not missed is live, so that eviction leaves it alone.
LEMMA EvictOwn ==
  ASSUME TypeOK, OwnInv, Evict
  PROVE  OwnInv'
<1>1. /\ request = NoRequest /\ request' = request /\ phase' = phase
      /\ now' = now /\ passed' = passed /\ copies' = copies /\ missed' = missed
      /\ ad_due' = ad_due /\ seed_due' = seed_due
      /\ own' = [o \in Own |-> IF Live(own[o]) THEN own[o] ELSE Vacant]
  BY DEF Evict, Free, process, limiter, timers
<1>2. TimersInv' /\ HubWindowInv' /\ PendingInv'
  BY <1>1 DEF OwnInv, TimersInv, HubWindowInv, PendingInv, AdPending, Running
<1>3. VersionsInv'
  BY <1>1 DEF OwnInv, VersionsInv, NotAhead
<1>4. AdInv'
  <2>1. Running /\ Ad \notin missed =>
          own'[Ad] = own[Ad] /\ own[Ad] # Vacant /\ own[Ad].timestamp + PERIOD >= ad_due
    BY <1>1, AdLive, Numbers DEF AdPending
  <2> QED
    BY <1>1, <2>1 DEF AdInv, Running
<1>5. SeedsInv'
  <2>1. ASSUME phase = "serving", NEW o \in SeedTypes \ missed
        PROVE  own'[o] = own[o] /\ own[o] # Vacant /\ own[o].timestamp + SEED_INTERVAL >= seed_due
    BY <1>1, <2>1, SeedLive, Numbers
  <2> QED
    BY <1>1, <2>1 DEF SeedsInv
<1> QED
  BY <1>2, <1>3, <1>4, <1>5 DEF OwnInv

LEMMA TickOwn ==
  ASSUME TypeOK, LimiterInv, OwnInv, Tick
  PROVE  OwnInv'
<1>1. /\ request = NoRequest /\ request' = request /\ phase' = phase
      /\ now' = now + 1 /\ own' = own /\ copies' = copies /\ missed' = missed
      /\ ad_due' = ad_due /\ seed_due' = seed_due
      /\ passed'[Hub] \subseteq passed[Hub]
  BY TickExact, NamesAssumption DEF Tick, process, storage, timers
<1>2. TimersInv'
  BY <1>1, Numbers DEF Tick, InTime, TimersInv, Running
<1>3. HubWindowInv'
  BY <1>1 DEF OwnInv, HubWindowInv, Running
<1>4. VersionsInv'
  BY <1>1, Numbers, OwnVersion DEF OwnInv, VersionsInv, NotAhead
<1>5. PendingInv' /\ AdInv' /\ SeedsInv'
  BY <1>1 DEF OwnInv, PendingInv, AdInv, SeedsInv, AdPending, Running
<1> QED
  BY <1>2, <1>3, <1>4, <1>5 DEF OwnInv
LEMMA StepOwn ==
  TypeOK /\ LimiterInv /\ RequestInv /\ OwnInv /\ [Next]_vars => OwnInv'
<1> SUFFICES ASSUME TypeOK, LimiterInv, RequestInv, OwnInv, [Next]_vars PROVE OwnInv'
  OBVIOUS
<1>1. ASSUME NEW p \in Identities, Publish(p)
      PROVE  OwnInv'
  <2>1. /\ p # Hub /\ request = NoRequest
        /\ UNCHANGED <<now, phase, own, copies, missed, ad_due, seed_due>>
    BY <1>1 DEF Publish, Free, process, storage, timers
  <2>2. ~AdPending /\ ~AdPending'
    BY <1>1, <2>1 DEF AdPending, Publish, Received
  <2>3. passed'[Hub] = passed[Hub]
    BY <1>1, <2>1, NamesAssumption DEF Publish, CheckPasses, CheckRefuses, TypeOK, Windows
  <2> QED
    BY <2>1, <2>2, <2>3, OwnFrame
<1>2. ASSUME LookupTenant
      PROVE  OwnInv'
  <2>1. request \in Request /\ request # NoRequest
    BY <1>2 DEF LookupTenant, TypeOK
  <2>2. /\ request' \in Request
        /\ request'.publisher = request.publisher /\ request'.version = request.version
    BY <1>2, <2>1 DEF LookupTenant, Request
  <2>3. AdPending' <=> AdPending
    BY <2>1, <2>2, RequestAssumption DEF AdPending
  <2> QED
    BY <1>2, <2>2, <2>3, OwnFrame DEF LookupTenant, limiter, process, storage, timers
<1>3. ASSUME SkipAd
      PROVE  OwnInv'
  <2>1. /\ now >= ad_due /\ ad_due' = now + PERIOD /\ missed' = missed \cup {Ad}
        /\ UNCHANGED <<now, phase, request, own, copies, seed_due, passed>>
    BY <1>3 DEF SkipAd, NextRefresh, limiter, process
  <2>2. ~AdPending
    BY <2>1, Numbers DEF OwnInv, PendingInv
  <2>3. TimersInv' /\ PendingInv' /\ VersionsInv'
    BY <2>1, <2>2, Numbers
       DEF OwnInv, TimersInv, PendingInv, AdPending, Running, VersionsInv, NotAhead
  <2>4. HubWindowInv'
    BY <2>1, Numbers, NamesAssumption DEF OwnInv, HubWindowInv, Running, TypeOK, Windows
  <2>5. AdInv' /\ SeedsInv'
    BY <2>1 DEF OwnInv, AdInv, SeedsInv
  <2> QED
    BY <2>3, <2>4, <2>5 DEF OwnInv
<1>4. ASSUME FinishBoot \/ Reseed
      PROVE  OwnInv'
  <2>1. /\ Running /\ request = NoRequest /\ phase' = "serving" /\ seed_now
        /\ UNCHANGED <<now, request, copies, ad_due, passed>>
    BY <1>4 DEF FinishBoot, Reseed, Free, Running, limiter, process
  <2>2. /\ own'[Ad] = own[Ad] /\ (Ad \in missed' <=> Ad \in missed)
        /\ seed_due' = now + SEED_INTERVAL
        /\ \A o \in SeedTypes : NotAhead(o, own[o])'
        /\ \A o \in SeedTypes \ missed' : own'[o] # Vacant /\ own'[o].timestamp = now
    BY <2>1, Seeding
  <2>3. TimersInv' /\ HubWindowInv' /\ PendingInv'
    BY <2>1, <2>2, Numbers
       DEF OwnInv, TimersInv, HubWindowInv, PendingInv, AdPending, Running
  <2>4. VersionsInv'
    BY <2>1, <2>2, Numbers DEF OwnInv, VersionsInv, NotAhead
  <2>5. AdInv'
    BY <2>1, <2>2, AdLive DEF AdInv, AdPending
  <2>6. SeedsInv'
    BY <2>2, Numbers DEF SeedsInv
  <2> QED
    BY <2>3, <2>4, <2>5, <2>6 DEF OwnInv
<1>5. ASSUME GossipOut
      PROVE  OwnInv'
  <2>1. /\ copies' = [o \in Own |-> IF Live(own[o]) /\ ~Stale(own[o], copies[o])
                                    THEN own[o] ELSE copies[o]]
        /\ UNCHANGED <<now, phase, request, own, missed, ad_due, seed_due, passed>>
    BY <1>5 DEF GossipOut, limiter, process, storage, timers
  <2>2. VersionsInv'
    BY <2>1 DEF OwnInv, VersionsInv, NotAhead
  <2>3. AdVersion' = AdVersion /\ Live(own[Ad])' = Live(own[Ad])
    BY <2>1 DEF AdVersion, Created, Live
  <2> QED
    BY <2>1, <2>2, <2>3
       DEF OwnInv, TimersInv, HubWindowInv, PendingInv, AdInv, SeedsInv, AdPending, Running
<1>6. ASSUME AdminRequest
      PROVE  OwnInv'
  <2>1. (AdPending' <=> AdPending) /\ (AdPending => request'.version = request.version)
    <3>1. CASE request = NoRequest
      BY <1>6, <3>1 DEF AdminRequest, AdPending
    <3>2. CASE request # NoRequest
      <4> DEFINE found == \E t \in Tenants : <<t, request.publisher>> \in registered'
      <4>1. request \in Request
        BY <3>2 DEF TypeOK
      <4>2. request' = [request EXCEPT !.seen = @ \cup {found}]
        BY <1>6, <3>2 DEF AdminRequest
      <4>3. found \in BOOLEAN
        OBVIOUS
      <4> HIDE DEF found
      <4>4. /\ request' \in Request
            /\ request'.publisher = request.publisher /\ request'.version = request.version
        BY <4>1, <4>2, <4>3 DEF Request
      <4> QED
        BY <3>2, <4>4, RequestAssumption DEF AdPending
    <3> QED BY <3>1, <3>2
  <2> QED
    BY <1>6, <2>1, OwnFrame DEF AdminRequest, limiter, process, storage, timers
<1>7. ASSUME Start
      PROVE  OwnInv'
  <2>1. /\ phase = "down" /\ phase' = "starting" /\ ~Running
        /\ UNCHANGED <<now, request, own, copies, missed, ad_due, seed_due, passed>>
    BY <1>7 DEF Start, Running, limiter, storage, timers
  <2>2. AdVersion' = AdVersion
    BY <2>1 DEF AdVersion, Created
  <2> QED
    BY <2>1, <2>2
       DEF OwnInv, TimersInv, HubWindowInv, VersionsInv, NotAhead, PendingInv, AdInv,
           SeedsInv, AdPending, Running
<1>8. ASSUME Stop
      PROVE  OwnInv'
  <2>1. /\ phase' = "down" /\ request' = NoRequest /\ passed' = NoWindows
        /\ UNCHANGED <<now, own, copies, missed>>
    BY <1>8 DEF Stop, storage
  <2>2. passed'[Hub] = {}
    BY <2>1, NamesAssumption DEF NoWindows
  <2> QED
    BY <2>1, <2>2
       DEF OwnInv, TimersInv, HubWindowInv, VersionsInv, NotAhead, PendingInv, AdInv,
           SeedsInv, AdPending, Running
<1>9. ASSUME (\E p \in Identities : RelayIn(p)) \/ CleanupTask \/ UNCHANGED vars
      PROVE  OwnInv'
  <2>1. UNCHANGED <<now, phase, request, own, copies, missed, ad_due, seed_due, passed>>
    BY <1>9 DEF RelayIn, CleanupTask, cleanup, vars, limiter, process, storage, timers
  <2> QED
    BY <2>1, OwnFrame DEF AdPending
<1> QED
  BY <1>1, <1>2, <1>3, <1>4, <1>5, <1>6, <1>7, <1>8, <1>9, FinishOwn, PublishOwn,
     GossipInOwn, EvictOwn, TickOwn DEF Next

-----------------------------------------------------------------------------
(* The theorems.                                                            *)

LEMMA InitInv == Init => Inv
<1> SUFFICES ASSUME Init PROVE Inv
  OBVIOUS
<1>1. /\ LimiterInv /\ identity_windows \in Windows /\ passed \in Windows
      /\ passed[Hub] = {}
  BY EmptyExact, NamesAssumption DEF Init, NoWindows
<1>2. TypeOK
  BY <1>1, TimesAssumption DEF Init, TypeOK, R!Init
<1>3. RequestInv
  BY DEF Init, RequestInv
<1>4. OwnInv
  BY <1>1 DEF Init, OwnInv, TimersInv, HubWindowInv, VersionsInv, NotAhead, PendingInv,
              AdInv, SeedsInv, AdPending, Running
<1> QED
  BY <1>1, <1>2, <1>3, <1>4 DEF Inv

LEMMA StepInv == Inv /\ [Next]_vars => Inv'
  BY StepType, StepLimiter, StepRequest, StepOwn DEF Inv

\* The inductive invariant holds in every state.
THEOREM Invariance == Spec => []Inv
  BY InitInv, StepInv, PTL DEF Spec

\* Every variable keeps its type.
THEOREM TypeCorrect == Spec => []TypeOK
<1>1. Inv => TypeOK
  BY DEF Inv
<1> QED
  BY <1>1, Invariance, PTL

\* check_identity counts exactly the STOREs it let pass within the last window,
\* for any limit and window.
THEOREM WindowIsExact == Spec => []WindowExact
<1>1. Inv => WindowExact
  BY DEF Inv, LimiterInv
<1> QED
  BY <1>1, Invariance, PTL

\* The hub's advertisement and seeds do not lapse between refreshes that are made,
\* for any periods and lateness that leave room for it.
THEOREM OwnDescriptorsStayLive == Spec => []OwnDescriptorsLive
<1>1. ASSUME Inv
      PROVE  OwnDescriptorsLive
  <2>1. SUFFICES ASSUME phase = "serving", NEW o \in Own \ missed
                 PROVE  Live(own[o])
    BY DEF OwnDescriptorsLive
  <2>2. CASE o = Ad /\ AdPending
    BY <1>1, <2>1, <2>2, Numbers, OwnVersion
       DEF Inv, OwnInv, TimersInv, AdInv, Live, Running
  <2>3. CASE o = Ad /\ ~AdPending
    BY <1>1, <2>1, <2>3, AdLive DEF Inv, Running
  <2>4. CASE o \in SeedTypes
    BY <1>1, <2>1, <2>4, SeedLive DEF Inv
  <2> QED
    BY <1>1, <2>2, <2>3, <2>4, Numbers DEF Inv
<1> QED
  BY <1>1, Invariance, PTL

\* The hook of a restricted hub lets in only what somebody publishes who was a
\* registered tenant identity since the STORE arrived.
THEOREM OnlyTenantsAdmitted == Spec => AdmittedWereTenants
<1>1. ASSUME Inv, [Next]_vars, request # NoRequest, store_mode # "Open",
             NEW p \in foreign' \ foreign
      PROVE  p = request.publisher /\ TRUE \in request.seen
  <2>1. FinishStore /\ StoreAccepted
    <3>1. ~Free
      BY <1>1 DEF Free
    <3>2. ~(foreign' \subseteq foreign)
      BY <1>1
    <3> QED
      BY <1>1, <3>1, <3>2
         DEF Next, Publish, LookupTenant, FinishStore, StoreRejected, PublishAd, SkipAd,
             FinishBoot, Reseed, GossipOut, GossipIn, RelayIn, Evict, CleanupTask,
             AdminRequest, Start, Stop, Tick, vars, storage
  <2>2. request \in Request /\ request.lookup # "due"
    BY <1>1, <2>1 DEF Inv, TypeOK, FinishStore
  <2>3. Restricted
    BY <1>1, NamesAssumption DEF Inv, TypeOK, Restricted
  <2>4. request.lookup = "tenant"
    BY <2>1, <2>2, <2>3 DEF StoreAccepted, check_store, Request
  <2>5. p = request.publisher
    BY <1>1, <2>1 DEF StoreAccepted, AdStored, ForeignStored
  <2> QED
    BY <1>1, <2>4, <2>5 DEF Inv, RequestInv
<1>2. Inv /\ [Next]_vars =>
        [request # NoRequest /\ store_mode # "Open" =>
           \A p \in foreign' \ foreign :
             p = request.publisher /\ TRUE \in request.seen]_vars
  BY <1>1
<1> QED
  BY <1>2, Invariance, PTL DEF Spec, AdmittedWereTenants

\* The refresh of the advertisement is never refused by the hub's own rate limit.
OwnRefreshPasses ==
  phase = "starting" \/ (Running /\ now >= ad_due) => WithinLimit(Hub)

\* Whenever the refresh task publishes, at a start or at a timer however late,
\* the window of the hub's identity has room: the limit and the period cannot
\* starve the advertisement (peering.rs, publish_self_advertisement, against
\* rate_limit.rs, check_identity).
THEOREM OwnRefreshIsNotLimited == Spec => []OwnRefreshPasses
<1>1. Inv => OwnRefreshPasses
  BY HubWithinLimit DEF Inv, OwnRefreshPasses
<1> QED
  BY <1>1, Invariance, PTL

\* What the hook reads between the steps of a STORE, of a seeding or of gossip
\* moves only as TenantRegistry allows, across restarts too: the hub is composed
\* with the registry that TenantsProofs shows the tenant database to implement
\* (tenant.rs, as hooks.rs reads it).
THEOREM HubUsesRegistry == Spec => R!Spec
<1>1. Init => R!Init
  BY DEF Init
<1>2. ASSUME [Next]_vars
      PROVE  [R!Next]_<<existing, registered>>
  BY <1>2
     DEF Next, Publish, LookupTenant, FinishStore, PublishAd, SkipAd, FinishBoot, Reseed,
         GossipOut, GossipIn, RelayIn, Evict, CleanupTask, AdminRequest, Start, Stop, Tick,
         vars, registry
<1> QED
  BY <1>1, <1>2, PTL DEF Spec, R!Spec
=============================================================================
