------------------------- MODULE PeerManagerProofs -------------------------
(***************************************************************************)
(* Proofs about the peers map, for any hubs and thresholds.                *)
(***************************************************************************)
EXTENDS PeerManager, TLAPS

\* Discovery does not run before the seeds are done.
BootQuiet == seeds_left # {} => chosen = NoHub

\* What the properties need together: a peer that run_discovery is about to
\* connect to must be known to have no connection before a failed connect can
\* be shown not to strand one.
Inv ==
  /\ TypeOK
  /\ DiscoveryTargetUnconnected
  /\ DisconnectedIsReleased
  /\ UnhealthyBand
  /\ BootQuiet

\* Counting failures changes nothing but the counter, which does not fall.
LEMMA FailedFacts ==
  ASSUME NEW p \in PeerState, NEW n \in Nat
  PROVE  /\ Failed(p, n) \in PeerState
         /\ Failed(p, n).connection = p.connection
         /\ Failed(p, n).status = p.status
         /\ Failed(p, n).failures >= p.failures
BY ThresholdsAssumption DEF Failed, PeerState

\* A PONG clears the counter and leaves the connection alone.
LEMMA PongFacts ==
  ASSUME NEW p \in PeerState,
         NEW q, q = [p EXCEPT !.failures = 0, !.status = "Connected"]
  PROVE  q \in PeerState /\ q.connection = p.connection /\ q.status = "Connected"
<1>1. 0 \in 0..DISCONNECT_THRESHOLD
  BY ThresholdsAssumption
<1> QED
  BY <1>1 DEF PeerState

\* A failed PING: the state the thresholds call for.
LEMMA DemotedFacts ==
  ASSUME NEW p \in PeerState, NEW q, q = Demoted(p)
  PROVE  /\ q \in PeerState
         /\ q.connection \in {p.connection, "none"}
         /\ q.status = "Disconnected" =>
              q.connection = "none" \/ p.status = "Disconnected"
         /\ q.status = "Unhealthy" =>
              \/ UNHEALTHY_THRESHOLD <= q.failures /\ q.failures < DISCONNECT_THRESHOLD
              \/ p.status = "Unhealthy" /\ p.failures < UNHEALTHY_THRESHOLD
<1>1. PICK f : f = Failed(p, 1)
  OBVIOUS
<1>2. /\ f \in PeerState /\ f.connection = p.connection /\ f.status = p.status
      /\ f.failures >= p.failures
  BY <1>1, FailedFacts
<1>3. /\ f.failures \in Nat /\ p.failures \in Nat
      /\ UNHEALTHY_THRESHOLD \in Nat /\ DISCONNECT_THRESHOLD \in Nat
  BY <1>2, ThresholdsAssumption DEF PeerState
<1>4. CASE f.failures >= DISCONNECT_THRESHOLD
  <2>1. q = [f EXCEPT !.status = "Disconnected", !.connection = "none"]
    BY <1>1, <1>4 DEF Demoted
  <2> QED
    BY <1>2, <1>3, <1>4, <2>1 DEF PeerState
<1>5. CASE ~(f.failures >= DISCONNECT_THRESHOLD) /\ f.failures >= UNHEALTHY_THRESHOLD
  <2>1. q = [f EXCEPT !.status = "Unhealthy"]
    BY <1>1, <1>5 DEF Demoted
  <2> QED
    BY <1>2, <1>3, <1>5, <2>1 DEF PeerState
<1>6. CASE ~(f.failures >= DISCONNECT_THRESHOLD) /\ ~(f.failures >= UNHEALTHY_THRESHOLD)
  <2>1. q = f
    BY <1>1, <1>6 DEF Demoted
  <2> QED
    BY <1>2, <1>3, <1>6, <2>1 DEF PeerState
<1> QED
  BY <1>4, <1>5, <1>6

\* The states a failed connect leaves behind.
LEMMA ConnectFailureFacts ==
  ASSUME NEW h \in Hubs, peers[h] \in PeerState \cup {Unknown}
  PROVE  /\ ConnectFailure(h) \in PeerState
         /\ ConnectFailure(h).status = "Disconnected"
         /\ ConnectFailure(h).connection =
              IF peers[h] = Unknown THEN "none" ELSE peers[h].connection
<1>1. CASE peers[h] = Unknown
  BY <1>1, ThresholdsAssumption DEF ConnectFailure, PeerState
<1>2. CASE peers[h] \in PeerState /\ peers[h] # Unknown
  <2> DEFINE f == Failed(peers[h], 1)
  <2>1. f \in PeerState /\ f.connection = peers[h].connection
    BY <1>2, FailedFacts
  <2>2. ConnectFailure(h) = [f EXCEPT !.status = "Disconnected"]
    BY <1>2 DEF ConnectFailure
  <2> HIDE DEF f
  <2> QED
    BY <1>2, <2>1, <2>2 DEF PeerState
<1> QED
  BY <1>1, <1>2

\* The entry of a peer that has just been connected.
LEMMA FreshFacts ==
  /\ Fresh \in PeerState
  /\ Fresh.status = "Connected" /\ Fresh.connection = "live"
BY ThresholdsAssumption DEF Fresh, PeerState

\* One peer changes, to a state that fits what is said of every peer.
LEMMA OnePeer ==
  ASSUME Inv, NEW h \in Hubs, NEW p \in PeerState,
         peers' = [peers EXCEPT ![h] = p],
         up' \subseteq Hubs, ads' \subseteq Hubs, seeds_left' \subseteq seeds_left,
         todo' = todo, chosen' \in {chosen, NoHub}, call' \in Calls,
         p.status = "Disconnected" => p.connection = "none",
         p.status # "Unhealthy",
         chosen' = h => p.connection = "none"
  PROVE  Inv'
<1>1. /\ peers' \in [Hubs -> PeerState \cup {Unknown}]
      /\ peers'[h] = p
      /\ \A g \in Hubs : g # h => peers'[g] = peers[g]
  BY DEF Inv, TypeOK
<1>2. TypeOK'
  BY <1>1 DEF Inv, TypeOK
<1>3. DiscoveryTargetUnconnected'
  BY <1>1, <1>2, HubsAssumption DEF Inv, TypeOK, DiscoveryTargetUnconnected
<1>4. DisconnectedIsReleased'
  BY <1>1 DEF Inv, DisconnectedIsReleased, HasStatus
<1>5. UnhealthyBand'
  BY <1>1 DEF Inv, UnhealthyBand, HasStatus
<1>6. BootQuiet'
  BY DEF Inv, BootQuiet
<1> QED
  BY <1>2, <1>3, <1>4, <1>5, <1>6 DEF Inv

\* The peers map stays, and discovery forgets or keeps what it has chosen.
LEMMA PeersStay ==
  ASSUME Inv, peers' = peers,
         up' \subseteq Hubs, ads' \subseteq Hubs, seeds_left' \subseteq seeds_left,
         todo' \subseteq Hubs, chosen' \in {chosen, NoHub}, call' \in Calls
  PROVE  Inv'
BY HubsAssumption
   DEF Inv, TypeOK, DiscoveryTargetUnconnected, DisconnectedIsReleased, UnhealthyBand,
       HasStatus, BootQuiet

\* What gossip_round and health_check do to each peer keeps the invariant.
LEMMA EachPeer ==
  ASSUME Inv, UNCHANGED <<up, ads, seeds_left, discovery>>, call' = NoCall,
         peers' \in [Hubs -> PeerState \cup {Unknown}],
         \A h \in Hubs :
           \/ peers'[h] = peers[h]
           \/ /\ peers[h] # Unknown
              /\ peers'[h].connection \in {peers[h].connection, "none"}
              /\ peers'[h].status = "Disconnected" => peers'[h].connection = "none"
              /\ peers'[h].status = "Unhealthy" =>
                   /\ UNHEALTHY_THRESHOLD <= peers'[h].failures
                   /\ peers'[h].failures < DISCONNECT_THRESHOLD
  PROVE  Inv'
<1>1. TypeOK'
  BY DEF Inv, TypeOK, Calls, discovery
<1>2. DiscoveryTargetUnconnected'
  <2> SUFFICES ASSUME chosen # NoHub, peers'[chosen] # Unknown
               PROVE  peers'[chosen].connection = "none"
    BY DEF DiscoveryTargetUnconnected, discovery
  <2>1. chosen \in Hubs
    BY DEF Inv, TypeOK
  <2> QED
    BY <2>1 DEF Inv, DiscoveryTargetUnconnected
<1>3. DisconnectedIsReleased' /\ UnhealthyBand' /\ BootQuiet'
  BY DEF Inv, DisconnectedIsReleased, UnhealthyBand, HasStatus, BootQuiet, discovery
<1> QED
  BY <1>1, <1>2, <1>3 DEF Inv

\* gossip_round: only counters of connected peers move.
LEMMA GossipInv ==
  ASSUME Inv, gossip_round
  PROVE  Inv'
<1>1. PICK batch \in 1..MAX_GOSSIP_BATCH : \E failures \in [Hubs -> 0..batch] :
        peers' = [h \in Hubs |->
          IF HasStatus(h, "Connected") /\ peers[h].connection # "none" /\ failures[h] > 0
          THEN GossipTo(peers[h], failures[h])
          ELSE peers[h]]
  BY DEF gossip_round
<1>2. PICK failures \in [Hubs -> 0..batch] :
        peers' = [h \in Hubs |->
          IF HasStatus(h, "Connected") /\ peers[h].connection # "none" /\ failures[h] > 0
          THEN GossipTo(peers[h], failures[h])
          ELSE peers[h]]
  BY <1>1
<1>3. ASSUME NEW h \in Hubs
      PROVE  \/ peers'[h] = peers[h]
             \/ /\ peers[h] # Unknown /\ peers[h].status = "Connected"
                /\ peers'[h] \in PeerState
                /\ peers'[h].connection = peers[h].connection
                /\ peers'[h].status = peers[h].status
  <2>1. failures[h] \in Nat
    BY ThresholdsAssumption
  <2>2. peers[h] # Unknown => peers[h] \in PeerState
    BY DEF Inv, TypeOK
  <2>3. CASE HasStatus(h, "Connected") /\ peers[h].connection # "none" /\ failures[h] > 0
    <3>1. peers'[h] = Failed(peers[h], failures[h])
      BY <1>2, <2>3 DEF GossipTo
    <3> QED
      BY <2>1, <2>2, <2>3, <3>1, FailedFacts DEF HasStatus
  <2>4. CASE ~(HasStatus(h, "Connected") /\ peers[h].connection # "none" /\ failures[h] > 0)
    BY <1>2, <2>4
  <2> QED
    BY <2>3, <2>4
<1>4. peers' \in [Hubs -> PeerState \cup {Unknown}]
  BY <1>2, <1>3 DEF Inv, TypeOK
<1>5. UNCHANGED <<up, ads, seeds_left, discovery>> /\ call' = NoCall
  BY DEF gossip_round
<1> QED
  BY <1>3, <1>4, <1>5, EachPeer

\* health_check: a peer that answers is Connected, one that does not climbs the
\* ladder of thresholds.
LEMMA HealthInv ==
  ASSUME Inv, health_check
  PROVE  Inv'
<1>1. PICK answer \in [Hubs -> {"pong", "garbled", "error"}] :
        peers' = [h \in Hubs |->
            IF peers[h] = Unknown \/ HasStatus(h, "Disconnected")
            THEN peers[h]
            ELSE Checked(peers[h], answer[h])]
  BY DEF health_check
<1>2. ASSUME NEW h \in Hubs, peers'[h] # peers[h]
      PROVE  /\ peers[h] # Unknown
             /\ peers'[h] \in PeerState
             /\ peers'[h].connection \in {peers[h].connection, "none"}
             /\ peers'[h].status = "Disconnected" => peers'[h].connection = "none"
             /\ peers'[h].status = "Unhealthy" =>
                  /\ UNHEALTHY_THRESHOLD <= peers'[h].failures
                  /\ peers'[h].failures < DISCONNECT_THRESHOLD
  <2>1. peers[h] # Unknown /\ peers[h].status # "Disconnected"
    BY <1>1, <1>2 DEF HasStatus
  <2>2. peers[h] \in PeerState /\ peers'[h] = Checked(peers[h], answer[h])
    BY <1>1, <2>1 DEF Inv, TypeOK, HasStatus
  <2>3. peers[h].status = "Unhealthy" => UNHEALTHY_THRESHOLD <= peers[h].failures
    BY <2>1 DEF Inv, UnhealthyBand, HasStatus
  <2>4. CASE answer[h] = "pong"
    <3>1. PICK q : q = [peers[h] EXCEPT !.failures = 0, !.status = "Connected"]
      OBVIOUS
    <3>2. q \in PeerState /\ q.connection = peers[h].connection /\ q.status = "Connected"
      BY <2>2, <3>1, PongFacts
    <3>3. peers'[h] = q
      BY <2>2, <2>4, <3>1 DEF Checked
    <3> QED
      BY <2>1, <3>2, <3>3
  <2>5. CASE answer[h] = "garbled"
    BY <1>2, <2>2, <2>5 DEF Checked
  <2>6. CASE answer[h] = "error"
    <3>1. peers'[h] = Demoted(peers[h])
      BY <2>2, <2>6 DEF Checked
    <3>2. ~(peers[h].status = "Unhealthy" /\ peers[h].failures < UNHEALTHY_THRESHOLD)
      BY <2>2, <2>3, ThresholdsAssumption DEF PeerState
    <3>3. PICK q : q = Demoted(peers[h])
      OBVIOUS
    <3>4. /\ q \in PeerState
          /\ q.connection \in {peers[h].connection, "none"}
          /\ q.status = "Disconnected" => q.connection = "none"
          /\ q.status = "Unhealthy" =>
               UNHEALTHY_THRESHOLD <= q.failures /\ q.failures < DISCONNECT_THRESHOLD
      BY <2>1, <2>2, <3>2, <3>3, DemotedFacts
    <3> QED
      BY <2>1, <3>1, <3>3, <3>4
  <2> QED
    BY <2>4, <2>5, <2>6
<1>3. peers' \in [Hubs -> PeerState \cup {Unknown}]
  BY <1>1, <1>2 DEF Inv, TypeOK
<1>4. UNCHANGED <<up, ads, seeds_left, discovery>> /\ call' = NoCall
  BY DEF health_check
<1> QED
  BY <1>2, <1>3, <1>4, EachPeer

\* An empty peers map satisfies the inductive invariant.
LEMMA InitInv == Init => Inv
BY DEF Init, Inv, TypeOK, DiscoveryTargetUnconnected, DisconnectedIsReleased,
       UnhealthyBand, HasStatus, BootQuiet, Calls

\* connect_to_peer, for the hub that run_discovery has chosen.
LEMMA ConnectInv ==
  ASSUME Inv, DiscoveryConnect
  PROVE  Inv'
<1>1. /\ chosen \in Hubs
      /\ peers[chosen] = Unknown \/ peers[chosen].connection = "none"
      /\ peers[chosen] \in PeerState \cup {Unknown}
  BY DEF DiscoveryConnect, Inv, TypeOK, DiscoveryTargetUnconnected
<1>2. /\ UNCHANGED <<up, ads, seeds_left, todo>> /\ chosen' = NoHub /\ call' \in Calls
      /\ up \subseteq Hubs /\ ads \subseteq Hubs /\ seeds_left \subseteq Seeds
      /\ todo \subseteq Hubs
  BY DEF DiscoveryConnect, Inv, TypeOK
<1>3. CASE ConnectSkipped(chosen)
  <2>1. peers' = peers
    BY <1>3 DEF DiscoveryConnect, connect_to_peer
  <2> QED
    BY <1>2, <2>1, PeersStay
<1>4. CASE ~ConnectSkipped(chosen)
  <2>1. PICK p : p = IF chosen \in up THEN Fresh ELSE ConnectFailure(chosen)
    OBVIOUS
  <2>2. peers' = [peers EXCEPT ![chosen] = p]
    BY <1>4, <2>1 DEF DiscoveryConnect, connect_to_peer
  <2>3. /\ p \in PeerState /\ p.status # "Unhealthy"
        /\ p.status = "Disconnected" => p.connection = "none"
    BY <1>1, <2>1, FreshFacts, ConnectFailureFacts
  <2>4. chosen' # chosen
    BY <1>1, <1>2, HubsAssumption
  <2> QED
    BY <1>1, <1>2, <2>2, <2>3, <2>4, OnePeer
<1> QED
  BY <1>3, <1>4

\* Registering a seed.
LEMMA SeedInv ==
  ASSUME Inv, NEW s \in seeds_left, SeedRegisters(s)
  PROVE  Inv'
<1>1. s \in Hubs /\ s # NoHub /\ chosen = NoHub
  BY HubsAssumption DEF Inv, TypeOK, BootQuiet
<1>2. /\ up' \subseteq Hubs /\ ads' \subseteq Hubs /\ seeds_left' \subseteq seeds_left
      /\ todo' = todo /\ chosen' = chosen /\ peers' = [peers EXCEPT ![s] = Fresh]
      /\ call' \in Calls
  BY DEF SeedRegisters, Inv, TypeOK, Calls, discovery
<1> QED
  BY <1>1, <1>2, FreshFacts, OnePeer

\* Registering an incoming hub, which run_discovery may have just chosen.
LEMMA AutoRegisterInv ==
  ASSUME Inv, NEW h \in Hubs, AutoRegister(h)
  PROVE  Inv'
<1> DEFINE p == [connection |-> "none", status |-> "Connected", failures |-> 0]
<1>1. p \in PeerState
  BY ThresholdsAssumption DEF PeerState
<1>2. /\ up' \subseteq Hubs /\ ads' \subseteq Hubs /\ seeds_left' \subseteq seeds_left
      /\ todo' = todo /\ chosen' = chosen /\ peers' = [peers EXCEPT ![h] = p]
      /\ call' \in Calls
  BY DEF AutoRegister, Inv, TypeOK, discovery
<1> QED
  BY <1>1, <1>2, OnePeer

\* A hub goes down: its connection is dead, its status is what it was.
LEMMA DownInv ==
  ASSUME Inv, NEW h \in Hubs, HubDown(h)
  PROVE  Inv'
<1>1. /\ up' \subseteq Hubs /\ UNCHANGED <<ads, todo, chosen>>
      /\ seeds_left' \subseteq seeds_left /\ call' \in Calls
      /\ ads \subseteq Hubs /\ seeds_left \subseteq Seeds /\ todo \subseteq Hubs
  BY DEF HubDown, Inv, TypeOK, Calls, discovery
<1>2. CASE peers' = peers
  BY <1>1, <1>2, PeersStay
<1>3. CASE /\ peers[h] # Unknown /\ peers[h].connection = "live"
           /\ peers' = [peers EXCEPT ![h].connection = "dead"]
  <2>1. /\ peers[h] \in PeerState /\ peers'[h] = [peers[h] EXCEPT !.connection = "dead"]
        /\ \A g \in Hubs : g # h => peers'[g] = peers[g]
    BY <1>3 DEF Inv, TypeOK
  <2>2. /\ peers'[h] \in PeerState /\ peers'[h].status = peers[h].status
        /\ peers'[h].failures = peers[h].failures
    BY <2>1 DEF PeerState
  <2>3. peers[h].status # "Disconnected" /\ chosen # h
    BY <1>3, HubsAssumption
       DEF Inv, DisconnectedIsReleased, DiscoveryTargetUnconnected, HasStatus
  <2>4. peers' \in [Hubs -> PeerState \cup {Unknown}]
    BY <1>3, <2>2 DEF Inv, TypeOK
  <2>5. TypeOK' /\ BootQuiet'
    BY <1>1, <2>4 DEF Inv, TypeOK, BootQuiet
  <2>6. DiscoveryTargetUnconnected'
    BY <1>1, <2>1, <2>3 DEF Inv, TypeOK, DiscoveryTargetUnconnected
  <2>7. DisconnectedIsReleased' /\ UnhealthyBand'
    BY <1>3, <2>1, <2>2, <2>3 DEF Inv, DisconnectedIsReleased, UnhealthyBand, HasStatus
  <2> QED
    BY <2>5, <2>6, <2>7 DEF Inv
<1> QED
  BY <1>2, <1>3 DEF HubDown

\* run_discovery chooses a hub: it has no connection yet.
LEMMA CheckInv ==
  ASSUME Inv, NEW h \in Hubs, DiscoveryCheck(h)
  PROVE  Inv'
<1>1. /\ UNCHANGED <<peers, up, ads, seeds_left, call>> /\ todo' \subseteq Hubs
      /\ seeds_left = {} /\ chosen' \in Hubs \cup {NoHub}
      /\ chosen' # NoHub => chosen' = h /\ ShouldConnect(h)
  BY DEF DiscoveryCheck, Inv, TypeOK, Running
<1>2. TypeOK' /\ BootQuiet'
  BY <1>1 DEF Inv, TypeOK, BootQuiet
<1>3. DiscoveryTargetUnconnected'
  BY <1>1 DEF Inv, DiscoveryTargetUnconnected, DisconnectedIsReleased, ShouldConnect
<1>4. DisconnectedIsReleased' /\ UnhealthyBand'
  BY <1>1 DEF Inv, DisconnectedIsReleased, UnhealthyBand, HasStatus
<1> QED
  BY <1>2, <1>3, <1>4 DEF Inv

\* Every step keeps the invariant.
LEMMA StepInv == Inv /\ [Next]_vars => Inv'
<1> SUFFICES ASSUME Inv, [Next]_vars PROVE Inv'
  OBVIOUS
<1>0. /\ up \subseteq Hubs /\ ads \subseteq Hubs /\ seeds_left \subseteq Seeds
      /\ todo \subseteq Hubs /\ call \in Calls
  BY DEF Inv, TypeOK
<1>1. CASE bootstrap_from_seeds
  <2>1. ASSUME NEW s \in seeds_left, SeedFails(s) PROVE Inv'
    BY <1>0, <2>1, PeersStay DEF SeedFails, Calls, discovery
  <2> QED
    BY <1>1, <2>1, SeedInv DEF bootstrap_from_seeds
<1>2. CASE DiscoveryStart
  BY <1>0, <1>2, PeersStay DEF DiscoveryStart, Discovered
<1>3. ASSUME NEW h \in Hubs, DiscoveryCheck(h) PROVE Inv'
  BY <1>3, CheckInv
<1>4. CASE DiscoveryConnect
  BY <1>4, ConnectInv
<1>5. CASE gossip_round
  BY <1>5, GossipInv
<1>6. CASE health_check
  BY <1>6, HealthInv
<1>7. ASSUME NEW h \in Hubs, AutoRegister(h) PROVE Inv'
  BY <1>7, AutoRegisterInv
<1>8. ASSUME NEW h \in Hubs, HubUp(h) \/ AdStored(h) \/ AdExpired(h) PROVE Inv'
  BY <1>0, <1>8, PeersStay DEF HubUp, AdStored, AdExpired, discovery
<1>9. ASSUME NEW h \in Hubs, HubDown(h) PROVE Inv'
  BY <1>9, DownInv
<1>10. ASSUME NEW t \in {"bootstrap", "gossip", "health"}, NEW h \in Hubs, CallWaits(t, h)
       PROVE  Inv'
  <2>1. call' \in Calls
    BY <1>10 DEF CallWaits, Calls
  <2> QED
    BY <1>0, <1>10, <2>1, PeersStay DEF CallWaits, discovery
<1>11. CASE UNCHANGED vars
  BY <1>0, <1>11, PeersStay DEF vars
<1> QED
  BY <1>1, <1>2, <1>3, <1>4, <1>5, <1>6, <1>7, <1>8, <1>9, <1>10, <1>11 DEF Next, Environment

\* The invariant holds throughout.
THEOREM Invariance == Spec => []Inv
<1>1. Init => Inv
  BY InitInv
<1>2. Inv /\ [Next]_vars => Inv'
  BY StepInv
<1> QED
  BY <1>1, <1>2, PTL DEF Spec

\* The types of the peers map and of discovery's bookkeeping.
THEOREM TypeCorrect == Spec => []TypeOK
<1>1. Inv => TypeOK
  BY DEF Inv
<1> QED
  BY <1>1, Invariance, PTL

\* What happens between run_discovery's check and its connect, of any number of
\* hubs, never gives the chosen hub a connection.
THEOREM DiscoverySafe == Spec => []DiscoveryTargetUnconnected
<1>1. Inv => DiscoveryTargetUnconnected
  BY DEF Inv
<1> QED
  BY <1>1, Invariance, PTL

\* No Disconnected peer keeps a connection.
THEOREM Released == Spec => []DisconnectedIsReleased
<1>1. Inv => DisconnectedIsReleased
  BY DEF Inv
<1> QED
  BY <1>1, Invariance, PTL

\* Unhealthy means between the two thresholds, whatever they are.
THEOREM Band == Spec => []UnhealthyBand
<1>1. Inv => UnhealthyBand
  BY DEF Inv
<1> QED
  BY <1>1, Invariance, PTL

-----------------------------------------------------------------------------
(* A connection that does not work is found out.                            *)

\* A failed PING raises the counter, or the peer is Disconnected.
LEMMA DemotedCounts ==
  ASSUME NEW p \in PeerState, NEW q, q = Demoted(p)
  PROVE  q.status = "Disconnected" \/ q.failures > p.failures
<1> DEFINE f == Failed(p, 1)
<1>1. f \in PeerState /\ p.failures \in 0..DISCONNECT_THRESHOLD
  BY FailedFacts DEF PeerState
<1>2. f.failures >= DISCONNECT_THRESHOLD \/ f.failures = p.failures + 1
  <2>1. f.failures = IF p.failures + 1 < DISCONNECT_THRESHOLD THEN p.failures + 1
                     ELSE DISCONNECT_THRESHOLD
    BY ThresholdsAssumption DEF Failed, PeerState
  <2> QED
    BY <2>1, ThresholdsAssumption
<1>3. q = IF f.failures >= DISCONNECT_THRESHOLD
          THEN [f EXCEPT !.status = "Disconnected", !.connection = "none"]
          ELSE IF f.failures >= UNHEALTHY_THRESHOLD THEN [f EXCEPT !.status = "Unhealthy"]
          ELSE f
  BY DEF Demoted
<1> HIDE DEF f
<1>4. CASE f.failures >= DISCONNECT_THRESHOLD
  BY <1>1, <1>3, <1>4 DEF PeerState
<1>5. CASE ~(f.failures >= DISCONNECT_THRESHOLD)
  <2>1. q.failures = f.failures
    BY <1>1, <1>3, <1>5 DEF PeerState
  <2> QED
    BY <1>1, <1>2, <1>5, <2>1, ThresholdsAssumption
<1> QED
  BY <1>4, <1>5

\* A health check counts a failure for every peer without a live connection.
LEMMA HealthCounts ==
  ASSUME Inv, health_check, NEW h \in Hubs, peers[h] # Unknown, peers[h].connection # "live"
  PROVE  /\ peers'[h] # Unknown
         /\ \/ peers'[h].status = "Disconnected"
            \/ peers[h].status # "Disconnected" /\ peers'[h].failures > peers[h].failures
<1>1. PICK answer \in [Hubs -> {"pong", "garbled", "error"}] :
        /\ answer[h] = "error"
        /\ peers' = [g \in Hubs |->
            IF peers[g] = Unknown \/ HasStatus(g, "Disconnected")
            THEN peers[g]
            ELSE Checked(peers[g], answer[g])]
  BY DEF health_check
<1>2. peers[h] \in PeerState
  BY DEF Inv, TypeOK
<1>3. CASE peers[h].status = "Disconnected"
  BY <1>1, <1>3 DEF HasStatus
<1>4. CASE peers[h].status # "Disconnected"
  <2>1. peers'[h] = Demoted(peers[h])
    BY <1>1, <1>4 DEF HasStatus, Checked
  <2>2. peers'[h] \in PeerState
    BY <1>2, <2>1, DemotedFacts
  <2>3. peers'[h].status = "Disconnected" \/ peers'[h].failures > peers[h].failures
    BY <1>2, <2>1, DemotedCounts
  <2> QED
    BY <1>4, <2>2, <2>3, HubsAssumption
<1> QED
  BY <1>3, <1>4

\* gossip_round lowers no counter.
LEMMA GossipCounts ==
  ASSUME Inv, gossip_round, NEW h \in Hubs, peers[h] # Unknown
  PROVE  /\ peers'[h] # Unknown /\ peers'[h].status = peers[h].status
         /\ peers'[h].failures >= peers[h].failures
<1>1. PICK batch \in 1..MAX_GOSSIP_BATCH : \E failures \in [Hubs -> 0..batch] :
        peers' = [g \in Hubs |->
          IF HasStatus(g, "Connected") /\ peers[g].connection # "none" /\ failures[g] > 0
          THEN GossipTo(peers[g], failures[g])
          ELSE peers[g]]
  BY DEF gossip_round
<1>2. PICK failures \in [Hubs -> 0..batch] :
        peers' = [g \in Hubs |->
          IF HasStatus(g, "Connected") /\ peers[g].connection # "none" /\ failures[g] > 0
          THEN GossipTo(peers[g], failures[g])
          ELSE peers[g]]
  BY <1>1
<1>3. peers[h] \in PeerState /\ failures[h] \in Nat /\ peers[h].failures \in Nat
  BY ThresholdsAssumption DEF Inv, TypeOK, PeerState
<1>4. peers'[h] \in {peers[h], Failed(peers[h], failures[h])}
  BY <1>2 DEF GossipTo
<1>5. /\ Failed(peers[h], failures[h]) \in PeerState
      /\ Failed(peers[h], failures[h]).status = peers[h].status
      /\ Failed(peers[h], failures[h]).failures >= peers[h].failures
  BY <1>3, FailedFacts
<1> QED
  BY <1>3, <1>4, <1>5, HubsAssumption

\* A connect leaves a live connection or a Disconnected peer.
LEMMA ConnectLeaves ==
  ASSUME Inv, DiscoveryConnect, NEW h \in Hubs, peers'[h] # peers[h]
  PROVE  /\ peers'[h] # Unknown
         /\ peers'[h].connection = "live" \/ peers'[h].status = "Disconnected"
<1>1. chosen \in Hubs /\ peers[chosen] \in PeerState \cup {Unknown} /\ ~ConnectSkipped(chosen)
  BY DEF DiscoveryConnect, Inv, TypeOK, connect_to_peer
<1> DEFINE p == IF chosen \in up THEN Fresh ELSE ConnectFailure(chosen)
<1>2. peers' = [peers EXCEPT ![chosen] = p]
  BY <1>1 DEF DiscoveryConnect, connect_to_peer
<1>3. p \in PeerState /\ (p.connection = "live" \/ p.status = "Disconnected")
  BY <1>1, FreshFacts, ConnectFailureFacts
<1> HIDE DEF p
<1> QED
  BY <1>1, <1>2, <1>3, HubsAssumption DEF Inv, TypeOK

\* The safety that ReachablePeerConnected rests on: a peer whose connection is
\* dead or that was registered without one is Disconnected, and so open to
\* discovery again, after at most DISCONNECT_THRESHOLD health checks, whatever
\* gossip_round, incoming requests and discovery do in between (peering.rs,
\* health_check).
THEOREM DeadConnectionFoundOut == Spec => FailuresAddUp
<1> DEFINE Worse(h) ==
             /\ peers'[h] # Unknown
             /\ \/ peers'[h].connection = "live"
                \/ peers'[h].status = "Disconnected"
                \/ /\ peers[h].status # "Disconnected"
                   /\ peers'[h].failures >= peers[h].failures
                   /\ health_check => peers'[h].failures > peers[h].failures
<1>1. ASSUME Inv, Next, NEW h \in Hubs, peers[h] # Unknown, peers[h].connection # "live"
      PROVE  Worse(h)
  <2>1. peers[h] \in PeerState /\ peers[h].failures \in Nat
    BY <1>1, ThresholdsAssumption DEF Inv, TypeOK, PeerState
  <2>2. CASE health_check
    <3>1. /\ peers'[h] # Unknown
          /\ \/ peers'[h].status = "Disconnected"
             \/ peers[h].status # "Disconnected" /\ peers'[h].failures > peers[h].failures
      BY <1>1, <2>2, HealthCounts
    <3>2. peers'[h].failures \in Nat
      BY <1>1, <2>2, <3>1, HealthInv, ThresholdsAssumption DEF Inv, TypeOK, PeerState
    <3> QED
      BY <2>1, <3>1, <3>2
  <2>3. CASE ~health_check /\ peers'[h] = peers[h]
    BY <1>1, <2>1, <2>3
  <2>4. CASE ~health_check /\ gossip_round
    BY <1>1, <2>4, GossipCounts
  <2>5. CASE ~health_check /\ DiscoveryConnect /\ peers'[h] # peers[h]
    BY <1>1, <2>5, ConnectLeaves
  <2>6. ASSUME NEW s \in seeds_left, SeedRegisters(s)
        PROVE  peers'[h] = peers[h] \/ peers'[h] = Fresh
    BY <2>6 DEF SeedRegisters, Inv, TypeOK
  <2>7. CASE peers'[h] = Fresh
    BY <2>7, FreshFacts, HubsAssumption
  <2>8. ASSUME NEW g \in Hubs, AutoRegister(g) \/ HubDown(g)
        PROVE  peers'[h] = peers[h]
    BY <1>1, <2>8 DEF AutoRegister, HubDown, Inv, TypeOK
  <2>9. ASSUME NEW g \in Hubs, HubUp(g) \/ AdStored(g) \/ AdExpired(g) \/ DiscoveryCheck(g)
        PROVE  peers'[h] = peers[h]
    BY <2>9 DEF HubUp, AdStored, AdExpired, DiscoveryCheck
  <2>10. ASSUME NEW t \in {"bootstrap", "gossip", "health"}, NEW g \in Hubs, CallWaits(t, g)
         PROVE  peers'[h] = peers[h]
    BY <2>10 DEF CallWaits
  <2>11. ASSUME DiscoveryStart \/ \E s \in seeds_left : SeedFails(s)
         PROVE  peers'[h] = peers[h]
    BY <2>11 DEF DiscoveryStart, SeedFails
  <2> HIDE DEF Worse
  <2> QED
    BY <1>1, <2>2, <2>3, <2>4, <2>5, <2>6, <2>7, <2>8, <2>9, <2>10, <2>11
       DEF Next, Environment, bootstrap_from_seeds
<1>2. Inv /\ [Next]_vars =>
        [\A h \in Hubs : peers[h] # Unknown /\ peers[h].connection # "live" => Worse(h)]_vars
  BY <1>1
<1> QED
  BY <1>2, Invariance, PTL DEF Spec, FailuresAddUp
=============================================================================
