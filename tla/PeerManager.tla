---------------------------- MODULE PeerManager ----------------------------
(***************************************************************************)
(* The peers map of one hub: how other hubs are found, connected, watched  *)
(* and dropped.  The mutex around PeerManager makes each of bootstrap (per *)
(* seed), connect_to_peer, gossip_round, health_check and the pre-check of *)
(* an incoming request one step; run_discovery releases it between the     *)
(* check whether to connect and the connect.                               *)
(*                                                                         *)
(* send_request has no timeout, and the keep-alive holds the connection to *)
(* a peer that never answers: a seed's PING, a gossip round or a health    *)
(* check may wait, with the mutex, for as long as that peer is up.  `call` *)
(* is such a wait.  What the round writes, nobody sees before it ends: it  *)
(* is the step with which the round ends.  A connect ends by itself, with  *)
(* the handshake or the idle timeout.                                      *)
(*                                                                         *)
(* A connection is live, dead (the peer went away and the transport has    *)
(* not been told, or has closed it) or none.  The failure counter is kept  *)
(* up to DISCONNECT_THRESHOLD: the code tells no larger values apart.      *)
(***************************************************************************)
EXTENDS Integers, FiniteSets

CONSTANTS
  Hubs,                  \* the other hubs
  Seeds,                 \* the hubs behind seed_peers
  Unparsable,            \* hubs whose advertisement has a broken payload
  Blocked,               \* hubs whose address validate_outbound_addr rejects
  Unknown,               \* a hub that is not in the peers map
  NoHub,                 \* no hub is chosen by run_discovery, or waited for
  max_peers,
  MAX_GOSSIP_BATCH,
  UNHEALTHY_THRESHOLD,
  DISCONNECT_THRESHOLD

PeerState ==
  [connection : {"none", "live", "dead"},
   status : {"Connected", "Disconnected", "Unhealthy"},
   failures : 0..DISCONNECT_THRESHOLD]

ASSUME HubsAssumption ==
  /\ Seeds \subseteq Hubs /\ Unparsable \subseteq Hubs /\ Blocked \subseteq Hubs
  /\ Unknown \notin PeerState
  /\ NoHub \notin Hubs

ASSUME ThresholdsAssumption ==
  /\ max_peers \in Nat
  /\ MAX_GOSSIP_BATCH \in Nat \ {0}
  /\ UNHEALTHY_THRESHOLD \in Nat \ {0}
  /\ DISCONNECT_THRESHOLD \in Nat
  /\ UNHEALTHY_THRESHOLD < DISCONNECT_THRESHOLD

VARIABLES
  peers,        \* hub -> PeerState or Unknown
  up,           \* hubs that accept connections and answer
  ads,          \* hubs with an advertisement in the local storage
  seeds_left,   \* seeds bootstrap_from_seeds has still to contact
  todo,         \* discovered hubs run_discovery has still to look at
  chosen,       \* the hub it has decided to connect to, or NoHub
  call          \* the task that holds the mutex and waits, and for whom

discovery == <<todo, chosen>>

vars == <<peers, up, ads, seeds_left, todo, chosen, call>>

NoCall == [task |-> "none", hub |-> NoHub]

Calls == {NoCall} \cup [task : {"bootstrap", "gossip", "health"}, hub : Hubs]

\* The peers map and the tasks on it keep their type.
TypeOK ==
  /\ peers \in [Hubs -> PeerState \cup {Unknown}]
  /\ up \subseteq Hubs
  /\ ads \subseteq Hubs
  /\ seeds_left \subseteq Seeds
  /\ todo \subseteq Hubs
  /\ chosen \in Hubs \cup {NoHub}
  /\ call \in Calls

Init ==
  /\ peers = [h \in Hubs |-> Unknown]
  /\ up \in SUBSET Hubs
  /\ ads \in SUBSET Hubs
  /\ seeds_left = Seeds
  /\ todo = {}
  /\ chosen = NoHub
  /\ call = NoCall

-----------------------------------------------------------------------------

HasStatus(h, status) == peers[h] # Unknown /\ peers[h].status = status

ConnectedPeers == {h \in Hubs : HasStatus(h, "Connected")}

\* The listener and the background tasks start once the seeds are done.
Running == seeds_left = {}

Fresh == [connection |-> "live", status |-> "Connected", failures |-> 0]

\* The mutex is free, or held by this very task, whose wait ends.
Turn(t) == call.task \in {"none", t}

\* The peer state after n more failures.
Failed(p, n) ==
  [p EXCEPT !.failures =
     IF @ + n < DISCONNECT_THRESHOLD THEN @ + n ELSE DISCONNECT_THRESHOLD]

-----------------------------------------------------------------------------
(* bootstrap_from_seeds, one seed.                                          *)

\* The seed is blocked, down, or does not answer the PING: next seed.
SeedFails(s) ==
  /\ seeds_left' = seeds_left \ {s}
  /\ call' = NoCall
  /\ UNCHANGED <<peers, up, ads, discovery>>

\* The seed answers: the advertisements it knows are stored and it is
\* registered, whatever the number of peers.
SeedRegisters(s) ==
  /\ s \in up \ Blocked
  /\ \E known \in SUBSET Hubs : ads' = ads \cup known
  /\ peers' = [peers EXCEPT ![s] = Fresh]
  /\ seeds_left' = seeds_left \ {s}
  /\ call' = NoCall
  /\ UNCHANGED <<up, discovery>>

bootstrap_from_seeds ==
  \E s \in seeds_left :
    /\ call \in {NoCall, [task |-> "bootstrap", hub |-> s]}
    /\ SeedFails(s) \/ SeedRegisters(s)

-----------------------------------------------------------------------------
(* run_discovery and connect_to_peer.                                       *)

\* The hubs with an advertisement, but for those whose payload does not parse.
Discovered == ads \ Unparsable

DiscoveryStart ==
  /\ Running
  /\ call = NoCall
  /\ todo = {} /\ chosen = NoHub
  /\ todo' = Discovered
  /\ UNCHANGED <<peers, up, ads, seeds_left, chosen, call>>

\* Mutation: a peer that is unhealthy is connected again.
ShouldConnect_Unhealthy(h) == ~HasStatus(h, "Connected")

ShouldConnect(h) == peers[h] = Unknown \/ HasStatus(h, "Disconnected")

DiscoveryCheck(h) ==
  /\ Running
  /\ call = NoCall
  /\ chosen = NoHub
  /\ h \in todo
  /\ todo' = todo \ {h}
  /\ chosen' = IF ShouldConnect(h) THEN h ELSE NoHub
  /\ UNCHANGED <<peers, up, ads, seeds_left, call>>

\* connect_to_peer returns before it reaches for the network.
ConnectSkipped(h) ==
  \/ Cardinality(ConnectedPeers) >= max_peers
  \/ HasStatus(h, "Connected") /\ peers[h].connection # "none"
  \/ h \in Blocked

\* The peer state after a failed connect.
ConnectFailure(h) ==
  IF peers[h] = Unknown
  THEN [connection |-> "none", status |-> "Disconnected", failures |-> 1]
  ELSE [Failed(peers[h], 1) EXCEPT !.status = "Disconnected"]

connect_to_peer(h) ==
  peers' = IF ConnectSkipped(h) THEN peers
           ELSE [peers EXCEPT ![h] = IF h \in up THEN Fresh ELSE ConnectFailure(h)]

DiscoveryConnect ==
  /\ call = NoCall
  /\ chosen # NoHub
  /\ connect_to_peer(chosen)
  /\ chosen' = NoHub
  /\ UNCHANGED <<up, ads, seeds_left, todo, call>>

-----------------------------------------------------------------------------
(* gossip_round and health_check.                                           *)

\* Mutation: failed gossip marks the peer.
GossipTo_Marks(p, failures) == [Failed(p, failures) EXCEPT !.status = "Unhealthy"]

\* Mutation: failures are subtracted from the counter.
GossipTo_Underflow(p, failures) == [p EXCEPT !.failures = @ - failures]

\* The counter grows by the STOREs of the round that failed; the status stays.
GossipTo(p, failures) == Failed(p, failures)

\* Every STORE over a dead connection fails, over a live one any may.
gossip_round ==
  /\ Running /\ Turn("gossip")
  /\ \E batch \in 1..MAX_GOSSIP_BATCH :
     \E failures \in [Hubs -> 0..batch] :
       /\ \A h \in Hubs :
            peers[h] # Unknown /\ peers[h].connection = "dead" => failures[h] = batch
       /\ peers' = [h \in Hubs |->
            IF HasStatus(h, "Connected") /\ peers[h].connection # "none" /\ failures[h] > 0
            THEN GossipTo(peers[h], failures[h])
            ELSE peers[h]]
  /\ call' = NoCall
  /\ UNCHANGED <<up, ads, seeds_left, discovery>>

\* Mutation: the connection of a disconnected peer is kept.
Demoted_KeepsConnection(p) ==
  LET q == Failed(p, 1) IN
  IF q.failures >= DISCONNECT_THRESHOLD THEN [q EXCEPT !.status = "Disconnected"]
  ELSE IF q.failures >= UNHEALTHY_THRESHOLD THEN [q EXCEPT !.status = "Unhealthy"]
  ELSE q

\* Mutation: a PING without an answer is not counted.
Demoted_Never(p) == Failed(p, 0)

\* A peer that did not answer its PING.
Demoted(p) ==
  LET q == Failed(p, 1) IN
  IF q.failures >= DISCONNECT_THRESHOLD
  THEN [q EXCEPT !.status = "Disconnected", !.connection = "none"]
  ELSE IF q.failures >= UNHEALTHY_THRESHOLD THEN [q EXCEPT !.status = "Unhealthy"]
  ELSE q

\* A PONG that does not decode changes nothing.
Checked(p, answer) ==
  CASE answer = "pong"    -> [p EXCEPT !.failures = 0, !.status = "Connected"]
    [] answer = "garbled" -> p
    [] answer = "error"   -> Demoted(p)

\* Only a live connection can answer.
health_check ==
  /\ Running /\ Turn("health")
  /\ \E answer \in [Hubs -> {"pong", "garbled", "error"}] :
       /\ \A h \in Hubs :
            peers[h] # Unknown /\ peers[h].connection # "live" => answer[h] = "error"
       /\ peers' = [h \in Hubs |->
            IF peers[h] = Unknown \/ HasStatus(h, "Disconnected")
            THEN peers[h]
            ELSE Checked(peers[h], answer[h])]
  /\ call' = NoCall
  /\ UNCHANGED <<up, ads, seeds_left, discovery>>

\* A peer at the other end of a working connection takes its time with a
\* request: a seed with PING or FIND_VALUE, a connected peer with a STORE of
\* the round, any peer with its PING.
CallWaits(t, h) ==
  /\ call = NoCall
  /\ call' = [task |-> t, hub |-> h]
  /\ IF t = "bootstrap" THEN h \in seeds_left /\ h \in up \ Blocked
     ELSE /\ Running
          /\ peers[h] # Unknown /\ peers[h].connection = "live"
          /\ t = "gossip" => HasStatus(h, "Connected")
  /\ UNCHANGED <<peers, up, ads, seeds_left, discovery>>

-----------------------------------------------------------------------------
(* The pre-check of handle_protocol_request: a request of a hub that is     *)
(* advertised and not in the map registers it, without a connection.        *)

\* Mutation: a hub that is in the map is registered anew.
AutoRegister_Known(h) ==
  /\ Running
  /\ call = NoCall
  /\ h \in up
  /\ h \in ads
  /\ peers' = [peers EXCEPT ![h] =
       [connection |-> "none", status |-> "Connected", failures |-> 0]]
  /\ UNCHANGED <<up, ads, seeds_left, discovery, call>>

AutoRegister(h) ==
  /\ Running
  /\ call = NoCall
  /\ h \in up
  /\ h \in ads
  /\ peers[h] = Unknown
  /\ peers' = [peers EXCEPT ![h] =
       [connection |-> "none", status |-> "Connected", failures |-> 0]]
  /\ UNCHANGED <<up, ads, seeds_left, discovery, call>>

(* The network, and the storage that holds the advertisements.              *)

HubUp(h) ==
  /\ up' = up \cup {h}
  /\ UNCHANGED <<peers, ads, seeds_left, discovery, call>>

\* A seed that goes down while bootstrap waits for it is given up, before any
\* other task has begun.
HubDown(h) ==
  /\ up' = up \ {h}
  /\ peers' = IF peers[h] # Unknown /\ peers[h].connection = "live"
              THEN [peers EXCEPT ![h].connection = "dead"]
              ELSE peers
  /\ IF call = [task |-> "bootstrap", hub |-> h]
     THEN seeds_left' = seeds_left \ {h} /\ call' = NoCall
     ELSE UNCHANGED <<seeds_left, call>>
  /\ UNCHANGED <<ads, discovery>>

AdStored(h) ==
  /\ Running
  /\ ads' = ads \cup {h}
  /\ UNCHANGED <<peers, up, seeds_left, discovery, call>>

AdExpired(h) ==
  /\ ads' = ads \ {h}
  /\ UNCHANGED <<peers, up, seeds_left, discovery, call>>

Environment == \E h \in Hubs : HubUp(h) \/ HubDown(h) \/ AdStored(h) \/ AdExpired(h)

Next ==
  \/ bootstrap_from_seeds
  \/ DiscoveryStart
  \/ \E h \in Hubs : DiscoveryCheck(h)
  \/ DiscoveryConnect
  \/ gossip_round
  \/ health_check
  \/ \E t \in {"bootstrap", "gossip", "health"}, h \in Hubs : CallWaits(t, h)
  \/ \E h \in Hubs : AutoRegister(h)
  \/ Environment

Spec == Init /\ [][Next]_vars

\* The mutex is free, or the peer that its holder waits for is gone: the idle
\* timeout ends the wait.
Prompt ==
  \/ call = NoCall
  \/ call.task \in {"gossip", "health"} /\ peers[call.hub].connection # "live"

\* Discovery and health checks are loops around a sleep, and tokio's mutex
\* serves its waiters in order, so a task gets it if it is free again and
\* again.  A gossip round whose peer has gone ends.  No wait for a peer that
\* is up is assumed to end.
FairSpec ==
  /\ Spec
  /\ WF_vars(call = NoCall /\ bootstrap_from_seeds)
  /\ WF_vars(Prompt /\ call.task = "gossip" /\ gossip_round)
  /\ SF_vars(Prompt /\ health_check)
  /\ SF_vars(DiscoveryStart)
  /\ \A h \in Hubs : SF_vars(DiscoveryCheck(h))
  /\ SF_vars(DiscoveryConnect)

-----------------------------------------------------------------------------
(* Safety.                                                                  *)

\* run_discovery decides under one lock and connects under another: whatever
\* happens in between, the hub it is about to connect to has no connection
\* that the new one would replace or a failure would strand.
DiscoveryTargetUnconnected ==
  chosen # NoHub /\ peers[chosen] # Unknown => peers[chosen].connection = "none"

\* A peer that is given up holds no connection: neither health_check nor a
\* failed connect_to_peer leaves one behind that nothing will look at again.
DisconnectedIsReleased ==
  \A h \in Hubs : HasStatus(h, "Disconnected") => peers[h].connection = "none"

\* Unhealthy is the band between the two thresholds, although gossip_round and
\* connect_to_peer move the counter too.
UnhealthyBand ==
  \A h \in Hubs :
    HasStatus(h, "Unhealthy") =>
      UNHEALTHY_THRESHOLD <= peers[h].failures /\ peers[h].failures < DISCONNECT_THRESHOLD

\* A connection that does not work is found out.  A peer without a live
\* connection stays in the map; until it is connected again or Disconnected
\* its counter does not fall, whatever gossip, discovery and incoming requests
\* do, and each health check raises it.  (operator-guide.md says that it takes
\* five consecutive failed health checks: at most that many.  Failed STOREs of
\* gossip_round count too, so it may be one.)
FailuresAddUp ==
  [][\A h \in Hubs :
       peers[h] # Unknown /\ peers[h].connection # "live" =>
         /\ peers'[h] # Unknown
         /\ \/ peers'[h].connection = "live"
            \/ peers'[h].status = "Disconnected"
            \/ /\ peers[h].status # "Disconnected"
               /\ peers'[h].failures >= peers[h].failures
               /\ health_check => peers'[h].failures > peers[h].failures]_vars

(* Liveness, under FairSpec.                                                *)

\* A hub that stays up and advertised is connected again and again, however it
\* got into the map: a dead connection or an auto-registered peer without one
\* fails its way to Disconnected, and discovery then connects.  Two things
\* keep it out: max_peers others that are Connected again and again, and a
\* peer that is up and for ever owes the holder of the mutex an answer.
ReachablePeerConnected ==
  \A h \in Hubs \ (Unparsable \cup Blocked) :
    <>[](h \in up /\ h \in ads) =>
      \/ []<>(peers[h] # Unknown /\ peers[h].connection = "live")
      \/ []<>(Cardinality(ConnectedPeers \ {h}) >= max_peers)
      \/ <>[](call.hub \in up)

-----------------------------------------------------------------------------
(* What documents say and the code does not do.                             *)

\* docs/operator-guide.md: max_peers is the maximum number of connected peer
\* hubs.
MaxPeersRespected == Cardinality(ConnectedPeers) <= max_peers
=============================================================================
