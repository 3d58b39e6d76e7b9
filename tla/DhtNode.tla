------------------------------ MODULE DhtNode ------------------------------
(***************************************************************************)
(* DHT nodes over an unreliable network.  Servers bootstrap from their     *)
(* seeds and then answer PING, STORE, FIND_NODE and FIND_VALUE.  Clients   *)
(* bootstrap and then publish one descriptor or look for it: the iterative *)
(* store and lookup of DhtNode, inside publish and discover_from of        *)
(* MeshClient with their direct request to the seed at the end.            *)
(*                                                                         *)
(* A node makes one request at a time and holds itself (the mutex around   *)
(* it, or &mut self) until the answer is there, so its job is a sequence   *)
(* of exchanges.  In each the other node handles the request and the       *)
(* answer arrives, or nobody handles it, or the answer is lost.            *)
(*                                                                         *)
(* held abstracts the nodes' stores (DescriptorStore) to one descriptor    *)
(* under routing_keys, which no store drops within the horizon.            *)
(***************************************************************************)
EXTENDS RoutingTable

CONSTANTS
  Servers,        \* the nodes that listen
  listens,        \* where each server can be reached
  Publishers,     \* the clients that publish the descriptor
  Seekers,        \* the clients that look for it
  Targets,        \* the routing keys they look under
  addr,           \* the address each node gives as its own
  seeds,          \* the seed addresses of each node
  routing_keys,   \* of the descriptor
  alpha,
  MaxOps,         \* operations of a client
  MaxFailures,    \* calls that fail although the other node serves
  MaxDepartures   \* servers that leave

Clients == Nodes \ Servers

ASSUME NetworkAssumption ==
  /\ Servers \subseteq Nodes
  /\ Publishers \cup Seekers \subseteq Clients
  /\ listens \in [Servers -> Addrs]
  /\ \A m, n \in Servers : listens[m] = listens[n] => m = n
  /\ addr \in [Nodes -> Addrs]
  /\ seeds \in [Nodes -> Seq(Addrs)]
  /\ \A c \in Clients : seeds[c] # <<>>
  /\ routing_keys \in Seq(Hash) \ {<<>>}
  /\ Targets \subseteq ToSet(routing_keys)
  /\ alpha \in Nat \ {0}
  /\ {MaxOps, MaxFailures, MaxDepartures} \subseteq Nat

VARIABLES
  table,      \* the routing table of each node
  held,       \* the nodes with the descriptor in their store
  up,         \* servers that have not left
  job,        \* what each node is doing
  failures    \* calls that have failed although the other node served

vars == <<table, held, up, job, failures>>

Phases == {"ping", "join", "idle", "query", "all", "direct_find",
           "locate", "place", "direct_store"}

Results == {"none", "found", "nothing", "stored", "refused", "error"}

Job ==
  [phase : Phases,
   queue : Seq(Addrs),         \* addresses still to contact
   keys : Seq(Hash),           \* the target, and the targets after it
   known : Seq(NodeInfo),      \* candidates, targets
   queried : SUBSET Nodes,
   new_nodes : Seq(NodeInfo),  \* nodes heard of in this round
   hit : BOOLEAN,              \* a descriptor collected, a STORE accepted
   result : Results,           \* of the last operation
   ops : 0..MaxOps,            \* operations begun
   holders : SUBSET Nodes,     \* history: held when the fallback began
   unanswered : SUBSET Servers]\* history: servers the fallback had no answer of

\* Tables, stores and jobs keep their type.
TypeOK ==
  /\ table \in [Nodes -> Tables]
  /\ held \subseteq Nodes
  /\ up \subseteq Servers
  /\ job \in [Nodes -> Job]
  /\ failures \in 0..MaxFailures

Idle(ops, result) ==
  [phase |-> "idle", queue |-> <<>>, keys |-> <<>>, known |-> <<>>,
   queried |-> {}, new_nodes |-> <<>>, hit |-> FALSE, result |-> result,
   ops |-> ops, holders |-> {}, unanswered |-> {}]

Init ==
  /\ table = [n \in Nodes |-> EmptyTable]
  /\ held = {}
  /\ up = Servers
  /\ job = [n \in Nodes |->
              [Idle(0, "none") EXCEPT !.phase = "ping", !.queue = seeds[n]]]
  /\ failures = 0

-----------------------------------------------------------------------------
(* Requests and their handlers.                                             *)

\* A server listens once its bootstrap is over.
Serving == {m \in up : job[m].phase = "idle"}

At(a) == {m \in Serving : listens[m] = a}

\* update_routing_table at m for a request of n.
AfterRequest(m, n) == add_node(table[m], m, [node |-> n, addr |-> addr[n]])

handle_find_node(m, n, target) ==
  LET nodes == closest_nodes(AfterRequest(m, n), target, K)
  IN IF m \notin NodesOf(nodes) /\ Len(nodes) < K
       THEN Append(nodes, [node |-> m, addr |-> addr[m]])
       ELSE nodes

\* The nodes of the answer; there are none when descriptors are returned.
handle_find_value(m, n, key) ==
  IF m \in held THEN <<>> ELSE closest_nodes(AfterRequest(m, n), key, K)

\* m answers n, whose table becomes b and whose job becomes j.
Answered(n, m, b, j) ==
  /\ table' = [table EXCEPT ![m] = AfterRequest(m, n), ![n] = b]
  /\ job' = [job EXCEPT ![n] = j]
  /\ UNCHANGED <<up, failures>>

\* The call of n to address a fails before any handler runs.
NotHandled(n, a, j) ==
  /\ IF At(a) = {} THEN UNCHANGED failures
     ELSE failures < MaxFailures /\ failures' = failures + 1
  /\ job' = [job EXCEPT ![n] = j]
  /\ UNCHANGED <<table, held, up>>

\* The handler of m runs, and its answer does not reach n.
AnswerLost(n, m, j) ==
  /\ failures < MaxFailures
  /\ failures' = failures + 1
  /\ table' = [table EXCEPT ![m] = AfterRequest(m, n)]
  /\ job' = [job EXCEPT ![n] = j]
  /\ UNCHANGED up

NoAnswer(n, a, j) ==
  \/ NotHandled(n, a, j)
  \/ \E m \in At(a) : AnswerLost(n, m, j) /\ UNCHANGED held

\* The same for a STORE, which the store of m accepts or rejects.
StoreAt(m, accepted) == held' = IF accepted THEN held \cup {m} ELSE held

StoreUnacknowledged(n, a, j) ==
  \/ NotHandled(n, a, j)
  \/ \E m \in At(a), accepted \in BOOLEAN :
       AnswerLost(n, m, j) /\ StoreAt(m, accepted)

\* A step between two calls.
Internal(n, j) ==
  /\ job' = [job EXCEPT ![n] = j]
  /\ UNCHANGED <<table, up, failures>>

Contact(n) == Head(job[n].queue)

Dequeued(n) == [job[n] EXCEPT !.queue = Tail(@)]

In(n, phase) == job[n].phase = phase /\ job[n].queue # <<>>

Through(n, phase) == job[n].phase = phase /\ job[n].queue = <<>>

\* Mutation: identities in the place of addresses.
AddrsOf_Nodes(infos) == [p \in 1..Len(infos) |-> infos[p].node]

AddrsOf(infos) == [p \in 1..Len(infos) |-> infos[p].addr]

\* The entries of other nodes, in order.
Without(infos, nodes) ==
  FlattenSeq([p \in 1..Len(infos) |->
                IF infos[p].node \in nodes THEN <<>> ELSE <<infos[p]>>])

-----------------------------------------------------------------------------
(* bootstrap: PING and FIND_NODE for the own id at each seed.               *)

PingSeed(n) ==
  /\ In(n, "ping")
  /\ LET a == Contact(n)
         j == [job[n] EXCEPT !.phase = "join"]
     IN \/ \E m \in At(a) :
             /\ Answered(n, m, add_node(table[n], n, [node |-> m, addr |-> a]), j)
             /\ UNCHANGED held
        \/ NoAnswer(n, a, j)

JoinSeed(n) ==
  /\ In(n, "join")
  /\ LET a == Contact(n)
         j == [Dequeued(n) EXCEPT !.phase = "ping"]
     IN \/ \E m \in At(a) :
             /\ Answered(n, m,
                  AddAll(table[n], n, handle_find_node(m, n, node_id[n])), j)
             /\ UNCHANGED held
        \/ NoAnswer(n, a, j)

Booted(n) ==
  /\ Through(n, "ping")
  /\ Internal(n, Idle(0, "none"))
  /\ UNCHANGED held

-----------------------------------------------------------------------------
(* lookup_value, in discover_from.                                          *)

\* Mutation: nodes are not remembered as queried.
NextRound_Forgets(j) ==
  LET todo == Without(j.known, j.queried)
  IN [j EXCEPT !.phase = "query", !.queue = AddrsOf(Take(todo, alpha)),
               !.new_nodes = <<>>]

\* The next round: the first alpha candidates not yet queried.
NextRound(j) ==
  LET todo == Without(j.known, j.queried)
      batch == Take(todo, alpha)
  IN [j EXCEPT !.phase = "query", !.queue = AddrsOf(batch),
               !.queried = @ \cup NodesOf(batch), !.new_nodes = <<>>]

\* Mutation: nodes queried in a round are not asked again.
Fallback_SkipsQueried(n, j) ==
  LET rest == Without(all_nodes(table[n]), j.queried)
  IN [j EXCEPT !.phase = "all", !.known = <<>>, !.queried = {}, !.new_nodes = <<>>,
               !.queue = IF Len(all_nodes(table[n])) <= K THEN AddrsOf(rest) ELSE <<>>,
               !.holders = held]

\* The small-network fallback: ask every node of the table.
Fallback(n, j) ==
  LET all == all_nodes(table[n])
  IN [j EXCEPT !.phase = "all", !.known = <<>>, !.queried = {}, !.new_nodes = <<>>,
               !.queue = IF Len(all) <= K THEN AddrsOf(all) ELSE <<>>,
               !.holders = held]

StartLookup(n, key) ==
  /\ n \in Seekers
  /\ job[n].phase = "idle" /\ job[n].ops < MaxOps
  /\ Internal(n, NextRound(
       [Idle(job[n].ops + 1, "none") EXCEPT
          !.keys = <<key>>, !.known = closest_nodes(table[n], key, alpha)]))
  /\ UNCHANGED held

QueryNode(n) ==
  /\ In(n, "query")
  /\ LET a == Contact(n)
         j == Dequeued(n)
     IN \/ \E m \in At(a) :
             LET nodes == handle_find_value(m, n, Head(j.keys))
             IN /\ Answered(n, m, AddAll(table[n], n, nodes),
                     [j EXCEPT !.hit = @ \/ m \in held,
                               !.new_nodes = @ \o nodes])
                /\ UNCHANGED held
        \/ NoAnswer(n, a, j)

\* Candidates are merged without a look for duplicates, sorted, cut to K.
EndRound(n) ==
  /\ Through(n, "query")
  /\ LET j == job[n]
         merged == ByDistance(Head(j.keys), j.known \o j.new_nodes)
     IN Internal(n,
          CASE j.hit -> Idle(j.ops, "found")
            [] ~j.hit /\ j.new_nodes = <<>> -> Fallback(n, j)
            [] OTHER ->
                 LET next == NextRound([j EXCEPT !.known = Take(merged, K)])
                 IN IF next.queue = <<>> THEN Fallback(n, j) ELSE next)
  /\ UNCHANGED held

AskAll(n) ==
  /\ In(n, "all")
  /\ LET a == Contact(n)
         j == Dequeued(n)
     IN \/ \E m \in At(a) :
             /\ Answered(n, m, table[n],
                  IF m \in held THEN Idle(j.ops, "found") ELSE j)
             /\ UNCHANGED held
        \/ NoAnswer(n, a, [j EXCEPT !.unanswered =
                             @ \cup {m \in Servers : listens[m] = a}])

\* The lookup found nothing: discover_from turns to its target, the seed.
NothingFound(n) ==
  /\ Through(n, "all")
  /\ Internal(n, [job[n] EXCEPT !.phase = "direct_find",
                                !.queue = <<Head(seeds[n])>>])
  /\ UNCHANGED held

FindDirectly(n) ==
  /\ In(n, "direct_find")
  /\ LET a == Contact(n)
         ops == job[n].ops
     IN \/ \E m \in At(a) :
             /\ Answered(n, m, table[n],
                  Idle(ops, IF m \in held THEN "found" ELSE "nothing"))
             /\ UNCHANGED held
        \/ NoAnswer(n, a, Idle(ops, "error"))

-----------------------------------------------------------------------------
(* iterative_store, in publish.                                             *)

\* The first routing key left: alpha of the closest nodes are asked for others.
Locate(n, j) ==
  LET closest == closest_nodes(table[n], Head(j.keys), K)
  IN [j EXCEPT !.phase = "locate", !.known = closest,
               !.queue = AddrsOf(Take(closest, alpha))]

StartPublish(n) ==
  /\ n \in Publishers
  /\ job[n].phase = "idle" /\ job[n].ops < MaxOps
  /\ Internal(n, Locate(n, [Idle(job[n].ops + 1, "none") EXCEPT
                              !.keys = routing_keys]))
  /\ UNCHANGED held

LocateNode(n) ==
  /\ In(n, "locate")
  /\ LET a == Contact(n)
         j == Dequeued(n)
     IN \/ \E m \in At(a) :
             LET nodes == handle_find_node(m, n, Head(j.keys))
                 others == Without(nodes, NodesOf(j.known))
             IN /\ Answered(n, m, AddAll(table[n], n, nodes),
                     [j EXCEPT !.known = @ \o others])
                /\ UNCHANGED held
        \/ NoAnswer(n, a, j)

\* The K nearest targets, the node itself counted and then skipped.
EndLocate(n) ==
  /\ Through(n, "locate")
  /\ LET j == job[n]
         targets == Take(ByDistance(Head(j.keys), j.known), K)
     IN Internal(n, [j EXCEPT !.phase = "place", !.known = <<>>,
                       !.queue = AddrsOf(Without(targets, {n}))])
  /\ UNCHANGED held

\* Mutation: every STORE_ACK counts, accepted or not.
PlaceAt_AnyAnswer(n) ==
  /\ In(n, "place")
  /\ LET a == Contact(n)
         j == Dequeued(n)
     IN \/ \E m \in At(a), accepted \in BOOLEAN :
             /\ Answered(n, m, table[n], [j EXCEPT !.hit = TRUE])
             /\ StoreAt(m, accepted)
        \/ StoreUnacknowledged(n, a, j)

PlaceAt(n) ==
  /\ In(n, "place")
  /\ LET a == Contact(n)
         j == Dequeued(n)
     IN \/ \E m \in At(a), accepted \in BOOLEAN :
             /\ Answered(n, m, table[n], [j EXCEPT !.hit = @ \/ accepted])
             /\ StoreAt(m, accepted)
        \/ StoreUnacknowledged(n, a, j)

\* On to the next routing key; after the last one the descriptor is stored
\* locally, and publish turns to its target when no STORE was accepted.
EndPlace(n) ==
  /\ Through(n, "place")
  /\ LET j == [job[n] EXCEPT !.keys = Tail(@)]
     IN IF j.keys # <<>>
          THEN Internal(n, Locate(n, j)) /\ UNCHANGED held
          ELSE /\ Internal(n, IF j.hit THEN Idle(j.ops, "stored")
                              ELSE [j EXCEPT !.phase = "direct_store",
                                             !.queue = <<Head(seeds[n])>>])
               /\ StoreAt(n, TRUE)

StoreDirectly(n) ==
  /\ In(n, "direct_store")
  /\ LET a == Contact(n)
         ops == job[n].ops
     IN \/ \E m \in At(a), accepted \in BOOLEAN :
             /\ Answered(n, m, table[n],
                  Idle(ops, IF accepted THEN "stored" ELSE "refused"))
             /\ StoreAt(m, accepted)
        \/ StoreUnacknowledged(n, a, Idle(ops, "error"))

-----------------------------------------------------------------------------

Depart(m) ==
  /\ m \in up
  /\ Cardinality(Servers \ up) < MaxDepartures
  /\ up' = up \ {m}
  /\ UNCHANGED <<table, held, job, failures>>

Work(n) ==
  /\ n \in Clients \cup up
  /\ \/ PingSeed(n) \/ JoinSeed(n) \/ Booted(n)
     \/ QueryNode(n) \/ EndRound(n) \/ AskAll(n) \/ NothingFound(n) \/ FindDirectly(n)
     \/ LocateNode(n) \/ EndLocate(n) \/ PlaceAt(n) \/ EndPlace(n) \/ StoreDirectly(n)

Next ==
  \/ \E n \in Nodes :
       \/ Work(n)
       \/ \E key \in Targets : StartLookup(n, key)
       \/ StartPublish(n)
  \/ \E m \in Servers : Depart(m)

Spec == Init /\ [][Next]_vars

\* A node goes on with its job: every call ends, with an answer or an error.
\* Busy(n) is the condition under which Work(n) is enabled, and only Work(n)
\* changes the job of a busy node: this is weak fairness of Work(n).
Busy(n) == job[n].phase # "idle" /\ n \in Clients \cup up

FairSpec ==
  Spec /\ \A n \in Nodes : []<>~Busy(n) \/ []<><<job'[n] # job[n]>>_vars

-----------------------------------------------------------------------------
(* Properties.                                                              *)

\* However requests, answers and bootstraps interleave, each table keeps every
\* node in the bucket of its distance and once only, no more than K to a
\* bucket, and never its own node (routing.rs, add_node).
TablesWellFormed == \A n \in Nodes : WellFormed(table[n], n)

\* A server that serves is not displaced from a table by a newcomer, whoever
\* sends it: requests, and the answers that lookups and bootstraps merge in
\* (node.rs, update_routing_table; PROTOCOL.md 4.3: the least recently seen
\* entry of a full bucket stays if it responds).  Of entries that would not
\* respond nothing is said: 4.3 evicts them, the code keeps them.
AnsweringServersStay ==
  [][\A n \in Nodes : Known(table[n]) \cap Serving \subseteq Known(table'[n])]_vars

\* A lookup that finds nothing in a table of at most K nodes has asked each of
\* them again after the rounds: a server of the table that held the
\* descriptor then has left its call unanswered (node.rs, lookup_value, the
\* small-network fallback).
EmptyLookupExplained ==
  \A n \in Nodes :
    LET all == all_nodes(table[n])
    IN (job[n].phase = "direct_find" /\ Len(all) <= K) =>
         \A m \in job[n].holders \cap Servers :
           (\E p \in 1..Len(all) : all[p].addr = listens[m])
             => m \in job[n].unanswered

\* publish reports success only if a node that answers queries has the
\* descriptor; the publisher's own copy does not count (mesh-client, publish;
\* node.rs, iterative_store).
PublishedIsHeld ==
  \A n \in Nodes :
    (job[n].hit \/ job[n].result = "stored") /\ job[n].phase # "query"
      => held \cap Servers # {}

\* No node is asked in two rounds of a lookup, and no round is without a node
\* to ask, so the rounds end; every bootstrap, lookup and publish does,
\* whatever nodes leave and calls fail (node.rs, lookup_value).
JobsEnd ==
  \A n \in Nodes :
    job[n].phase # "idle" ~> ~Busy(n)

\* PING adds a seed under the address it was reached at, so that the node can
\* query it directly (the comment in bootstrap).
SeedIsQueriable ==
  \A n \in Nodes : \A i \in Indexes : \A p \in 1..Len(table[n][i]) :
    LET e == table[n][i][p]
    IN (e.node \in Servers /\ listens[e.node] \in ToSet(seeds[n]))
         => e.addr = listens[e.node]
=============================================================================
