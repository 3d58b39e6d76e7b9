----------------------------- MODULE HubGossip -----------------------------
(***************************************************************************)
(* Hubs that replicate their catalogs.  The gossip task of a hub takes a   *)
(* snapshot of its catalog, then its PeerManager mutex, and keeps the      *)
(* mutex while it sends the snapshot to one peer after the other, waiting  *)
(* for each answer; the health-check task does the same with PINGs.  The   *)
(* handler of every request a hub receives, from a peer or a client, needs *)
(* the same mutex for a moment before it can answer.                       *)
(*                                                                         *)
(* The horizon is shorter than any ttl, so every descriptor stays valid;   *)
(* every hub knows the others as peers, so their STOREs go past the hooks  *)
(* and limits.  A call may fail while its handler still runs: the handler  *)
(* is then on its own, and stores what it was sent all the same.           *)
(***************************************************************************)
EXTENDS Descriptors

CONSTANTS
  Hubs,
  Peering,           \* hubs that run with peering enabled
  Links,             \* <<a, b>>: a holds a connection to its peer b
  Rank,              \* the order of ids in the DESCRIPTORS table
  Ping,              \* the body of a PING
  Free,              \* an unlocked mutex
  Client,            \* the caller of a request nobody waits for
  MAX_GOSSIP_BATCH,
  MaxBreaks          \* bound on the calls that fail

Tasks == {"gossip", "health"}

Bodies == Descriptors \cup {Ping}

ASSUME NamesAssumption ==
  /\ Peering \subseteq Hubs /\ Links \subseteq Hubs \X Hubs
  /\ Ping \notin Descriptors /\ Free \notin Tasks /\ Client \notin Hubs

ASSUME RankAssumption ==
  /\ Rank \in [Ids -> Nat]
  /\ \A i, j \in Ids : Rank[i] = Rank[j] => i = j

\* Within the horizon no descriptor expires, and none is from the future.
ASSUME ValidAssumption == \A d \in Descriptors : validate(d, 0)

ASSUME BoundsAssumption == MAX_GOSSIP_BATCH \in Nat /\ MaxBreaks \in Nat

VARIABLES
  catalog,    \* hub -> its descriptors, one per slot
  published,  \* descriptors clients have published so far
  lock,       \* hub -> the task that holds its PeerManager mutex, or Free
  task,       \* hub, task -> where it is in its round
  handlers,   \* requests received and not yet answered
  breaks      \* calls that may still fail

vars == <<catalog, published, lock, task, handlers, breaks>>

\* A round: the bodies to send to each peer, the peers not yet begun, and what
\* is left for the current one.
Rounds ==
  [pc : {"sleep", "lock", "send", "await"}, batch : SUBSET Bodies,
   left : SUBSET Hubs, peer : Hubs, rest : SUBSET Bodies]

\* The requests that can be under way.
Requests ==
  {r \in [from : Hubs \cup {Client}, by : Tasks, to : Hubs, body : Bodies] :
     /\ r.from = Client \/ <<r.from, r.to>> \in Links
     /\ r.by = "health" <=> r.body = Ping}

\* Catalogs, mutexes, tasks and calls keep their type.
TypeOK ==
  /\ catalog \in [Hubs -> SUBSET Descriptors]
  /\ published \subseteq Descriptors
  /\ lock \in [Hubs -> Tasks \cup {Free}]
  /\ task \in [Hubs -> [Tasks -> Rounds]]
  /\ handlers \subseteq Requests
  /\ breaks \in 0..MaxBreaks

Asleep(h) == [pc |-> "sleep", batch |-> {}, left |-> {}, peer |-> h, rest |-> {}]

Init ==
  /\ catalog = [h \in Hubs |-> {}]
  /\ published = {}
  /\ lock = [h \in Hubs |-> Free]
  /\ task = [h \in Hubs |-> [t \in Tasks |-> Asleep(h)]]
  /\ handlers = {}
  /\ breaks = MaxBreaks

-----------------------------------------------------------------------------

\* Mutation: whatever arrives last is kept.
Merge_LastWins(held, d) == {e \in held : DedupKey(e) # DedupKey(d)} \cup {d}

\* store_descriptor on the receiving hub: a stale version is refused, any other
\* replaces the version of its slot.
Merge(held, d) ==
  IF \E e \in held : DedupKey(e) = DedupKey(d) /\ d.sequence < e.sequence
  THEN held
  ELSE {e \in held : DedupKey(e) # DedupKey(d)} \cup {d}

\* The first n descriptors in the order of the table.
FirstOf(held, n) ==
  {d \in held : Cardinality({e \in held : Rank[e.id] < Rank[d.id]}) < n}

\* The next body to send: descriptors go in the order of the table.
IsNext(body, rest) ==
  /\ body \in rest
  /\ \A e \in rest \ {body, Ping} : body # Ping => Rank[body.id] < Rank[e.id]

\* Mutation: peers without a connection are not left out.
PeersOf_Any(h) == Hubs

PeersOf(h) == {g \in Hubs : <<h, g>> \in Links}

\* The pre-check of handle_protocol_request gets the mutex.
MayAnswer(h) == h \in Peering => lock[h] = Free

-----------------------------------------------------------------------------
(* The tasks of a hub with peering enabled.                                 *)

\* Mutation: the first descriptors are skipped instead of taken.
Begin_Skips(h, t) ==
  /\ h \in Peering
  /\ task[h][t].pc = "sleep"
  /\ LET batch == IF t = "gossip"
                  THEN catalog[h] \ FirstOf(catalog[h], MAX_GOSSIP_BATCH)
                  ELSE {Ping}
     IN /\ batch # {}
        /\ task' = [task EXCEPT ![h][t].pc = "lock", ![h][t].batch = batch]
  /\ UNCHANGED <<catalog, published, lock, handlers, breaks>>

\* run_gossip_round reads the catalog before it asks for the mutex, and
\* returns when there is nothing to send; run_health_check has nothing to read.
Begin(h, t) ==
  /\ h \in Peering
  /\ task[h][t].pc = "sleep"
  /\ LET batch == IF t = "gossip" THEN FirstOf(catalog[h], MAX_GOSSIP_BATCH)
                                  ELSE {Ping}
     IN /\ batch # {}
        /\ task' = [task EXCEPT ![h][t].pc = "lock", ![h][t].batch = batch]
  /\ UNCHANGED <<catalog, published, lock, handlers, breaks>>

Acquire(h, t) ==
  /\ task[h][t].pc = "lock"
  /\ lock[h] = Free
  /\ lock' = [lock EXCEPT ![h] = t]
  /\ task' = [task EXCEPT ![h][t].pc = "send", ![h][t].left = PeersOf(h)]
  /\ UNCHANGED <<catalog, published, handlers, breaks>>

\* The next peer of the round.
NextPeer(h, t) ==
  /\ task[h][t].pc = "send"
  /\ task[h][t].rest = {}
  /\ \E g \in task[h][t].left :
       task' = [task EXCEPT ![h][t].peer = g, ![h][t].left = @ \ {g},
                            ![h][t].rest = task[h][t].batch]
  /\ UNCHANGED <<catalog, published, lock, handlers, breaks>>

\* send_request, up to the wait for the answer.
Send(h, t) ==
  /\ task[h][t].pc = "send"
  /\ \E body \in task[h][t].rest :
       /\ IsNext(body, task[h][t].rest)
       /\ task' = [task EXCEPT ![h][t].pc = "await", ![h][t].rest = @ \ {body}]
       /\ handlers' = handlers \cup
            {[from |-> h, by |-> t, to |-> task[h][t].peer, body |-> body]}
  /\ UNCHANGED <<catalog, published, lock, breaks>>

\* The connection breaks during the call and the task goes on.  The request is
\* lost, or its handler stays behind.
CallFails(h, t) ==
  /\ task[h][t].pc = "await"
  /\ breaks > 0
  /\ breaks' = breaks - 1
  /\ task' = [task EXCEPT ![h][t].pc = "send"]
  /\ LET call == {r \in handlers : r.from = h /\ r.by = t} IN
     \/ handlers' = handlers \ call
     \/ handlers' = (handlers \ call) \cup {[r EXCEPT !.from = Client] : r \in call}
  /\ UNCHANGED <<catalog, published, lock>>

\* Mutation: the mutex is not released when the round ends.
Finish_KeepsLock(h, t) ==
  /\ task[h][t].pc = "send"
  /\ task[h][t].rest = {} /\ task[h][t].left = {}
  /\ task' = [task EXCEPT ![h][t] = Asleep(h)]
  /\ UNCHANGED <<catalog, published, lock, handlers, breaks>>

Finish(h, t) ==
  /\ task[h][t].pc = "send"
  /\ task[h][t].rest = {} /\ task[h][t].left = {}
  /\ task' = [task EXCEPT ![h][t] = Asleep(h)]
  /\ lock' = [lock EXCEPT ![h] = Free]
  /\ UNCHANGED <<catalog, published, handlers, breaks>>

-----------------------------------------------------------------------------
(* handle_protocol_request.                                                 *)

\* Mutation: the caller is not woken up.
Answered_Ignored(r) == task

\* The caller, if it still waits, gets its answer.
Answered(r) ==
  IF r.from = Client THEN task ELSE [task EXCEPT ![r.from][r.by].pc = "send"]

Handle(r) ==
  /\ MayAnswer(r.to)
  /\ handlers' = handlers \ {r}
  /\ task' = Answered(r)
  /\ catalog' = IF r.body = Ping THEN catalog
                ELSE [catalog EXCEPT ![r.to] = Merge(@, r.body)]
  /\ UNCHANGED <<published, lock, breaks>>

\* A client's STORE; a descriptor is published once.
Publish(h, d) ==
  /\ d \notin published
  /\ MayAnswer(h)
  /\ published' = published \cup {d}
  /\ catalog' = [catalog EXCEPT ![h] = Merge(@, d)]
  /\ UNCHANGED <<lock, task, handlers, breaks>>

TaskStep(h, t) ==
  \/ Begin(h, t)
  \/ Acquire(h, t)
  \/ NextPeer(h, t)
  \/ Send(h, t)
  \/ Finish(h, t)

Next ==
  \/ \E h \in Hubs, t \in Tasks : TaskStep(h, t) \/ CallFails(h, t)
  \/ \E r \in handlers : Handle(r)
  \/ \E h \in Hubs, d \in Descriptors : Publish(h, d)

Spec == Init /\ [][Next]_vars

\* Tasks are loops around a sleep; tokio's mutex serves its waiters in order,
\* so tasks and handlers that wait for it get it if it is released again and
\* again.
FairSpec ==
  /\ Spec
  /\ \A h \in Hubs, t \in Tasks :
       SF_vars(Acquire(h, t)) /\ WF_vars(TaskStep(h, t))
  /\ \A h \in Hubs : SF_vars(\E r \in handlers : r.to = h /\ Handle(r))

-----------------------------------------------------------------------------
(* Safety.                                                                  *)

\* The mutex of a hub is held exactly by the task that is in its round, calls
\* that fail and handlers included.
LockHeldByRound ==
  \A h \in Hubs, t \in Tasks : lock[h] = t <=> task[h][t].pc \in {"send", "await"}

\* A task that awaits an answer has exactly one request under way, to its
\* current peer; no other request names it as its caller.
OneCallPerRound ==
  \A h \in Hubs, t \in Tasks :
    LET calls == {r \in handlers : r.from = h /\ r.by = t} IN
    IF task[h][t].pc = "await"
    THEN \E r \in calls : calls = {r} /\ r.to = task[h][t].peer
    ELSE calls = {}

\* No hub ever trades a version for an older one, although snapshots are taken
\* before the mutex is waited for and handlers left behind deliver them late.
VersionsNeverRegress ==
  [][\A h \in Hubs : \A d \in catalog[h] :
       \E e \in catalog'[h] : DedupKey(e) = DedupKey(d) /\ e.sequence >= d.sequence]_vars

(* Liveness, under FairSpec.                                                *)

\* run_gossip_round replicates to the peers: what stays among the first
\* MAX_GOSSIP_BATCH descriptors of a hub's table, each of its peers gets, or has
\* a version that is as new.  Of the rest of the table nothing is said: the
\* code never sends it, although its comment speaks of the full descriptor set.
GossipDelivers ==
  \A a, b \in Hubs : \A d \in Descriptors :
    <<a, b>> \in Links /\ a \in Peering =>
      (<>[](d \in FirstOf(catalog[a], MAX_GOSSIP_BATCH)) =>
         []<>(\E e \in catalog[b] : DedupKey(e) = DedupKey(d) /\ e.sequence >= d.sequence))

\* Every round of gossip and of health checks comes to its end, so the next one
\* can begin and the mutex is free again for the requests of clients.
RoundsEnd ==
  \A h \in Hubs, t \in Tasks : []<>(task[h][t].pc = "sleep")
=============================================================================
