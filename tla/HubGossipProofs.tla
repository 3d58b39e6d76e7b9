-------------------------- MODULE HubGossipProofs --------------------------
(***************************************************************************)
(* Proofs about HubGossip, for any hubs, links, catalogs and number of     *)
(* failing calls.                                                          *)
(*                                                                         *)
(* The mutex and the calls depend on each other: an answer moves a task    *)
(* from await to send only if it is the answer of the call the task waits  *)
(* for, and a task has a call under way only while it holds its mutex.  So *)
(* LockHeldByRound and OneCallPerRound are inductive together, with what a *)
(* round may contain.                                                      *)
(***************************************************************************)
EXTENDS HubGossip, FiniteSetTheorems, WellFoundedInduction, TLAPS

BodiesOf(t) == IF t = "gossip" THEN Descriptors ELSE {Ping}

\* What a round of task t of hub h holds: bodies of its own kind, peers it has
\* a connection to.
RoundOf(h, t, q) ==
  /\ q \in Rounds
  /\ q.batch \subseteq BodiesOf(t) /\ q.rest \subseteq BodiesOf(t)
  /\ q.left \subseteq PeersOf(h)
  /\ q.rest # {} \/ q.pc = "await" => <<h, q.peer>> \in Links

RoundsOK == \A h \in Hubs, t \in Tasks : RoundOf(h, t, task[h][t])

Inv == TypeOK /\ RoundsOK /\ LockHeldByRound /\ OneCallPerRound

InRound == {"send", "await"}

CallsOf(hs, h, t) == {r \in hs : r.from = h /\ r.by = t}

-----------------------------------------------------------------------------

\* Merging a descriptor into a catalog keeps it a catalog and never loses a
\* slot or trades a version for an older one.
LEMMA MergeKeeps ==
  ASSUME NEW held \in SUBSET Descriptors, NEW d \in Descriptors
  PROVE  /\ Merge(held, d) \in SUBSET Descriptors
         /\ \A e \in held : \E f \in Merge(held, d) :
              DedupKey(f) = DedupKey(e) /\ f.sequence >= e.sequence
<1>1. \A e \in Descriptors : e.sequence \in Nat
  BY DescriptorsAssumption DEF Descriptor
<1>2. CASE \E e \in held : DedupKey(e) = DedupKey(d) /\ d.sequence < e.sequence
  BY <1>1, <1>2 DEF Merge
<1>3. CASE ~\E e \in held : DedupKey(e) = DedupKey(d) /\ d.sequence < e.sequence
  <2>1. Merge(held, d) = {e \in held : DedupKey(e) # DedupKey(d)} \cup {d}
    BY <1>3 DEF Merge
  <2>2. ASSUME NEW e \in held
        PROVE  \E f \in Merge(held, d) :
                 DedupKey(f) = DedupKey(e) /\ f.sequence >= e.sequence
    <3>1. CASE DedupKey(e) = DedupKey(d)
      BY <1>1, <1>3, <2>1, <3>1
    <3>2. CASE DedupKey(e) # DedupKey(d)
      BY <1>1, <2>1, <3>2
    <3> QED
      BY <3>1, <3>2
  <2> QED
    BY <2>1, <2>2
<1> QED
  BY <1>2, <1>3

\* A step that changes the round of one task, to one it may have, keeps the
\* rounds of all.
LEMMA OneTask ==
  ASSUME Inv, NEW h \in Hubs, NEW t \in Tasks, NEW q, RoundOf(h, t, q),
         task' = [task EXCEPT ![h][t] = q]
  PROVE  /\ task' \in [Hubs -> [Tasks -> Rounds]]
         /\ RoundsOK'
         /\ task'[h][t] = q
         /\ \A g \in Hubs, u \in Tasks : <<g, u>> # <<h, t>> => task'[g][u] = task[g][u]
<1>1. task \in [Hubs -> [Tasks -> Rounds]] /\ q \in Rounds
  BY DEF Inv, TypeOK, RoundOf
<1>2. task' \in [Hubs -> [Tasks -> Rounds]] /\ task'[h][t] = q
  BY <1>1
<1>3. \A g \in Hubs, u \in Tasks : <<g, u>> # <<h, t>> => task'[g][u] = task[g][u]
  BY <1>1
<1>4. RoundsOK'
  <2> SUFFICES ASSUME NEW g \in Hubs, NEW u \in Tasks
               PROVE  RoundOf(g, u, task'[g][u])
    BY DEF RoundsOK
  <2>1. CASE <<g, u>> = <<h, t>>
    BY <1>2, <2>1
  <2>2. CASE <<g, u>> # <<h, t>>
    BY <1>3, <2>2 DEF Inv, RoundsOK
  <2> QED
    BY <2>1, <2>2
<1> QED
  BY <1>2, <1>3, <1>4

\* A step inside or outside the round of one task, the mutexes untouched.
LEMMA LockStays ==
  ASSUME Inv, NEW h \in Hubs, NEW t \in Tasks, NEW q, lock' = lock,
         task'[h][t] = q, q.pc \in InRound <=> task[h][t].pc \in InRound,
         \A g \in Hubs, u \in Tasks : <<g, u>> # <<h, t>> => task'[g][u] = task[g][u]
  PROVE  LockHeldByRound'
<1> SUFFICES ASSUME NEW g \in Hubs, NEW u \in Tasks
             PROVE  lock'[g] = u <=> task'[g][u].pc \in InRound
  BY DEF LockHeldByRound, InRound
<1>1. lock[g] = u <=> task[g][u].pc \in InRound
  BY DEF Inv, LockHeldByRound, InRound
<1>2. CASE <<g, u>> = <<h, t>>
  BY <1>1, <1>2
<1>3. CASE <<g, u>> # <<h, t>>
  BY <1>1, <1>3
<1> QED
  BY <1>2, <1>3

\* A step of a task that is not awaiting an answer before or after it, and that
\* sends nothing.
LEMMA CallsStay ==
  ASSUME Inv, NEW h \in Hubs, NEW t \in Tasks, NEW q, handlers' = handlers,
         task'[h][t] = q, q.pc # "await", task[h][t].pc # "await",
         \A g \in Hubs, u \in Tasks : <<g, u>> # <<h, t>> => task'[g][u] = task[g][u]
  PROVE  OneCallPerRound'
<1> SUFFICES ASSUME NEW g \in Hubs, NEW u \in Tasks
             PROVE  IF task'[g][u].pc = "await"
                    THEN \E r \in CallsOf(handlers, g, u) :
                           CallsOf(handlers, g, u) = {r} /\ r.to = task'[g][u].peer
                    ELSE CallsOf(handlers, g, u) = {}
  BY DEF OneCallPerRound, CallsOf
<1>1. IF task[g][u].pc = "await"
      THEN \E r \in CallsOf(handlers, g, u) :
             CallsOf(handlers, g, u) = {r} /\ r.to = task[g][u].peer
      ELSE CallsOf(handlers, g, u) = {}
  BY DEF Inv, OneCallPerRound, CallsOf
<1>2. CASE <<g, u>> = <<h, t>>
  BY <1>1, <1>2
<1>3. CASE <<g, u>> # <<h, t>>
  BY <1>1, <1>3
<1> QED
  BY <1>2, <1>3

-----------------------------------------------------------------------------
(* The steps of a task.                                                     *)

\* Begin: the snapshot of the catalog, or a PING, becomes the batch.
LEMMA BeginInv ==
  ASSUME Inv, NEW h \in Hubs, NEW t \in Tasks, Begin(h, t)
  PROVE  Inv'
<1>1. PICK batch :
        /\ batch = IF t = "gossip" THEN FirstOf(catalog[h], MAX_GOSSIP_BATCH) ELSE {Ping}
        /\ task' = [task EXCEPT ![h][t].pc = "lock", ![h][t].batch = batch]
  BY DEF Begin
<1>2. batch \subseteq BodiesOf(t) /\ batch \in SUBSET Bodies
  BY <1>1 DEF BodiesOf, FirstOf, Bodies, Inv, TypeOK
<1>3. PICK q : q = [task[h][t] EXCEPT !.pc = "lock", !.batch = batch]
  OBVIOUS
<1>4. RoundOf(h, t, task[h][t]) /\ task[h][t].pc = "sleep"
  BY DEF Inv, RoundsOK, Begin
<1>5. RoundOf(h, t, q) /\ q.pc = "lock"
  BY <1>2, <1>3, <1>4 DEF RoundOf, Rounds
<1>6. task' = [task EXCEPT ![h][t] = q]
  BY <1>1, <1>3 DEF Inv, TypeOK
<1>7. UNCHANGED <<catalog, published, lock, handlers, breaks>>
  BY DEF Begin
<1>8. LockHeldByRound' /\ OneCallPerRound'
  BY <1>4, <1>5, <1>6, <1>7, OneTask, LockStays, CallsStay DEF InRound
<1> QED
  BY <1>5, <1>6, <1>7, <1>8, OneTask DEF Inv, TypeOK

\* Acquire: the mutex was free, so no other task of the hub is in its round.
LEMMA AcquireInv ==
  ASSUME Inv, NEW h \in Hubs, NEW t \in Tasks, Acquire(h, t)
  PROVE  Inv'
<1>1. PICK q : q = [task[h][t] EXCEPT !.pc = "send", !.left = PeersOf(h)]
  OBVIOUS
<1>2. RoundOf(h, t, task[h][t]) /\ task[h][t].pc = "lock" /\ lock[h] = Free
  BY DEF Inv, RoundsOK, Acquire
<1>3. PeersOf(h) \in SUBSET Hubs
  BY DEF PeersOf
<1>4. RoundOf(h, t, q) /\ q.pc = "send"
  BY <1>1, <1>2, <1>3 DEF RoundOf, Rounds
<1>5. task' = [task EXCEPT ![h][t] = q]
  BY <1>1 DEF Acquire, Inv, TypeOK
<1>6. lock \in [Hubs -> Tasks \cup {Free}] /\ lock' = [lock EXCEPT ![h] = t]
      /\ UNCHANGED <<catalog, published, handlers, breaks>>
  BY DEF Acquire, Inv, TypeOK
<1>7. OneCallPerRound'
  BY <1>2, <1>4, <1>5, <1>6, OneTask, CallsStay
<1>8. LockHeldByRound'
  <2> SUFFICES ASSUME NEW g \in Hubs, NEW u \in Tasks
               PROVE  lock'[g] = u <=> task'[g][u].pc \in InRound
    BY DEF LockHeldByRound, InRound
  <2>1. lock[g] = u <=> task[g][u].pc \in InRound
    BY DEF Inv, LockHeldByRound, InRound
  <2>2. CASE <<g, u>> = <<h, t>>
    BY <1>4, <1>5, <1>6, <2>2, OneTask DEF InRound
  <2>3. CASE <<g, u>> # <<h, t>>
    <3>1. task'[g][u] = task[g][u]
      BY <1>4, <1>5, <2>3, OneTask
    <3> QED
      BY <1>2, <1>6, <2>1, <2>3, <3>1, NamesAssumption
  <2> QED
    BY <2>2, <2>3
<1> QED
  BY <1>4, <1>5, <1>6, <1>7, <1>8, OneTask DEF Inv, TypeOK

\* NextPeer: the round turns to a peer the hub has a connection to.
LEMMA NextPeerInv ==
  ASSUME Inv, NEW h \in Hubs, NEW t \in Tasks, NextPeer(h, t)
  PROVE  Inv'
<1>1. PICK g \in task[h][t].left :
        task' = [task EXCEPT ![h][t].peer = g, ![h][t].left = @ \ {g},
                             ![h][t].rest = task[h][t].batch]
  BY DEF NextPeer
<1>2. PICK q : q = [task[h][t] EXCEPT !.peer = g, !.left = @ \ {g},
                                      !.rest = task[h][t].batch]
  OBVIOUS
<1>3. RoundOf(h, t, task[h][t]) /\ task[h][t].pc = "send"
  BY DEF Inv, RoundsOK, NextPeer
<1>4. g \in Hubs /\ <<h, g>> \in Links
  BY <1>3 DEF RoundOf, PeersOf
<1>5. RoundOf(h, t, q) /\ q.pc = "send"
  BY <1>2, <1>3, <1>4 DEF RoundOf, Rounds
<1>6. task' = [task EXCEPT ![h][t] = q]
  BY <1>1, <1>2 DEF Inv, TypeOK
<1>7. UNCHANGED <<catalog, published, lock, handlers, breaks>>
  BY DEF NextPeer
<1>8. LockHeldByRound' /\ OneCallPerRound'
  BY <1>3, <1>5, <1>6, <1>7, OneTask, LockStays, CallsStay DEF InRound
<1> QED
  BY <1>5, <1>6, <1>7, <1>8, OneTask DEF Inv, TypeOK

\* Send: the task had no call under way and has one now.
LEMMA SendInv ==
  ASSUME Inv, NEW h \in Hubs, NEW t \in Tasks, Send(h, t)
  PROVE  Inv'
<1>1. PICK body \in task[h][t].rest :
        /\ task' = [task EXCEPT ![h][t].pc = "await", ![h][t].rest = @ \ {body}]
        /\ handlers' = handlers \cup
             {[from |-> h, by |-> t, to |-> task[h][t].peer, body |-> body]}
  BY DEF Send
<1>2. PICK q : q = [task[h][t] EXCEPT !.pc = "await", !.rest = @ \ {body}]
  OBVIOUS
<1>3. PICK r : r = [from |-> h, by |-> t, to |-> task[h][t].peer, body |-> body]
  OBVIOUS
<1>4. RoundOf(h, t, task[h][t]) /\ task[h][t].pc = "send"
  BY DEF Inv, RoundsOK, Send
<1>5. /\ body \in BodiesOf(t) /\ body \in Bodies
      /\ task[h][t].peer \in Hubs /\ <<h, task[h][t].peer>> \in Links
  BY <1>4 DEF RoundOf, Rounds
<1>6. RoundOf(h, t, q) /\ q.pc = "await" /\ q.peer = task[h][t].peer
  BY <1>2, <1>4, <1>5 DEF RoundOf, Rounds
<1>7. task' = [task EXCEPT ![h][t] = q]
  BY <1>1, <1>2 DEF Inv, TypeOK
<1>8. UNCHANGED <<catalog, published, lock, breaks>>
  BY DEF Send
<1>9. r \in Requests
  <2>1. t = "health" <=> body = Ping
    BY <1>5, NamesAssumption DEF BodiesOf, Tasks
  <2> QED
    BY <1>3, <1>5, <2>1 DEF Requests
<1>10. LockHeldByRound'
  BY <1>4, <1>6, <1>7, <1>8, OneTask, LockStays DEF InRound
<1>11. OneCallPerRound'
  <2> SUFFICES ASSUME NEW g \in Hubs, NEW u \in Tasks
               PROVE  IF task'[g][u].pc = "await"
                      THEN \E c \in CallsOf(handlers', g, u) :
                             CallsOf(handlers', g, u) = {c} /\ c.to = task'[g][u].peer
                      ELSE CallsOf(handlers', g, u) = {}
    BY DEF OneCallPerRound, CallsOf
  <2>1. IF task[g][u].pc = "await"
        THEN \E c \in CallsOf(handlers, g, u) :
               CallsOf(handlers, g, u) = {c} /\ c.to = task[g][u].peer
        ELSE CallsOf(handlers, g, u) = {}
    BY DEF Inv, OneCallPerRound, CallsOf
  <2>2. CASE <<g, u>> = <<h, t>>
    <3>1. task'[g][u].pc = "await" /\ task'[g][u].peer = task[h][t].peer
      BY <1>6, <1>7, <2>2, OneTask
    <3>2. CallsOf(handlers', g, u) = {r} /\ r.to = task[h][t].peer
      BY <1>1, <1>3, <1>4, <2>1, <2>2 DEF CallsOf
    <3> QED
      BY <3>1, <3>2
  <2>3. CASE <<g, u>> # <<h, t>>
    <3>1. task'[g][u] = task[g][u]
      BY <1>6, <1>7, <2>3, OneTask
    <3>2. CallsOf(handlers', g, u) = CallsOf(handlers, g, u)
      BY <1>1, <1>3, <2>3 DEF CallsOf
    <3> QED
      BY <2>1, <3>1, <3>2
  <2> QED
    BY <2>2, <2>3
<1>12. handlers' \subseteq Requests
  BY <1>1, <1>3, <1>9 DEF Inv, TypeOK
<1> QED
  BY <1>6, <1>7, <1>8, <1>10, <1>11, <1>12, OneTask DEF Inv, TypeOK

\* Finish: the task held the mutex, so none is left in its round.
LEMMA FinishInv ==
  ASSUME Inv, NEW h \in Hubs, NEW t \in Tasks, Finish(h, t)
  PROVE  Inv'
<1>1. PICK q : q = Asleep(h)
  OBVIOUS
<1>2. task[h][t].pc = "send" /\ lock[h] = t
  BY DEF Inv, LockHeldByRound, Finish
<1>3. RoundOf(h, t, q) /\ q.pc = "sleep"
  BY <1>1 DEF RoundOf, Rounds, Asleep
<1>4. task' = [task EXCEPT ![h][t] = q]
  BY <1>1 DEF Finish
<1>5. lock \in [Hubs -> Tasks \cup {Free}] /\ lock' = [lock EXCEPT ![h] = Free]
      /\ UNCHANGED <<catalog, published, handlers, breaks>>
  BY DEF Finish, Inv, TypeOK
<1>6. OneCallPerRound'
  BY <1>2, <1>3, <1>4, <1>5, OneTask, CallsStay
<1>7. LockHeldByRound'
  <2> SUFFICES ASSUME NEW g \in Hubs, NEW u \in Tasks
               PROVE  lock'[g] = u <=> task'[g][u].pc \in InRound
    BY DEF LockHeldByRound, InRound
  <2>1. lock[g] = u <=> task[g][u].pc \in InRound
    BY DEF Inv, LockHeldByRound, InRound
  <2>2. CASE <<g, u>> = <<h, t>>
    <3>1. task'[h][t] = q
      BY <1>3, <1>4, OneTask
    <3>2. lock'[h] # t
      BY <1>5, NamesAssumption
    <3> QED
      BY <1>3, <2>2, <3>1, <3>2 DEF InRound
  <2>3. CASE <<g, u>> # <<h, t>>
    <3>1. task'[g][u] = task[g][u]
      BY <1>3, <1>4, <2>3, OneTask
    <3> QED
      BY <1>2, <1>5, <2>1, <2>3, <3>1, NamesAssumption
  <2> QED
    BY <2>2, <2>3
<1> QED
  BY <1>3, <1>4, <1>5, <1>6, <1>7, OneTask DEF Inv, TypeOK

\* A task that awaited an answer goes on: the call it had under way, and no
\* other call of any task, is no longer its own.
LEMMA ResumeInv ==
  ASSUME Inv, NEW h \in Hubs, NEW t \in Tasks, task[h][t].pc = "await",
         task' = [task EXCEPT ![h][t].pc = "send"],
         lock' = lock, handlers' \subseteq Requests,
         CallsOf(handlers', h, t) = {},
         \A g \in Hubs, u \in Tasks :
           <<g, u>> # <<h, t>> => CallsOf(handlers', g, u) = CallsOf(handlers, g, u)
  PROVE  /\ task' \in [Hubs -> [Tasks -> Rounds]]
         /\ RoundsOK' /\ LockHeldByRound' /\ OneCallPerRound'
<1>1. PICK q : q = [task[h][t] EXCEPT !.pc = "send"]
  OBVIOUS
<1>2. RoundOf(h, t, task[h][t])
  BY DEF Inv, RoundsOK
<1>3. RoundOf(h, t, q) /\ q.pc = "send"
  BY <1>1, <1>2 DEF RoundOf, Rounds
<1>4. task' = [task EXCEPT ![h][t] = q]
  BY <1>1 DEF Inv, TypeOK
<1>5. LockHeldByRound'
  BY <1>3, <1>4, OneTask, LockStays DEF InRound
<1>6. OneCallPerRound'
  <2> SUFFICES ASSUME NEW g \in Hubs, NEW u \in Tasks
               PROVE  IF task'[g][u].pc = "await"
                      THEN \E c \in CallsOf(handlers', g, u) :
                             CallsOf(handlers', g, u) = {c} /\ c.to = task'[g][u].peer
                      ELSE CallsOf(handlers', g, u) = {}
    BY DEF OneCallPerRound, CallsOf
  <2>1. IF task[g][u].pc = "await"
        THEN \E c \in CallsOf(handlers, g, u) :
               CallsOf(handlers, g, u) = {c} /\ c.to = task[g][u].peer
        ELSE CallsOf(handlers, g, u) = {}
    BY DEF Inv, OneCallPerRound, CallsOf
  <2>2. CASE <<g, u>> = <<h, t>>
    <3>1. task'[h][t] = q
      BY <1>3, <1>4, OneTask
    <3> QED
      BY <1>3, <2>2, <3>1
  <2>3. CASE <<g, u>> # <<h, t>>
    <3>1. task'[g][u] = task[g][u]
      BY <1>3, <1>4, <2>3, OneTask
    <3> QED
      BY <2>1, <2>3, <3>1
  <2> QED
    BY <2>2, <2>3
<1> QED
  BY <1>3, <1>4, <1>5, <1>6, OneTask

\* CallFails: the handler of the call is lost, or answers nobody.
LEMMA CallFailsInv ==
  ASSUME Inv, NEW h \in Hubs, NEW t \in Tasks, CallFails(h, t)
  PROVE  Inv'
<1>1. PICK orphans \in {{}, {[r EXCEPT !.from = Client] : r \in CallsOf(handlers, h, t)}} :
        handlers' = (handlers \ CallsOf(handlers, h, t)) \cup orphans
  BY DEF CallFails, CallsOf
<1>2. ASSUME NEW o \in orphans
      PROVE  o \in Requests /\ o.from = Client
  <2>1. PICK r \in handlers : o = [r EXCEPT !.from = Client]
    BY <1>1 DEF CallsOf
  <2>2. r \in Requests
    BY DEF Inv, TypeOK
  <2> QED
    BY <2>1, <2>2 DEF Requests
<1>3. handlers' \subseteq Requests
  BY <1>1, <1>2 DEF Inv, TypeOK
<1>4. ASSUME NEW g \in Hubs, NEW u \in Tasks
      PROVE  CallsOf(handlers', g, u) = CallsOf(handlers \ CallsOf(handlers, h, t), g, u)
  BY <1>1, <1>2, NamesAssumption DEF CallsOf
<1>5. CallsOf(handlers', h, t) = {}
  BY <1>4 DEF CallsOf
<1>6. ASSUME NEW g \in Hubs, NEW u \in Tasks, <<g, u>> # <<h, t>>
      PROVE  CallsOf(handlers', g, u) = CallsOf(handlers, g, u)
  BY <1>4, <1>6 DEF CallsOf
<1>7. /\ task[h][t].pc = "await" /\ task' = [task EXCEPT ![h][t].pc = "send"]
      /\ UNCHANGED <<catalog, published, lock>>
      /\ breaks \in 0..MaxBreaks /\ breaks > 0 /\ breaks' = breaks - 1
  BY DEF CallFails, Inv, TypeOK
<1>8. breaks' \in 0..MaxBreaks
  BY <1>7, BoundsAssumption
<1> QED
  BY <1>3, <1>5, <1>6, <1>7, <1>8, ResumeInv DEF Inv, TypeOK

-----------------------------------------------------------------------------
(* Requests.                                                                *)

\* Storing a descriptor at one hub.
LEMMA CatalogInv ==
  ASSUME Inv, NEW g \in Hubs, NEW d \in Descriptors,
         catalog' = [catalog EXCEPT ![g] = Merge(@, d)]
  PROVE  /\ catalog' \in [Hubs -> SUBSET Descriptors]
         /\ \A h \in Hubs : \A e \in catalog[h] :
              \E f \in catalog'[h] : DedupKey(f) = DedupKey(e) /\ f.sequence >= e.sequence
<1>1. catalog \in [Hubs -> SUBSET Descriptors]
  BY DEF Inv, TypeOK
<1>2. catalog'[g] = Merge(catalog[g], d) /\ catalog[g] \in SUBSET Descriptors
  BY <1>1
<1>3. \A h \in Hubs : h # g => catalog'[h] = catalog[h]
  BY <1>1
<1>4. catalog' \in [Hubs -> SUBSET Descriptors]
  BY <1>1, <1>2, MergeKeeps
<1>5. ASSUME NEW h \in Hubs, NEW e \in catalog[h]
      PROVE  \E f \in catalog'[h] : DedupKey(f) = DedupKey(e) /\ f.sequence >= e.sequence
  <2>1. CASE h = g
    BY <1>2, <2>1, MergeKeeps
  <2>2. CASE h # g
    <3>1. e \in Descriptors /\ e.sequence \in Nat
      BY <1>1, DescriptorsAssumption DEF Descriptor
    <3> QED
      BY <1>3, <2>2, <3>1
  <2> QED
    BY <2>1, <2>2
<1> QED
  BY <1>4, <1>5

\* Handle: the answer reaches the one task that awaits it.
LEMMA HandleInv ==
  ASSUME Inv, NEW r \in handlers, Handle(r)
  PROVE  Inv'
<1>1. r \in Requests /\ r.by \in Tasks /\ r.to \in Hubs /\ r.body \in Bodies
      /\ r.from \in Hubs \cup {Client}
  BY DEF Inv, TypeOK, Requests
<1>2. /\ handlers' = handlers \ {r} /\ UNCHANGED <<published, lock, breaks>>
      /\ task' = Answered(r)
  BY DEF Handle
<1>3. catalog' \in [Hubs -> SUBSET Descriptors]
  <2>1. CASE r.body = Ping
    BY <2>1 DEF Handle, Inv, TypeOK
  <2>2. CASE r.body # Ping
    <3>1. r.body \in Descriptors
      BY <1>1, <2>2 DEF Bodies
    <3>2. catalog' = [catalog EXCEPT ![r.to] = Merge(@, r.body)]
      BY <2>2 DEF Handle
    <3> QED
      BY <1>1, <3>1, <3>2, CatalogInv
  <2> QED
    BY <2>1, <2>2
<1>4. handlers' \subseteq Requests
  BY <1>2 DEF Inv, TypeOK
<1>5. /\ task' \in [Hubs -> [Tasks -> Rounds]]
      /\ RoundsOK' /\ LockHeldByRound' /\ OneCallPerRound'
  <2>1. CASE r.from = Client
    <3>1. task' = task
      BY <1>2, <2>1 DEF Answered
    <3>2. \A g \in Hubs, u \in Tasks : CallsOf(handlers', g, u) = CallsOf(handlers, g, u)
      BY <1>2, <2>1, NamesAssumption DEF CallsOf
    <3>3. OneCallPerRound'
      BY <3>1, <3>2 DEF Inv, OneCallPerRound, CallsOf
    <3> QED
      BY <1>2, <3>1, <3>3 DEF Inv, TypeOK, RoundsOK, LockHeldByRound
  <2>2. CASE r.from # Client
    <3>1. PICK h \in Hubs : h = r.from
      BY <1>1, <2>2
    <3>2. PICK t \in Tasks : t = r.by
      BY <1>1
    <3>3. r \in CallsOf(handlers, h, t)
      BY <3>1, <3>2 DEF CallsOf
    <3>4. task[h][t].pc = "await" /\ CallsOf(handlers, h, t) = {r}
      <4>1. IF task[h][t].pc = "await"
            THEN \E c \in CallsOf(handlers, h, t) : CallsOf(handlers, h, t) = {c}
            ELSE CallsOf(handlers, h, t) = {}
        BY DEF Inv, OneCallPerRound, CallsOf
      <4> QED
        BY <3>3, <4>1
    <3>5. task' = [task EXCEPT ![h][t].pc = "send"]
      BY <1>2, <2>2, <3>1, <3>2 DEF Answered
    <3>6. CallsOf(handlers', h, t) = {}
      BY <1>2, <3>4 DEF CallsOf
    <3>7. ASSUME NEW g \in Hubs, NEW u \in Tasks, <<g, u>> # <<h, t>>
          PROVE  CallsOf(handlers', g, u) = CallsOf(handlers, g, u)
      BY <1>2, <3>1, <3>2, <3>7 DEF CallsOf
    <3> QED
      BY <1>2, <1>4, <3>4, <3>5, <3>6, <3>7, ResumeInv
  <2> QED
    BY <2>1, <2>2
<1> QED
  BY <1>2, <1>3, <1>4, <1>5 DEF Inv, TypeOK

\* Publish touches one catalog.
LEMMA PublishInv ==
  ASSUME Inv, NEW h \in Hubs, NEW d \in Descriptors, Publish(h, d)
  PROVE  Inv'
<1>1. catalog' \in [Hubs -> SUBSET Descriptors]
  BY CatalogInv DEF Publish
<1>2. published' \subseteq Descriptors /\ UNCHANGED <<lock, task, handlers, breaks>>
  BY DEF Publish, Inv, TypeOK
<1> QED
  BY <1>1, <1>2 DEF Inv, TypeOK, RoundsOK, LockHeldByRound, OneCallPerRound

-----------------------------------------------------------------------------

\* Hubs that have just started satisfy the inductive invariant.
LEMMA InitInv == Init => Inv
<1> SUFFICES ASSUME Init PROVE Inv
  OBVIOUS
<1>1. \A h \in Hubs, t \in Tasks : task[h][t] = Asleep(h)
  BY DEF Init
<1>2. \A h \in Hubs, t \in Tasks : RoundOf(h, t, Asleep(h)) /\ Asleep(h).pc = "sleep"
  BY DEF RoundOf, Rounds, Asleep
<1>3. TypeOK
  <2>1. \A h \in Hubs : Asleep(h) \in Rounds
    BY DEF Rounds, Asleep
  <2> QED
    BY <2>1, BoundsAssumption DEF Init, TypeOK
<1>4. LockHeldByRound
  BY <1>1, <1>2, NamesAssumption DEF Init, LockHeldByRound
<1>5. OneCallPerRound
  BY <1>1, <1>2 DEF Init, OneCallPerRound
<1> QED
  BY <1>1, <1>2, <1>3, <1>4, <1>5 DEF Inv, RoundsOK

\* Every step of every hub preserves the inductive invariant.
LEMMA StepInv == Inv /\ [Next]_vars => Inv'
<1> SUFFICES ASSUME Inv, [Next]_vars PROVE Inv'
  OBVIOUS
<1>1. ASSUME NEW h \in Hubs, NEW t \in Tasks, TaskStep(h, t)
      PROVE  Inv'
  BY <1>1, BeginInv, AcquireInv, NextPeerInv, SendInv, FinishInv DEF TaskStep
<1>2. ASSUME NEW h \in Hubs, NEW t \in Tasks, CallFails(h, t)
      PROVE  Inv'
  BY <1>2, CallFailsInv
<1>3. ASSUME NEW r \in handlers, Handle(r)
      PROVE  Inv'
  BY <1>3, HandleInv
<1>4. ASSUME NEW h \in Hubs, NEW d \in Descriptors, Publish(h, d)
      PROVE  Inv'
  BY <1>4, PublishInv
<1>5. CASE UNCHANGED vars
  BY <1>5 DEF vars, Inv, TypeOK, RoundsOK, LockHeldByRound, OneCallPerRound
<1> QED
  BY <1>1, <1>2, <1>3, <1>4, <1>5 DEF Next

\* No step makes a hub trade a version for an older one.
LEMMA StepVersions ==
  ASSUME Inv, [Next]_vars
  PROVE  \A h \in Hubs : \A d \in catalog[h] :
           \E e \in catalog'[h] : DedupKey(e) = DedupKey(d) /\ e.sequence >= d.sequence
<1>1. CASE catalog' = catalog
  <2>1. \A h \in Hubs : \A d \in catalog[h] : d.sequence \in Nat
    BY DescriptorsAssumption DEF Inv, TypeOK, Descriptor
  <2> QED
    BY <1>1, <2>1
<1>2. ASSUME NEW g \in Hubs, NEW f \in Descriptors,
             catalog' = [catalog EXCEPT ![g] = Merge(@, f)]
      PROVE  \A h \in Hubs : \A d \in catalog[h] :
               \E e \in catalog'[h] : DedupKey(e) = DedupKey(d) /\ e.sequence >= d.sequence
  BY <1>2, CatalogInv
<1>3. ASSUME NEW h \in Hubs, NEW t \in Tasks, TaskStep(h, t) \/ CallFails(h, t)
      PROVE  catalog' = catalog
  BY <1>3 DEF TaskStep, Begin, Acquire, NextPeer, Send, Finish, CallFails
<1>4. ASSUME NEW r \in handlers, Handle(r)
      PROVE  \/ catalog' = catalog
             \/ \E g \in Hubs, f \in Descriptors :
                  catalog' = [catalog EXCEPT ![g] = Merge(@, f)]
  BY <1>4 DEF Handle, Inv, TypeOK, Requests, Bodies
<1>5. ASSUME NEW h \in Hubs, NEW d \in Descriptors, Publish(h, d)
      PROVE  catalog' = [catalog EXCEPT ![h] = Merge(@, d)]
  BY <1>5 DEF Publish
<1>6. CASE UNCHANGED vars
  BY <1>1, <1>6 DEF vars
<1> QED
  BY <1>1, <1>2, <1>3, <1>4, <1>5, <1>6 DEF Next

\* The mutexes, the rounds and the calls of the hubs fit together at all times.
THEOREM Invariance == Spec => []Inv
BY InitInv, StepInv, PTL DEF Spec

\* Tasks, requests and catalogs are well formed: a task sends its own kind of
\* request, over connections its hub has.
THEOREM TypeCorrect == Spec => []TypeOK
<1>1. Inv => TypeOK
  BY DEF Inv
<1> QED
  BY <1>1, Invariance, PTL

\* The PeerManager mutex of a hub is held exactly by the task in its round,
\* whatever calls fail and in whatever order handlers run.
THEOREM LockDiscipline == Spec => []LockHeldByRound
<1>1. Inv => LockHeldByRound
  BY DEF Inv
<1> QED
  BY <1>1, Invariance, PTL

\* A task that awaits an answer has exactly one request under way, so an answer
\* is never taken for that of another call.
THEOREM CallDiscipline == Spec => []OneCallPerRound
<1>1. Inv => OneCallPerRound
  BY DEF Inv
<1> QED
  BY <1>1, Invariance, PTL

\* Stale snapshots and handlers that outlive their call never bring an older
\* version back.
THEOREM NoRegression == Spec => VersionsNeverRegress
<1>1. Inv /\ [Next]_vars =>
        [\A h \in Hubs : \A d \in catalog[h] :
           \E e \in catalog'[h] : DedupKey(e) = DedupKey(d) /\ e.sequence >= d.sequence]_vars
  BY StepVersions
<1> QED
  BY <1>1, Invariance, PTL DEF Spec, VersionsNeverRegress

-----------------------------------------------------------------------------
(* Who waits for whom.                                                      *)

\* A task of the hub is in its round, or waits for the mutex to begin it.
Busy(h) == \E t \in Tasks : task[h][t].pc # "sleep"

\* The guard of Acquire, NextPeer, Send or Finish holds for a task of the hub,
\* or the handler of the request it waits for gets the mutex it needs.
CanGoOn(h) ==
  \E t \in Tasks :
    \/ task[h][t].pc = "lock" /\ lock[h] = Free
    \/ /\ task[h][t].pc = "send"
       /\ \/ task[h][t].rest = {}
          \/ \E body \in task[h][t].rest : IsNext(body, task[h][t].rest)
    \/ \E r \in handlers : r.from = h /\ r.by = t /\ MayAnswer(r.to)

\* A hub whose round does not go on waits for a peer it has a connection to,
\* and that peer is in a round of its own, its mutex locked.
WaitsOnlyForPeers ==
  \A h \in Hubs :
    Busy(h) => CanGoOn(h) \/ \E g \in PeersOf(h) \cap Peering : lock[g] # Free /\ Busy(g)

\* Every hub has a depth, and connections lead from a deeper hub to one less
\* deep: there is no cycle of connections.
Acyclic(depth) ==
  /\ depth \in [Hubs -> Nat]
  /\ \A h, g \in Hubs : <<h, g>> \in Links => depth[g] < depth[h]

\* Whenever a hub is busy, it or a hub less deep can go on.
SomeoneGoesOn(depth) ==
  \A h \in Hubs : Busy(h) => \E g \in Hubs : depth[g] <= depth[h] /\ CanGoOn(g)

\* A set of natural numbers that is not empty has a least element.
LEMMA LeastNatural ==
  ASSUME NEW S \in SUBSET Nat, S # {}
  PROVE  \E n \in S : \A m \in S : n <= m
<1> DEFINE T == {0..n : n \in S}
<1>1. T \subseteq FiniteSubsetsOf(Nat) /\ T # {}
  <2>1. \A n \in S : 0..n \in FiniteSubsetsOf(Nat)
    BY FS_Interval DEF FiniteSubsetsOf
  <2> QED
    BY <2>1
<1>2. PICK x \in T : \A y \in T : ~(<<y, x>> \in StrictSubsetOrdering(Nat))
  <2> HIDE DEF T
  <2> QED
    BY <1>1, FS_StrictSubsetOrderingWellFounded, WFMin
<1>3. PICK n \in S : x = 0..n
  OBVIOUS
<1>4. ASSUME NEW m \in S, m < n
      PROVE  FALSE
  <2>1. n \in 0..n /\ n \notin 0..m
    BY <1>4
  <2>2. 0..m \subseteq 0..n /\ 0..m # 0..n /\ 0..m \in SUBSET Nat /\ 0..n \in SUBSET Nat
    BY <1>4, <2>1
  <2>3. <<0..m, x>> \in StrictSubsetOrdering(Nat)
    BY <2>2, <1>3 DEF StrictSubsetOrdering
  <2> QED
    BY <2>3, <1>2
<1> QED
  BY <1>4

\* Valid descriptors with the same id, or the same place in the order of the
\* table, are one descriptor.
LEMMA UniqueIds ==
  ASSUME NEW d \in Descriptors, NEW e \in Descriptors, Rank[d.id] = Rank[e.id]
  PROVE  d = e
<1>1. d.id \in Ids /\ e.id \in Ids
  BY DescriptorsAssumption DEF Descriptor
<1>2. d.authentic /\ e.authentic
  BY ValidAssumption DEF validate
<1> QED
  BY <1>1, <1>2, RankAssumption, ContentHashAssumption

\* As long as something is left to send to a peer, one body is the next.
LEMMA NextBody ==
  ASSUME NEW t \in Tasks, NEW rest \in SUBSET BodiesOf(t), rest # {}
  PROVE  \E body \in rest : IsNext(body, rest)
<1>1. CASE t = "gossip"
  <2>1. rest \subseteq Descriptors
    BY <1>1 DEF BodiesOf
  <2>2. \A d \in rest : Rank[d.id] \in Nat
    BY <2>1, DescriptorsAssumption, RankAssumption DEF Descriptor
  <2> DEFINE ranks == {Rank[d.id] : d \in rest}
  <2>3. PICK n \in ranks : \A m \in ranks : n <= m
    <3>1. ranks \in SUBSET Nat /\ ranks # {}
      BY <2>2
    <3> HIDE DEF ranks
    <3> QED
      BY <3>1, LeastNatural
  <2>4. PICK d \in rest : Rank[d.id] = n
    OBVIOUS
  <2>5. ASSUME NEW e \in rest, e # d
        PROVE  Rank[d.id] < Rank[e.id]
    <3>1. Rank[d.id] <= Rank[e.id] /\ Rank[d.id] # Rank[e.id]
      BY <2>1, <2>3, <2>4, <2>5, UniqueIds
    <3> QED
      BY <2>2, <3>1
  <2> QED
    BY <2>5 DEF IsNext
<1>2. CASE t = "health"
  BY <1>2 DEF BodiesOf, IsNext
<1> QED
  BY <1>1, <1>2 DEF Tasks

\* The inductive invariant tells who waits for whom.
LEMMA BlockedByPeer == Inv => WaitsOnlyForPeers
<1> SUFFICES ASSUME Inv, NEW h \in Hubs, Busy(h)
             PROVE  CanGoOn(h) \/ \E g \in PeersOf(h) \cap Peering : lock[g] # Free /\ Busy(g)
  BY DEF WaitsOnlyForPeers
<1>1. \A g \in Hubs, u \in Tasks :
        /\ lock[g] \in Tasks \cup {Free}
        /\ lock[g] = u <=> task[g][u].pc \in InRound
        /\ task[g][u].pc \in {"sleep", "lock", "send", "await"}
        /\ RoundOf(g, u, task[g][u])
  BY DEF Inv, TypeOK, LockHeldByRound, InRound, RoundsOK, Rounds
<1>2. CASE lock[h] = Free
  <2>1. PICK t \in Tasks : task[h][t].pc # "sleep"
    BY DEF Busy
  <2>2. task[h][t].pc = "lock"
    BY <1>1, <1>2, <2>1, NamesAssumption DEF InRound
  <2> QED
    BY <1>2, <2>2 DEF CanGoOn
<1>3. CASE lock[h] # Free
  <2>1. PICK t \in Tasks : lock[h] = t
    BY <1>3 DEF Inv, TypeOK
  <2>2. task[h][t].pc \in InRound
    BY <1>1, <2>1
  <2>3. CASE task[h][t].pc = "send"
    <3>1. task[h][t].rest \in SUBSET BodiesOf(t)
      BY <1>1 DEF RoundOf
    <3>2. \/ task[h][t].rest = {}
          \/ \E body \in task[h][t].rest : IsNext(body, task[h][t].rest)
      BY <3>1, NextBody
    <3> QED
      BY <2>3, <3>2 DEF CanGoOn
  <2>4. CASE task[h][t].pc = "await"
    <3>1. PICK r \in handlers : r.from = h /\ r.by = t /\ r.to = task[h][t].peer
      BY <2>4 DEF Inv, OneCallPerRound
    <3>2. r.to \in Hubs /\ <<h, r.to>> \in Links
      BY <1>1, <2>4, <3>1 DEF RoundOf, Rounds
    <3>3. CASE MayAnswer(r.to)
      BY <3>1, <3>3 DEF CanGoOn
    <3>4. CASE ~MayAnswer(r.to)
      <4>1. r.to \in Peering /\ lock[r.to] # Free
        BY <3>4 DEF MayAnswer
      <4>2. Busy(r.to)
        BY <1>1, <3>2, <4>1 DEF Busy, InRound
      <4> QED
        BY <3>2, <4>1, <4>2 DEF PeersOf
    <3> QED
      BY <3>3, <3>4
  <2> QED
    BY <2>2, <2>3, <2>4 DEF InRound
<1> QED
  BY <1>2, <1>3

\* Following the hubs that wait leads to ever smaller depths, so it ends at a
\* hub that can go on.
LEMMA WaitingEnds ==
  ASSUME NEW depth, Acyclic(depth), WaitsOnlyForPeers
  PROVE  SomeoneGoesOn(depth)
<1> SUFFICES ASSUME NEW h \in Hubs, Busy(h)
             PROVE  \E g \in Hubs : depth[g] <= depth[h] /\ CanGoOn(g)
  BY DEF SomeoneGoesOn
<1>1. \A g \in Hubs : depth[g] \in Nat
  BY DEF Acyclic
<1> DEFINE waiting == {g \in Hubs : Busy(g) /\ depth[g] <= depth[h]}
           depths == {depth[g] : g \in waiting}
<1>2. h \in waiting
  BY <1>1
<1>3. PICK n \in depths : \A m \in depths : n <= m
  <2>1. depths \in SUBSET Nat /\ depths # {}
    BY <1>1, <1>2
  <2> HIDE DEF depths
  <2> QED
    BY <2>1, LeastNatural
<1>4. PICK g \in waiting : depth[g] = n
  OBVIOUS
<1>5. CASE CanGoOn(g)
  BY <1>4, <1>5
<1>6. CASE ~CanGoOn(g)
  <2>1. PICK f \in PeersOf(g) : Busy(f)
    BY <1>4, <1>6 DEF WaitsOnlyForPeers
  <2>2. f \in Hubs /\ depth[f] < depth[g]
    BY <1>4, <2>1 DEF PeersOf, Acyclic
  <2>3. f \in waiting
    BY <1>1, <1>4, <2>1, <2>2
  <2> QED
    BY <1>1, <1>3, <1>4, <2>2, <2>3
<1> QED
  BY <1>5, <1>6

\* A round that does not go on waits for a peer that is in a round of its own.
\* So hubs that wait for each other for ever wait along connections (the
\* deadlock that the gossip_deadlock run exhibits has no other form).
THEOREM RoundsWaitOnlyForPeers == Spec => []WaitsOnlyForPeers
BY Invariance, BlockedByPeer, PTL

\* If the connections between hubs form no cycle, the rounds never deadlock,
\* whatever the number of hubs and of calls that fail: when a hub is busy, a
\* step of its round, of the handler it waits for, or of a hub further down is
\* possible.
THEOREM NoDeadlockWithoutCycle ==
  ASSUME NEW CONSTANT depth, Acyclic(depth)
  PROVE  Spec => []SomeoneGoesOn(depth)
<1>1. WaitsOnlyForPeers => SomeoneGoesOn(depth)
  BY WaitingEnds
<1> QED
  BY <1>1, RoundsWaitOnlyForPeers, PTL

-----------------------------------------------------------------------------
(* How long a round is.                                                     *)

\* The steps that the rest of a round takes: for each peer not yet begun one
\* step to turn to it and two per body, a call and its answer, and one step to
\* end it.
StepsLeft(h, q) ==
  LET perPeer == 2 * Cardinality(q.batch) + 1 IN
  CASE q.pc = "sleep" -> 0
    [] q.pc = "lock"  -> Cardinality(PeersOf(h)) * perPeer + 2
    [] OTHER          -> Cardinality(q.left) * perPeer + 2 * Cardinality(q.rest)
                           + (IF q.pc = "await" THEN 1 ELSE 0) + 1

\* Whatever happens in the network, calls that fail included, a step either
\* leaves a round in progress as it is or brings it one step nearer to its end.
RoundShrinks ==
  [][\A h \in Hubs, t \in Tasks :
       task[h][t].pc # "sleep" /\ task'[h][t] # task[h][t]
         => StepsLeft(h, task'[h][t]) = StepsLeft(h, task[h][t]) - 1]_vars

\* A gossip round sends at most MAX_GOSSIP_BATCH descriptors to a peer.
BatchBounded ==
  \A h \in Hubs : Cardinality(task[h]["gossip"].batch) <= MAX_GOSSIP_BATCH

\* The ways a round changes.
RoundStep(h, t, q, r) ==
  \/ /\ q.pc = "sleep"
     /\ \E batch \in SUBSET BodiesOf(t) :
          /\ r = [q EXCEPT !.pc = "lock", !.batch = batch]
          /\ t = "gossip" => batch = FirstOf(catalog[h], MAX_GOSSIP_BATCH)
  \/ q.pc = "lock" /\ r = [q EXCEPT !.pc = "send", !.left = PeersOf(h)]
  \/ /\ q.pc = "send" /\ q.rest = {}
     /\ \E g \in q.left : r = [q EXCEPT !.peer = g, !.left = @ \ {g}, !.rest = q.batch]
  \/ q.pc = "send" /\ \E body \in q.rest : r = [q EXCEPT !.pc = "await", !.rest = @ \ {body}]
  \/ q.pc = "await" /\ r = [q EXCEPT !.pc = "send"]
  \/ q.pc = "send" /\ q.rest = {} /\ q.left = {} /\ r = Asleep(h)

\* Before a round turns to its first peer there is nothing left to send.
RestIsOfAPeer ==
  \A h \in Hubs, t \in Tasks : task[h][t].pc \in {"sleep", "lock"} => task[h][t].rest = {}

\* Every step that changes the round of a task is one of those ways, whichever
\* task, handler or client takes it.
LEMMA RoundSteps ==
  ASSUME Inv, [Next]_vars, NEW h \in Hubs, NEW t \in Tasks, task'[h][t] # task[h][t]
  PROVE  RoundStep(h, t, task[h][t], task'[h][t])
<1>1. task \in [Hubs -> [Tasks -> Rounds]] /\ task[h][t] \in Rounds
  BY DEF Inv, TypeOK
<1>2. ASSUME NEW g \in Hubs, NEW u \in Tasks, Begin(g, u)
      PROVE  RoundStep(h, t, task[h][t], task'[h][t])
  <2>1. PICK batch :
          /\ batch = IF u = "gossip" THEN FirstOf(catalog[g], MAX_GOSSIP_BATCH) ELSE {Ping}
          /\ task' = [task EXCEPT ![g][u].pc = "lock", ![g][u].batch = batch]
    BY <1>2 DEF Begin
  <2>2. batch \in SUBSET BodiesOf(u)
    BY <2>1 DEF BodiesOf, FirstOf, Inv, TypeOK
  <2>3. g = h /\ u = t
    BY <1>1, <2>1
  <2>4. task'[h][t] = [task[h][t] EXCEPT !.pc = "lock", !.batch = batch]
    BY <1>1, <2>1, <2>3
  <2>5. task[h][t].pc = "sleep"
    BY <1>2, <2>3 DEF Begin
  <2> QED
    BY <2>1, <2>2, <2>3, <2>4, <2>5 DEF RoundStep
<1>3. ASSUME NEW g \in Hubs, NEW u \in Tasks, Acquire(g, u)
      PROVE  RoundStep(h, t, task[h][t], task'[h][t])
  <2>1. g = h /\ u = t
    BY <1>1, <1>3 DEF Acquire
  <2>2. /\ task[h][t].pc = "lock"
        /\ task'[h][t] = [task[h][t] EXCEPT !.pc = "send", !.left = PeersOf(h)]
    BY <1>1, <1>3, <2>1 DEF Acquire
  <2> QED
    BY <2>2 DEF RoundStep
<1>4. ASSUME NEW g \in Hubs, NEW u \in Tasks, NextPeer(g, u)
      PROVE  RoundStep(h, t, task[h][t], task'[h][t])
  <2>1. PICK f \in task[g][u].left :
          task' = [task EXCEPT ![g][u].peer = f, ![g][u].left = @ \ {f},
                               ![g][u].rest = task[g][u].batch]
    BY <1>4 DEF NextPeer
  <2>2. g = h /\ u = t
    BY <1>1, <2>1
  <2>3. task'[h][t] = [task[h][t] EXCEPT !.peer = f, !.left = @ \ {f}, !.rest = task[h][t].batch]
    BY <1>1, <2>1, <2>2
  <2>4. task[h][t].pc = "send" /\ task[h][t].rest = {}
    BY <1>4, <2>2 DEF NextPeer
  <2> QED
    BY <2>1, <2>2, <2>3, <2>4 DEF RoundStep
<1>5. ASSUME NEW g \in Hubs, NEW u \in Tasks, Send(g, u)
      PROVE  RoundStep(h, t, task[h][t], task'[h][t])
  <2>1. PICK body \in task[g][u].rest :
          task' = [task EXCEPT ![g][u].pc = "await", ![g][u].rest = @ \ {body}]
    BY <1>5 DEF Send
  <2>2. g = h /\ u = t
    BY <1>1, <2>1
  <2>3. task'[h][t] = [task[h][t] EXCEPT !.pc = "await", !.rest = @ \ {body}]
    BY <1>1, <2>1, <2>2
  <2>4. task[h][t].pc = "send"
    BY <1>5, <2>2 DEF Send
  <2> QED
    BY <2>1, <2>2, <2>3, <2>4 DEF RoundStep
<1>6. ASSUME NEW g \in Hubs, NEW u \in Tasks, task[g][u].pc = "await",
             task' = [task EXCEPT ![g][u].pc = "send"]
      PROVE  RoundStep(h, t, task[h][t], task'[h][t])
  <2>1. g = h /\ u = t
    BY <1>1, <1>6
  <2>2. task'[h][t] = [task[h][t] EXCEPT !.pc = "send"]
    BY <1>1, <1>6, <2>1
  <2> QED
    BY <1>6, <2>1, <2>2 DEF RoundStep
<1>7. ASSUME NEW g \in Hubs, NEW u \in Tasks, Finish(g, u)
      PROVE  RoundStep(h, t, task[h][t], task'[h][t])
  <2>1. g = h /\ u = t
    BY <1>1, <1>7 DEF Finish
  <2>2. task'[h][t] = Asleep(h)
    BY <1>1, <1>7, <2>1 DEF Finish
  <2> QED
    BY <1>7, <2>1, <2>2 DEF RoundStep, Finish
<1>8. ASSUME NEW g \in Hubs, NEW u \in Tasks, CallFails(g, u)
      PROVE  task[g][u].pc = "await" /\ task' = [task EXCEPT ![g][u].pc = "send"]
  BY <1>8 DEF CallFails
<1>9. ASSUME NEW r \in handlers, Handle(r)
      PROVE  \E g \in Hubs, u \in Tasks :
               task[g][u].pc = "await" /\ task' = [task EXCEPT ![g][u].pc = "send"]
  <2>1. r.from # Client /\ task' = [task EXCEPT ![r.from][r.by].pc = "send"]
    BY <1>9 DEF Handle, Answered
  <2>2. r.from \in Hubs /\ r.by \in Tasks
    BY <2>1 DEF Inv, TypeOK, Requests
  <2>3. task[r.from][r.by].pc = "await"
    BY <2>2 DEF Inv, OneCallPerRound
  <2> QED
    BY <2>1, <2>2, <2>3
<1>10. ASSUME NEW g \in Hubs, NEW d \in Descriptors, Publish(g, d)
       PROVE  FALSE
  BY <1>10 DEF Publish
<1>11. CASE UNCHANGED vars
  BY <1>11 DEF vars
<1> QED
  BY <1>2, <1>3, <1>4, <1>5, <1>6, <1>7, <1>8, <1>9, <1>10, <1>11 DEF Next, TaskStep

\* A step into the state before the first peer leaves nothing to send.
LEMMA StepRest ==
  ASSUME NEW h, NEW t, NEW q \in Rounds, NEW r, RoundStep(h, t, q, r),
         q.pc \in {"sleep", "lock"} => q.rest = {}, r.pc \in {"sleep", "lock"}
  PROVE  r.rest = {}
<1>1. ASSUME NEW batch, q.pc = "sleep", r = [q EXCEPT !.pc = "lock", !.batch = batch]
      PROVE  r.rest = {}
  BY <1>1 DEF Rounds
<1>2. ASSUME NEW g, q.pc = "send",
             r = [q EXCEPT !.peer = g, !.left = @ \ {g}, !.rest = q.batch]
      PROVE  FALSE
  BY <1>2 DEF Rounds
<1>3. ASSUME NEW body, r = [q EXCEPT !.pc = "await", !.rest = @ \ {body}]
      PROVE  FALSE
  BY <1>3 DEF Rounds
<1>4. ASSUME NEW left, r = [q EXCEPT !.pc = "send", !.left = left]
      PROVE  FALSE
  BY <1>4 DEF Rounds
<1>5. ASSUME r = [q EXCEPT !.pc = "send"]
      PROVE  FALSE
  BY <1>5 DEF Rounds
<1>6. Asleep(h).rest = {}
  BY DEF Asleep
<1> QED
  BY <1>1, <1>2, <1>3, <1>4, <1>5, <1>6 DEF RoundStep

\* The batch of a gossip round is the snapshot it began with.
LEMMA StepBatch ==
  ASSUME NEW h, NEW q \in Rounds, NEW r, RoundStep(h, "gossip", q, r)
  PROVE  r.batch \in {q.batch, {}, FirstOf(catalog[h], MAX_GOSSIP_BATCH)}
<1>1. ASSUME NEW batch, r = [q EXCEPT !.pc = "lock", !.batch = batch]
      PROVE  r.batch = batch
  BY <1>1 DEF Rounds
<1>2. ASSUME NEW g, r = [q EXCEPT !.peer = g, !.left = @ \ {g}, !.rest = q.batch]
      PROVE  r.batch = q.batch
  BY <1>2 DEF Rounds
<1>3. ASSUME NEW body, r = [q EXCEPT !.pc = "await", !.rest = @ \ {body}]
      PROVE  r.batch = q.batch
  BY <1>3 DEF Rounds
<1>4. ASSUME NEW left, r = [q EXCEPT !.pc = "send", !.left = left]
      PROVE  r.batch = q.batch
  BY <1>4 DEF Rounds
<1>5. ASSUME r = [q EXCEPT !.pc = "send"]
      PROVE  r.batch = q.batch
  BY <1>5 DEF Rounds
<1>6. Asleep(h).batch = {}
  BY DEF Asleep
<1> QED
  BY <1>1, <1>2, <1>3, <1>4, <1>5, <1>6 DEF RoundStep

\* A round begins with nothing left to send, and ends so.
LEMMA RestInvariant == Spec => []RestIsOfAPeer
<1>1. Init => RestIsOfAPeer
  BY DEF Init, RestIsOfAPeer, Asleep
<1>2. Inv /\ RestIsOfAPeer /\ [Next]_vars => RestIsOfAPeer'
  <2> SUFFICES ASSUME Inv, RestIsOfAPeer, [Next]_vars, NEW h \in Hubs, NEW t \in Tasks,
                      task'[h][t].pc \in {"sleep", "lock"}
               PROVE  task'[h][t].rest = {}
    BY DEF RestIsOfAPeer
  <2>1. task[h][t] \in Rounds /\ (task[h][t].pc \in {"sleep", "lock"} => task[h][t].rest = {})
    BY DEF Inv, TypeOK, RestIsOfAPeer
  <2>2. CASE task'[h][t] = task[h][t]
    BY <2>1, <2>2
  <2>3. CASE task'[h][t] # task[h][t]
    <3>1. RoundStep(h, t, task[h][t], task'[h][t])
      BY <2>3, RoundSteps
    <3> QED
      BY <2>1, <3>1, StepRest
  <2> QED
    BY <2>2, <2>3
<1> QED
  BY <1>1, <1>2, Invariance, PTL DEF Spec

\* The sizes that StepsLeft counts are natural numbers.
LEMMA RoundIsFinite ==
  ASSUME IsFiniteSet(Hubs), IsFiniteSet(Descriptors), NEW h \in Hubs, NEW t \in Tasks,
         NEW q, RoundOf(h, t, q)
  PROVE  /\ IsFiniteSet(q.left) /\ IsFiniteSet(q.batch) /\ IsFiniteSet(q.rest)
         /\ IsFiniteSet(PeersOf(h))
         /\ Cardinality(q.left) \in Nat /\ Cardinality(q.batch) \in Nat
         /\ Cardinality(q.rest) \in Nat /\ Cardinality(PeersOf(h)) \in Nat
<1>1. IsFiniteSet({Ping})
  BY FS_Singleton
<1>2. IsFiniteSet(BodiesOf(t))
  BY <1>1 DEF BodiesOf
<1>3. q.left \subseteq Hubs /\ q.batch \subseteq BodiesOf(t) /\ q.rest \subseteq BodiesOf(t)
      /\ PeersOf(h) \subseteq Hubs
  BY DEF RoundOf, PeersOf
<1>4. /\ IsFiniteSet(q.left) /\ IsFiniteSet(q.batch) /\ IsFiniteSet(q.rest)
      /\ IsFiniteSet(PeersOf(h))
  BY <1>2, <1>3, FS_Subset
<1> QED
  BY <1>4, FS_CardinalityType

\* One peer less is one turn less.
LEMMA OneTurnLess ==
  ASSUME NEW n \in Nat, NEW c \in Nat
  PROVE  (n - 1) * c = n * c - c
OBVIOUS

\* Each of the ways in which a round in progress changes takes one step off it.
LEMMA StepShrinks ==
  ASSUME IsFiniteSet(Hubs), IsFiniteSet(Descriptors), NEW h \in Hubs, NEW t \in Tasks,
         NEW q, NEW r, RoundOf(h, t, q), RoundStep(h, t, q, r), q.pc # "sleep",
         q.pc = "lock" => q.rest = {}
  PROVE  StepsLeft(h, r) = StepsLeft(h, q) - 1
<1>1. /\ q \in Rounds
      /\ IsFiniteSet(q.left) /\ IsFiniteSet(q.batch) /\ IsFiniteSet(q.rest)
      /\ Cardinality(q.left) \in Nat /\ Cardinality(q.batch) \in Nat
      /\ Cardinality(q.rest) \in Nat /\ Cardinality(PeersOf(h)) \in Nat
  BY RoundIsFinite DEF RoundOf
<1>2. Cardinality({}) = 0
  BY FS_EmptySet
<1> DEFINE turn == 2 * Cardinality(q.batch) + 1
<1>3. turn \in Nat
  BY <1>1
<1>4. /\ Cardinality(q.left) * turn \in Nat
      /\ Cardinality(PeersOf(h)) * turn \in Nat
  BY <1>1, <1>3
<1>5. CASE q.pc = "lock" /\ r = [q EXCEPT !.pc = "send", !.left = PeersOf(h)]
  <2>1. r.pc = "send" /\ r.left = PeersOf(h) /\ r.rest = {} /\ r.batch = q.batch
    BY <1>1, <1>5 DEF Rounds
  <2>2. StepsLeft(h, q) = Cardinality(PeersOf(h)) * turn + 2
    BY <1>5 DEF StepsLeft
  <2>3. StepsLeft(h, r) = Cardinality(PeersOf(h)) * turn + 2 * 0 + 0 + 1
    BY <1>2, <2>1 DEF StepsLeft
  <2> HIDE DEF turn
  <2> QED
    BY <1>4, <2>2, <2>3
<1>6. CASE /\ q.pc = "send" /\ q.rest = {}
           /\ \E g \in q.left : r = [q EXCEPT !.peer = g, !.left = @ \ {g}, !.rest = q.batch]
  <2>1. PICK g \in q.left : r = [q EXCEPT !.peer = g, !.left = @ \ {g}, !.rest = q.batch]
    BY <1>6
  <2>2. r.pc = "send" /\ r.left = q.left \ {g} /\ r.rest = q.batch /\ r.batch = q.batch
    BY <1>1, <1>6, <2>1 DEF Rounds
  <2>3. Cardinality(q.left \ {g}) = Cardinality(q.left) - 1
    BY <1>1, FS_RemoveElement
  <2>4. StepsLeft(h, q) = Cardinality(q.left) * turn + 2 * 0 + 0 + 1
    BY <1>2, <1>6 DEF StepsLeft
  <2>5. StepsLeft(h, r) = (Cardinality(q.left) - 1) * turn + 2 * Cardinality(q.batch) + 0 + 1
    BY <2>2, <2>3 DEF StepsLeft
  <2>6. (Cardinality(q.left) - 1) * turn = Cardinality(q.left) * turn - turn
    <3> HIDE DEF turn
    <3> QED
      BY <1>1, <1>3, OneTurnLess
  <2>7. turn = 2 * Cardinality(q.batch) + 1
    OBVIOUS
  <2> HIDE DEF turn
  <2> QED
    BY <1>1, <1>3, <1>4, <2>4, <2>5, <2>6, <2>7
<1>7. CASE q.pc = "send" /\ \E body \in q.rest : r = [q EXCEPT !.pc = "await", !.rest = @ \ {body}]
  <2>1. PICK body \in q.rest : r = [q EXCEPT !.pc = "await", !.rest = @ \ {body}]
    BY <1>7
  <2>2. r.pc = "await" /\ r.left = q.left /\ r.rest = q.rest \ {body} /\ r.batch = q.batch
    BY <1>1, <2>1 DEF Rounds
  <2>3. Cardinality(q.rest \ {body}) = Cardinality(q.rest) - 1
    BY <1>1, FS_RemoveElement
  <2>4. StepsLeft(h, q) = Cardinality(q.left) * turn + 2 * Cardinality(q.rest) + 0 + 1
    BY <1>7 DEF StepsLeft
  <2>5. StepsLeft(h, r) = Cardinality(q.left) * turn + 2 * (Cardinality(q.rest) - 1) + 1 + 1
    BY <2>2, <2>3 DEF StepsLeft
  <2> HIDE DEF turn
  <2> QED
    BY <1>1, <1>4, <2>4, <2>5
<1>8. CASE q.pc = "await" /\ r = [q EXCEPT !.pc = "send"]
  <2>1. r.pc = "send" /\ r.left = q.left /\ r.rest = q.rest /\ r.batch = q.batch
    BY <1>1, <1>8 DEF Rounds
  <2>2. StepsLeft(h, q) = Cardinality(q.left) * turn + 2 * Cardinality(q.rest) + 1 + 1
    BY <1>8 DEF StepsLeft
  <2>3. StepsLeft(h, r) = Cardinality(q.left) * turn + 2 * Cardinality(q.rest) + 0 + 1
    BY <2>1 DEF StepsLeft
  <2> HIDE DEF turn
  <2> QED
    BY <1>1, <1>4, <2>2, <2>3
<1>9. CASE q.pc = "send" /\ q.rest = {} /\ q.left = {} /\ r = Asleep(h)
  <2>1. StepsLeft(h, q) = 0 * turn + 2 * 0 + 0 + 1
    BY <1>2, <1>9 DEF StepsLeft
  <2>2. StepsLeft(h, r) = 0
    BY <1>9 DEF StepsLeft, Asleep
  <2> HIDE DEF turn
  <2> QED
    BY <1>3, <2>1, <2>2
<1> QED
  BY <1>5, <1>6, <1>7, <1>8, <1>9 DEF RoundStep

\* A round of n peers and b bodies ends after n * (2 * b + 1) + 1 steps of its
\* own from the moment it has the mutex: every step of the system that touches
\* it takes exactly one off, no failing call and no other round adds one.
THEOREM RoundsShrink ==
  ASSUME IsFiniteSet(Hubs), IsFiniteSet(Descriptors)
  PROVE  Spec => RoundShrinks
<1>1. Inv /\ RestIsOfAPeer /\ [Next]_vars =>
        [\A h \in Hubs, t \in Tasks :
           task[h][t].pc # "sleep" /\ task'[h][t] # task[h][t]
             => StepsLeft(h, task'[h][t]) = StepsLeft(h, task[h][t]) - 1]_vars
  <2> SUFFICES ASSUME Inv, RestIsOfAPeer, [Next]_vars, NEW h \in Hubs, NEW t \in Tasks,
                      task[h][t].pc # "sleep", task'[h][t] # task[h][t]
               PROVE  StepsLeft(h, task'[h][t]) = StepsLeft(h, task[h][t]) - 1
    OBVIOUS
  <2>1. RoundOf(h, t, task[h][t]) /\ (task[h][t].pc = "lock" => task[h][t].rest = {})
    BY DEF Inv, RoundsOK, RestIsOfAPeer
  <2>2. RoundStep(h, t, task[h][t], task'[h][t])
    BY RoundSteps
  <2> QED
    BY <2>1, <2>2, StepShrinks
<1> QED
  BY <1>1, Invariance, RestInvariant, PTL DEF Spec, RoundShrinks

\* FirstOf takes at most n descriptors: all but the last one it takes come
\* before that one, and fewer than n do.
LEMMA FirstOfBounded ==
  ASSUME NEW held \in SUBSET Descriptors, IsFiniteSet(held), NEW n \in Nat
  PROVE  Cardinality(FirstOf(held, n)) <= n
<1> DEFINE before(d) == {e \in held : Rank[e.id] < Rank[d.id]}
           F == FirstOf(held, n)
           room == {n - Cardinality(before(d)) : d \in F}
<1>1. \A d \in held : Rank[d.id] \in Nat
  BY DescriptorsAssumption, RankAssumption DEF Descriptor
<1>2. ASSUME NEW d \in held
      PROVE  IsFiniteSet(before(d)) /\ Cardinality(before(d)) \in Nat
  <2>1. before(d) \subseteq held
    OBVIOUS
  <2> HIDE DEF before
  <2> QED
    BY <2>1, FS_Subset, FS_CardinalityType
<1>3. F \subseteq held /\ \A d \in F : Cardinality(before(d)) < n
  BY DEF FirstOf
<1>4. CASE F = {}
  BY <1>4, FS_EmptySet
<1>5. CASE F # {}
  <2>1. room \in SUBSET Nat /\ room # {}
    <3>1. ASSUME NEW d \in F
          PROVE  n - Cardinality(before(d)) \in Nat
      <4>1. Cardinality(before(d)) \in Nat /\ Cardinality(before(d)) < n
        BY <1>2, <1>3
      <4> HIDE DEF before
      <4> QED
        BY <4>1
    <3> QED
      BY <1>5, <3>1
  <2>2. PICK m \in room : \A k \in room : m <= k
    <3> HIDE DEF room
    <3> QED
      BY <2>1, LeastNatural
  <2>3. PICK d \in F : m = n - Cardinality(before(d))
    OBVIOUS
  <2>4. ASSUME NEW e \in F
        PROVE  Cardinality(before(e)) <= Cardinality(before(d))
    <3>1. n - Cardinality(before(d)) <= n - Cardinality(before(e))
      BY <2>2, <2>3
    <3>2. Cardinality(before(d)) \in Nat /\ Cardinality(before(e)) \in Nat
      BY <1>2, <1>3
    <3> HIDE DEF before
    <3> QED
      BY <3>1, <3>2
  <2>5. ASSUME NEW e \in F, e # d
        PROVE  e \in before(d)
    <3>1. Rank[e.id] # Rank[d.id]
      BY <1>3, <2>5, UniqueIds
    <3>2. CASE Rank[d.id] < Rank[e.id]
      <4>1. before(d) \cup {d} \subseteq before(e) /\ d \notin before(d)
        BY <1>1, <1>3, <3>2
      <4>2. IsFiniteSet(before(d)) /\ IsFiniteSet(before(e))
            /\ Cardinality(before(d)) \in Nat /\ Cardinality(before(e)) \in Nat
        BY <1>2, <1>3
      <4> HIDE DEF before
      <4>3. Cardinality(before(d) \cup {d}) = Cardinality(before(d)) + 1
        BY <4>1, <4>2, FS_AddElement
      <4>4. Cardinality(before(d) \cup {d}) <= Cardinality(before(e))
        BY <4>1, <4>2, FS_Subset
      <4> QED
        BY <2>4, <4>2, <4>3, <4>4
    <3> QED
      BY <1>1, <1>3, <3>1, <3>2
  <2>6. F \subseteq before(d) \cup {d} /\ d \in held /\ d \notin before(d)
    BY <1>1, <1>3, <2>5
  <2>7. IsFiniteSet(before(d)) /\ Cardinality(before(d)) \in Nat /\ Cardinality(before(d)) < n
    BY <1>2, <1>3
  <2> HIDE DEF before, F
  <2>8. /\ IsFiniteSet(before(d) \cup {d})
        /\ Cardinality(before(d) \cup {d}) = Cardinality(before(d)) + 1
    BY <2>6, <2>7, FS_AddElement
  <2>9. Cardinality(F) <= Cardinality(before(d) \cup {d}) /\ Cardinality(F) \in Nat
    BY <2>6, <2>8, FS_Subset, FS_CardinalityType
  <2>10. Cardinality(F) <= n
    BY <2>7, <2>8, <2>9
  <2> QED
    BY <2>10 DEF F
<1> QED
  BY <1>4, <1>5

\* A hub sends no more than MAX_GOSSIP_BATCH descriptors to a peer in a round,
\* however large its catalog is.
THEOREM BatchesBounded ==
  ASSUME IsFiniteSet(Descriptors)
  PROVE  Spec => []BatchBounded
<1>0. Cardinality({}) = 0 /\ MAX_GOSSIP_BATCH \in Nat
  BY FS_EmptySet, BoundsAssumption
<1>1. Init => BatchBounded
  <2> SUFFICES ASSUME Init, NEW h \in Hubs
               PROVE  Cardinality(task[h]["gossip"].batch) <= MAX_GOSSIP_BATCH
    BY DEF BatchBounded
  <2>1. task[h]["gossip"].batch = {}
    BY DEF Init, Asleep, Tasks
  <2> QED
    BY <1>0, <2>1
<1>2. Inv /\ BatchBounded /\ [Next]_vars => BatchBounded'
  <2> SUFFICES ASSUME Inv, BatchBounded, [Next]_vars, NEW h \in Hubs
               PROVE  Cardinality(task'[h]["gossip"].batch) <= MAX_GOSSIP_BATCH
    BY DEF BatchBounded
  <2>1. "gossip" \in Tasks /\ task[h]["gossip"] \in Rounds
    BY DEF Inv, TypeOK, Tasks
  <2>2. Cardinality(task[h]["gossip"].batch) <= MAX_GOSSIP_BATCH
    BY DEF BatchBounded
  <2>3. \/ task'[h]["gossip"].batch = task[h]["gossip"].batch
        \/ task'[h]["gossip"].batch = {}
        \/ task'[h]["gossip"].batch = FirstOf(catalog[h], MAX_GOSSIP_BATCH)
    <3>1. CASE task'[h]["gossip"] = task[h]["gossip"]
      BY <3>1
    <3>2. CASE task'[h]["gossip"] # task[h]["gossip"]
      <4>1. RoundStep(h, "gossip", task[h]["gossip"], task'[h]["gossip"])
        BY <2>1, <3>2, RoundSteps
      <4> QED
        BY <2>1, <4>1, StepBatch
    <3> QED
      BY <3>1, <3>2
  <2>4. Cardinality(FirstOf(catalog[h], MAX_GOSSIP_BATCH)) <= MAX_GOSSIP_BATCH
    <3>1. catalog[h] \in SUBSET Descriptors /\ IsFiniteSet(catalog[h])
      BY FS_Subset DEF Inv, TypeOK
    <3> QED
      BY <3>1, FirstOfBounded, BoundsAssumption
  <2> QED
    BY <1>0, <2>2, <2>3, <2>4
<1> QED
  BY <1>1, <1>2, Invariance, PTL DEF Spec

-----------------------------------------------------------------------------
(* What replication does to the catalogs.                                   *)

\* Replication invents nothing: what a hub holds, is about to send or has under
\* way was published by a client.
NothingInvented ==
  /\ \A h \in Hubs :
       /\ catalog[h] \subseteq published
       /\ \A t \in Tasks : task[h][t].batch \cup task[h][t].rest \subseteq published \cup {Ping}
  /\ \A r \in handlers : r.body \in published \cup {Ping}

\* A hub holds one version of a slot.
OnePerSlot ==
  \A h \in Hubs : \A d, e \in catalog[h] : DedupKey(d) = DedupKey(e) => d = e

\* The newest version of a slot that was ever published is never lost: some hub
\* holds it, or one with the same sequence.
NewestIsKept ==
  \A d \in published :
    \E h \in Hubs : \E e \in catalog[h] :
      DedupKey(e) = DedupKey(d) /\ e.sequence >= d.sequence

\* What a merge does to a catalog with one version per slot.
LEMMA MergeSlots ==
  ASSUME NEW held \in SUBSET Descriptors, NEW d \in Descriptors
  PROVE  /\ Merge(held, d) \subseteq held \cup {d}
         /\ \A e \in held : DedupKey(e) # DedupKey(d) => e \in Merge(held, d)
         /\ \E e \in Merge(held, d) : DedupKey(e) = DedupKey(d) /\ e.sequence >= d.sequence
         /\ (\A e, f \in held : DedupKey(e) = DedupKey(f) => e = f)
              => \A e, f \in Merge(held, d) : DedupKey(e) = DedupKey(f) => e = f
<1>1. \A e \in Descriptors : e.sequence \in Nat
  BY DescriptorsAssumption DEF Descriptor
<1>2. CASE \E e \in held : DedupKey(e) = DedupKey(d) /\ d.sequence < e.sequence
  BY <1>1, <1>2 DEF Merge
<1>3. CASE ~\E e \in held : DedupKey(e) = DedupKey(d) /\ d.sequence < e.sequence
  <2>1. Merge(held, d) = {e \in held : DedupKey(e) # DedupKey(d)} \cup {d}
    BY <1>3 DEF Merge
  <2>2. d.sequence >= d.sequence
    BY <1>1
  <2> QED
    BY <2>1, <2>2
<1> QED
  BY <1>2, <1>3

\* One descriptor is merged into one catalog, and it is one that is published
\* in this step, or that a request carries.
Merged(g, f) ==
  /\ catalog' = [catalog EXCEPT ![g] = Merge(@, f)]
  /\ \/ published' = published \cup {f}
     \/ published' = published /\ \E r \in handlers : r.body = f

\* A step merges one descriptor into one catalog or leaves all of them alone.
LEMMA CatalogStep ==
  ASSUME Inv, [Next]_vars
  PROVE  \/ catalog' = catalog /\ published' = published
         \/ \E g \in Hubs, f \in Descriptors : Merged(g, f)
<1>1. ASSUME NEW h \in Hubs, NEW t \in Tasks, TaskStep(h, t) \/ CallFails(h, t)
      PROVE  catalog' = catalog /\ published' = published
  BY <1>1 DEF TaskStep, Begin, Acquire, NextPeer, Send, Finish, CallFails
<1>2. ASSUME NEW r \in handlers, Handle(r)
      PROVE  \/ catalog' = catalog /\ published' = published
             \/ \E g \in Hubs, f \in Descriptors : Merged(g, f)
  <2>1. published' = published
    BY <1>2 DEF Handle
  <2>2. CASE r.body = Ping
    BY <1>2, <2>1, <2>2 DEF Handle
  <2>3. CASE r.body # Ping
    <3>1. r.to \in Hubs /\ r.body \in Descriptors
      BY <2>3 DEF Inv, TypeOK, Requests, Bodies
    <3>2. catalog' = [catalog EXCEPT ![r.to] = Merge(@, r.body)]
      BY <1>2, <2>3 DEF Handle
    <3>3. Merged(r.to, r.body)
      BY <2>1, <3>2 DEF Merged
    <3> QED
      BY <3>1, <3>3
  <2> QED
    BY <2>2, <2>3
<1>3. ASSUME NEW h \in Hubs, NEW d \in Descriptors, Publish(h, d)
      PROVE  Merged(h, d)
  BY <1>3 DEF Publish, Merged
<1>4. CASE UNCHANGED vars
  BY <1>4 DEF vars
<1> QED
  BY <1>1, <1>2, <1>3, <1>4 DEF Next

\* The effect of a merge on each catalog.
LEMMA MergedCatalogs ==
  ASSUME Inv, NEW g \in Hubs, NEW f \in Descriptors, Merged(g, f)
  PROVE  /\ catalog'[g] = Merge(catalog[g], f)
         /\ \A h \in Hubs : h # g => catalog'[h] = catalog[h]
         /\ \A h \in Hubs : catalog[h] \in SUBSET Descriptors
         /\ published \subseteq published'
BY DEF Inv, TypeOK, Merged

\* A round that changes keeps to what is published.
LEMMA StepBodies ==
  ASSUME NEW h, NEW t, NEW q \in Rounds, NEW r, RoundStep(h, t, q, r), NEW S,
         q.batch \subseteq S, q.rest \subseteq S, catalog[h] \subseteq S, Ping \in S, t \in Tasks
  PROVE  r.batch \subseteq S /\ r.rest \subseteq S
<1>1. ASSUME NEW batch \in SUBSET BodiesOf(t),
             r = [q EXCEPT !.pc = "lock", !.batch = batch],
             t = "gossip" => batch = FirstOf(catalog[h], MAX_GOSSIP_BATCH)
      PROVE  r.batch \subseteq S /\ r.rest \subseteq S
  <2>1. r.batch = batch /\ r.rest = q.rest
    BY <1>1 DEF Rounds
  <2>2. batch \subseteq S
    BY <1>1 DEF FirstOf, BodiesOf, Tasks
  <2> QED
    BY <2>1, <2>2
<1>2. ASSUME NEW g, r = [q EXCEPT !.peer = g, !.left = @ \ {g}, !.rest = q.batch]
      PROVE  r.batch \subseteq S /\ r.rest \subseteq S
  BY <1>2 DEF Rounds
<1>3. ASSUME NEW body, r = [q EXCEPT !.pc = "await", !.rest = @ \ {body}]
      PROVE  r.batch \subseteq S /\ r.rest \subseteq S
  BY <1>3 DEF Rounds
<1>4. ASSUME NEW left, r = [q EXCEPT !.pc = "send", !.left = left]
      PROVE  r.batch \subseteq S /\ r.rest \subseteq S
  BY <1>4 DEF Rounds
<1>5. ASSUME r = [q EXCEPT !.pc = "send"]
      PROVE  r.batch \subseteq S /\ r.rest \subseteq S
  BY <1>5 DEF Rounds
<1>6. Asleep(h).batch = {} /\ Asleep(h).rest = {}
  BY DEF Asleep
<1> QED
  BY <1>1, <1>2, <1>3, <1>4, <1>5, <1>6 DEF RoundStep

\* A request carries what its round had to send.
LEMMA RequestBodies ==
  ASSUME Inv, [Next]_vars, NEW r \in handlers'
  PROVE  \/ \E c \in handlers : r.body = c.body
         \/ \E h \in Hubs, t \in Tasks : r.body \in task[h][t].rest
<1>1. ASSUME NEW h \in Hubs, NEW t \in Tasks, Send(h, t)
      PROVE  r \in handlers \/ r.body \in task[h][t].rest
  BY <1>1 DEF Send
<1>2. ASSUME NEW h \in Hubs, NEW t \in Tasks,
             Begin(h, t) \/ Acquire(h, t) \/ NextPeer(h, t) \/ Finish(h, t)
      PROVE  r \in handlers
  BY <1>2 DEF Begin, Acquire, NextPeer, Finish
<1>3. ASSUME NEW h \in Hubs, NEW t \in Tasks, CallFails(h, t)
      PROVE  \E c \in handlers : r.body = c.body
  <2>1. \/ r \in handlers
        \/ \E c \in handlers : r = [c EXCEPT !.from = Client]
    BY <1>3 DEF CallFails
  <2>2. ASSUME NEW c \in handlers
        PROVE  [c EXCEPT !.from = Client].body = c.body
    BY DEF Inv, TypeOK, Requests
  <2> QED
    BY <2>1, <2>2
<1>4. ASSUME NEW c \in handlers, Handle(c)
      PROVE  r \in handlers
  BY <1>4 DEF Handle
<1>5. ASSUME NEW h \in Hubs, NEW d \in Descriptors, Publish(h, d)
      PROVE  r \in handlers
  BY <1>5 DEF Publish
<1>6. CASE UNCHANGED vars
  BY <1>6 DEF vars
<1> QED
  BY <1>1, <1>2, <1>3, <1>4, <1>5, <1>6 DEF Next, TaskStep

\* Hubs replicate what clients published and nothing else, over any number of
\* hops, of stale snapshots and of handlers that outlive their call.
THEOREM ReplicationInventsNothing == Spec => []NothingInvented
<1>1. Init => NothingInvented
  <2> SUFFICES ASSUME Init PROVE NothingInvented
    OBVIOUS
  <2>1. \A h \in Hubs : catalog[h] = {} /\ \A t \in Tasks : task[h][t] = Asleep(h)
    BY DEF Init
  <2>2. \A h \in Hubs : Asleep(h).batch = {} /\ Asleep(h).rest = {}
    BY DEF Asleep
  <2> QED
    BY <2>1, <2>2 DEF Init, NothingInvented
<1>2. Inv /\ NothingInvented /\ [Next]_vars => NothingInvented'
  <2> SUFFICES ASSUME Inv, NothingInvented, [Next]_vars
               PROVE  NothingInvented'
    OBVIOUS
  <2>1. published \subseteq published'
    BY CatalogStep DEF Merged
  <2>2. \A r \in handlers : r.body \in published \cup {Ping}
    BY DEF NothingInvented
  <2>3. ASSUME NEW h \in Hubs, NEW t \in Tasks
        PROVE  /\ task[h][t].batch \subseteq published \cup {Ping}
               /\ task[h][t].rest \subseteq published \cup {Ping}
    BY DEF NothingInvented
  <2>4. ASSUME NEW h \in Hubs
        PROVE  catalog'[h] \subseteq published'
    <3>1. catalog[h] \subseteq published
      BY DEF NothingInvented
    <3>2. ASSUME NEW g \in Hubs, NEW f \in Descriptors, Merged(g, f)
          PROVE  catalog'[h] \subseteq published'
      <4>1. f \in published'
        <5>1. CASE published' = published \cup {f}
          BY <5>1
        <5>2. CASE published' = published /\ \E r \in handlers : r.body = f
          BY <2>2, <5>2, NamesAssumption
        <5> QED
          BY <3>2, <5>1, <5>2 DEF Merged
      <4>2. catalog'[h] \subseteq catalog[h] \cup {f}
        BY <3>2, MergedCatalogs, MergeSlots
      <4> QED
        BY <2>1, <3>1, <4>1, <4>2
    <3> QED
      BY <2>1, <3>1, <3>2, CatalogStep
  <2>5. ASSUME NEW h \in Hubs, NEW t \in Tasks
        PROVE  /\ task'[h][t].batch \subseteq published' \cup {Ping}
               /\ task'[h][t].rest \subseteq published' \cup {Ping}
    <3>1. CASE task'[h][t] = task[h][t]
      BY <2>1, <2>3, <3>1
    <3>2. CASE task'[h][t] # task[h][t]
      <4>1. RoundStep(h, t, task[h][t], task'[h][t]) /\ task[h][t] \in Rounds
        BY <3>2, RoundSteps DEF Inv, TypeOK
      <4>2. catalog[h] \subseteq published \cup {Ping} /\ Ping \in published \cup {Ping}
        BY DEF NothingInvented
      <4>3. /\ task'[h][t].batch \subseteq published \cup {Ping}
            /\ task'[h][t].rest \subseteq published \cup {Ping}
        <5> DEFINE S == published \cup {Ping}
        <5>1. /\ task[h][t].batch \subseteq S /\ task[h][t].rest \subseteq S
              /\ catalog[h] \subseteq S /\ Ping \in S
          BY <2>3, <4>2
        <5> HIDE DEF S
        <5>2. task'[h][t].batch \subseteq S /\ task'[h][t].rest \subseteq S
          BY <4>1, <5>1, StepBodies
        <5> QED
          BY <5>2 DEF S
      <4> QED
        BY <2>1, <4>3
    <3> QED
      BY <3>1, <3>2
  <2>6. ASSUME NEW r \in handlers'
        PROVE  r.body \in published' \cup {Ping}
    BY <2>1, <2>2, <2>3, RequestBodies
  <2> QED
    BY <2>4, <2>5, <2>6 DEF NothingInvented
<1> QED
  BY <1>1, <1>2, Invariance, PTL DEF Spec

\* However descriptors arrive, a hub never holds two versions of a slot.
THEOREM OneVersionPerHub == Spec => []OnePerSlot
<1>1. Init => OnePerSlot
  BY DEF Init, OnePerSlot
<1>2. Inv /\ OnePerSlot /\ [Next]_vars => OnePerSlot'
  <2> SUFFICES ASSUME Inv, OnePerSlot, [Next]_vars, NEW h \in Hubs
               PROVE  \A d, e \in catalog'[h] : DedupKey(d) = DedupKey(e) => d = e
    BY DEF OnePerSlot
  <2>1. \A d, e \in catalog[h] : DedupKey(d) = DedupKey(e) => d = e
    BY DEF OnePerSlot
  <2>2. ASSUME NEW g \in Hubs, NEW f \in Descriptors, Merged(g, f)
        PROVE  \A d, e \in catalog'[h] : DedupKey(d) = DedupKey(e) => d = e
    <3>1. CASE h = g
      BY <2>1, <2>2, <3>1, MergedCatalogs, MergeSlots
    <3>2. CASE h # g
      BY <2>1, <2>2, <3>2, MergedCatalogs
    <3> QED
      BY <3>1, <3>2
  <2> QED
    BY <2>1, <2>2, CatalogStep
<1> QED
  BY <1>1, <1>2, Invariance, PTL DEF Spec

\* What a client has published stays in the network, in that version or a newer
\* one; with ReplicationInventsNothing, the newest published version of every
\* slot is held by some hub at all times.
THEOREM NewestStays == Spec => []NewestIsKept
<1>1. Init => NewestIsKept
  BY DEF Init, NewestIsKept
<1>2. Inv /\ NewestIsKept /\ [Next]_vars => NewestIsKept'
  <2> SUFFICES ASSUME Inv, NewestIsKept, [Next]_vars, NEW d \in published'
               PROVE  \E h \in Hubs : \E e \in catalog'[h] :
                        DedupKey(e) = DedupKey(d) /\ e.sequence >= d.sequence
    BY DEF NewestIsKept
  <2>1. CASE d \in published
    <3>0. PICK h \in Hubs : \E e \in catalog[h] :
            DedupKey(e) = DedupKey(d) /\ e.sequence >= d.sequence
      BY <2>1 DEF NewestIsKept
    <3>1. PICK e \in catalog[h] : DedupKey(e) = DedupKey(d) /\ e.sequence >= d.sequence
      BY <3>0
    <3>2. PICK f \in catalog'[h] : DedupKey(f) = DedupKey(e) /\ f.sequence >= e.sequence
      BY StepVersions
    <3>3. d.sequence \in Nat /\ e.sequence \in Nat /\ f.sequence \in Nat
      <4>1. d \in Descriptors /\ e \in Descriptors /\ f \in Descriptors
        BY <2>1, StepInv DEF Inv, TypeOK
      <4> QED
        BY <4>1, DescriptorsAssumption DEF Descriptor
    <3> QED
      BY <3>1, <3>2, <3>3
  <2>2. CASE d \notin published
    <3>1. PICK g \in Hubs, f \in Descriptors : Merged(g, f)
      BY <2>2, CatalogStep
    <3>2. f = d
      BY <2>2, <3>1 DEF Merged
    <3> QED
      BY <3>1, <3>2, MergedCatalogs, MergeSlots
  <2> QED
    BY <2>1, <2>2
<1> QED
  BY <1>1, <1>2, Invariance, PTL DEF Spec

-----------------------------------------------------------------------------
(* Every hub of the network keeps the promise of a descriptor store.        *)

\* The slots of a catalog; a PING is no descriptor and stands for an empty slot.
SlotsOf(held) ==
  [dk \in DedupKeys |->
     IF \E d \in held : DedupKey(d) = dk THEN CHOOSE d \in held : DedupKey(d) = dk ELSE Ping]

Slots(h) == INSTANCE DescriptorSlots WITH Vacant <- Ping, slot <- SlotsOf(catalog[h]), clock <- 0

\* The operators that the instance takes from Descriptors are those of HubGossip.
LEMMA SameNotions ==
  ASSUME NEW h
  PROVE  /\ Slots(h)!DedupKeys = DedupKeys
         /\ \A d : Slots(h)!DedupKey(d) = DedupKey(d)
         /\ \A d, t : Slots(h)!Expired(d, t) = Expired(d, t)
BY DEF DedupKeys, Slots!DedupKeys, DedupKey, Slots!DedupKey,
       Expired, Slots!Expired, EffectiveStart, Slots!EffectiveStart

Unambiguous(held) == \A d, e \in held : DedupKey(d) = DedupKey(e) => d = e

\* A slot shows the version the catalog holds, or that it holds none.
LEMMA SlotShows ==
  ASSUME NEW held, Unambiguous(held), NEW dk \in DedupKeys
  PROVE  /\ \A d \in held : DedupKey(d) = dk => SlotsOf(held)[dk] = d
         /\ (\A d \in held : DedupKey(d) # dk) => SlotsOf(held)[dk] = Ping
<1>1. ASSUME NEW d \in held, DedupKey(d) = dk
      PROVE  SlotsOf(held)[dk] = d
  <2>1. SlotsOf(held)[dk] = CHOOSE e \in held : DedupKey(e) = dk
    BY <1>1 DEF SlotsOf
  <2>2. SlotsOf(held)[dk] \in held /\ DedupKey(SlotsOf(held)[dk]) = dk
    BY <1>1, <2>1
  <2> QED
    BY <1>1, <2>2 DEF Unambiguous
<1>2. ASSUME \A d \in held : DedupKey(d) # dk
      PROVE  SlotsOf(held)[dk] = Ping
  BY <1>2 DEF SlotsOf
<1> QED
  BY <1>1, <1>2

\* A merge changes one slot, to a version no older than the one that was there.
LEMMA MergeOneSlot ==
  ASSUME NEW held \in SUBSET Descriptors, Unambiguous(held), NEW f \in Descriptors,
         NEW dk \in DedupKeys, SlotsOf(Merge(held, f))[dk] # SlotsOf(held)[dk]
  PROVE  /\ dk = DedupKey(f)
         /\ SlotsOf(Merge(held, f))[dk] = f
         /\ SlotsOf(held)[dk] # Ping => SlotsOf(held)[dk].sequence <= f.sequence
<1> DEFINE held2 == Merge(held, f)
<1>1. \A e \in Descriptors : e.sequence \in Nat
  BY DescriptorsAssumption DEF Descriptor
<1>2. Unambiguous(held2)
  BY MergeSlots DEF Unambiguous
<1>3. ~\E e \in held : DedupKey(e) = DedupKey(f) /\ f.sequence < e.sequence
  BY DEF Merge
<1>4. held2 = {e \in held : DedupKey(e) # DedupKey(f)} \cup {f}
  BY <1>3 DEF Merge
<1> HIDE DEF held2
<1>5. dk = DedupKey(f)
  <2> SUFFICES ASSUME dk # DedupKey(f)
               PROVE  SlotsOf(held2)[dk] = SlotsOf(held)[dk]
    BY DEF held2
  <2>1. CASE \E d \in held : DedupKey(d) = dk
    <3>1. PICK d \in held : DedupKey(d) = dk
      BY <2>1
    <3>2. d \in held2
      BY <1>4, <3>1
    <3> QED
      BY <1>2, <3>1, <3>2, SlotShows
  <2>2. CASE \A d \in held : DedupKey(d) # dk
    <3>1. \A d \in held2 : DedupKey(d) # dk
      BY <1>4, <2>2
    <3> QED
      BY <1>2, <2>2, <3>1, SlotShows
  <2> QED
    BY <2>1, <2>2
<1>6. SlotsOf(held2)[dk] = f
  BY <1>2, <1>4, <1>5, SlotShows
<1>7. ASSUME SlotsOf(held)[dk] # Ping
      PROVE  SlotsOf(held)[dk].sequence <= f.sequence
  <2>1. PICK d \in held : DedupKey(d) = dk
    BY <1>7, SlotShows
  <2>2. SlotsOf(held)[dk] = d
    BY <2>1, SlotShows
  <2> QED
    BY <1>1, <1>3, <1>5, <2>1, <2>2
<1> QED
  BY <1>5, <1>6, <1>7 DEF held2

\* A merge into a catalog is a request of the publisher of what is merged.
LEMMA MergeIsRequest ==
  ASSUME Inv, OnePerSlot, NEW h \in Hubs, NEW f \in Descriptors,
         catalog'[h] = Merge(catalog[h], f)
  PROVE  Slots(h)!Request(f.publisher)
<1>1. DedupKey(f)[1] = f.publisher
  BY DEF DedupKey
<1>2. catalog[h] \in SUBSET Descriptors /\ Unambiguous(catalog[h])
  BY DEF Inv, TypeOK, OnePerSlot, Unambiguous
<1>3. ~Expired(f, 0)
  BY ValidAssumption DEF validate
<1>4. ASSUME NEW dk \in DedupKeys, SlotsOf(catalog'[h])[dk] # SlotsOf(catalog[h])[dk]
      PROVE  dk[1] = f.publisher /\ Slots(h)!Written(dk)
  <2>1. /\ dk = DedupKey(f) /\ SlotsOf(catalog'[h])[dk] = f
        /\ SlotsOf(catalog[h])[dk] # Ping => SlotsOf(catalog[h])[dk].sequence <= f.sequence
    BY <1>2, <1>4, MergeOneSlot
  <2> QED
    BY <1>1, <1>3, <2>1, SameNotions DEF Slots!Written
<1> QED
  BY <1>4, SameNotions DEF Slots!Request

\* Each hub of the network, on its own, implements DescriptorSlots, the promise
\* that the in-memory store and the redb tables are shown to keep: gossip from
\* any number of peers, stale or late, changes a slot only as a request of its
\* publisher may.
THEOREM EveryHubImplementsSlots ==
  ASSUME NEW CONSTANT h \in Hubs
  PROVE  Spec => Slots(h)!Spec
<1>1. Init => Slots(h)!Init
  <2> SUFFICES ASSUME Init PROVE Slots(h)!Init
    OBVIOUS
  <2>1. catalog[h] = {}
    BY DEF Init
  <2>2. SlotsOf({}) = [dk \in DedupKeys |-> Ping]
    BY DEF SlotsOf
  <2> QED
    BY <2>1, <2>2, SameNotions DEF Slots!Init
<1>2. Inv /\ OnePerSlot /\ [Next]_vars => [Slots(h)!Next]_(Slots(h)!svars)
  <2> SUFFICES ASSUME Inv, OnePerSlot, [Next]_vars
               PROVE  Slots(h)!Next \/ SlotsOf(catalog[h])' = SlotsOf(catalog[h])
    BY DEF Slots!svars
  <2>1. CASE catalog' = catalog
    BY <2>1
  <2>2. ASSUME NEW g \in Hubs, NEW f \in Descriptors, Merged(g, f)
        PROVE  Slots(h)!Next \/ SlotsOf(catalog[h])' = SlotsOf(catalog[h])
    <3>1. CASE g = h
      <4>1. f.publisher \in Identities
        BY DescriptorsAssumption DEF Descriptor
      <4>2. Slots(h)!Request(f.publisher)
        BY <2>2, <3>1, MergedCatalogs, MergeIsRequest
      <4> QED
        BY <4>1, <4>2 DEF Slots!Next
    <3>2. CASE g # h
      BY <2>2, <3>2, MergedCatalogs
    <3> QED
      BY <3>1, <3>2
  <2> QED
    BY <2>1, <2>2, CatalogStep
<1> QED
  BY <1>1, <1>2, Invariance, OneVersionPerHub, PTL DEF Spec, Slots!Spec
=============================================================================
