--------------------------- MODULE DhtNodeProofs ---------------------------
(***************************************************************************)
(* Proofs about RoutingTable and DhtNode, for any network, ids, tables and *)
(* bounds: the routing tables stay well formed and lose no node, a lookup  *)
(* that finds nothing in a small network has asked every node it knows,    *)
(* and a publish that reports success has placed the descriptor on a       *)
(* server.                                                                 *)
(***************************************************************************)
EXTENDS DhtNode, FiniteSetTheorems, TLAPS

-----------------------------------------------------------------------------
(* What add_node does to a routing table, and what the loops over the nodes *)
(* of an answer do.  The loop is a recursive function: that it is well      *)
(* defined, and what it keeps, follows from the least length for which it   *)
(* would not be so.                                                         *)

\* Every nonempty set of natural numbers has a least element.
LEMMA LeastNatural ==
  ASSUME NEW S \in SUBSET Nat, S # {}
  PROVE  \E n \in S : \A m \in S : n <= m
<1> DEFINE T == {0..n : n \in S}
<1>1. T \subseteq FiniteSubsetsOf(Nat) /\ T # {}
  <2>1. \A n \in S : 0..n \in FiniteSubsetsOf(Nat)
    BY FS_Interval DEF FiniteSubsetsOf
  <2> QED BY <2>1
<1>2. PICK x \in T : \A y \in T : ~(<<y, x>> \in StrictSubsetOrdering(Nat))
  <2> HIDE DEF T
  <2> QED BY <1>1, FS_StrictSubsetOrderingWellFounded, WFMin
<1>3. PICK n \in S : x = 0..n
  OBVIOUS
<1>4. ASSUME NEW m \in S, m < n PROVE FALSE
  <2>1. n \in 0..n /\ n \notin 0..m
    BY <1>4
  <2>2. 0..m \subseteq 0..n /\ 0..m # 0..n /\ 0..m \in SUBSET Nat /\ 0..n \in SUBSET Nat
    BY <1>4, <2>1
  <2>3. <<0..m, x>> \in StrictSubsetOrdering(Nat)
    BY <2>2, <1>3 DEF StrictSubsetOrdering
  <2> QED BY <2>3, <1>2
<1> QED BY <1>4

\* A distance has between none and all of its leading bits zero, and all of
\* them only when it is zero (distance.rs, leading_zeros).
LEMMA LeadingZeros ==
  ASSUME NEW d \in Hash
  PROVE  /\ leading_zeros(d) \in 0..NUM_BUCKETS
         /\ \A i \in 1..leading_zeros(d) : d[i] = 0
         /\ leading_zeros(d) < NUM_BUCKETS => d[leading_zeros(d) + 1] = 1
<1> DEFINE Ends(z) == /\ \A i \in 1..z : d[i] = 0
                      /\ z < NUM_BUCKETS => d[z + 1] = 1
           Ones == {i \in 1..NUM_BUCKETS : d[i] = 1}
<1>1. \E z \in 0..NUM_BUCKETS : Ends(z)
  <2>1. CASE Ones = {}
    <3>1. \A i \in 1..NUM_BUCKETS : d[i] = 0
      BY <2>1 DEF Hash
    <3> QED BY <3>1, TableAssumption
  <2>2. CASE Ones # {}
    <3>1. PICK f \in Ones : \A g \in Ones : f <= g
      <4>1. Ones \in SUBSET Nat
        BY TableAssumption
      <4> HIDE DEF Ones
      <4> QED BY <4>1, <2>2, LeastNatural
    <3>2. f - 1 \in 0..NUM_BUCKETS /\ d[(f - 1) + 1] = 1
      BY TableAssumption
    <3>3. ASSUME NEW i \in 1..(f - 1) PROVE d[i] = 0
      <4>1. i \in 1..NUM_BUCKETS /\ ~(f <= i)
        BY TableAssumption
      <4> QED BY <4>1, <3>1 DEF Hash
    <3> QED BY <3>2, <3>3
  <2> QED BY <2>1, <2>2
<1>2. leading_zeros(d) = CHOOSE z \in 0..NUM_BUCKETS : Ends(z)
  BY DEF leading_zeros
<1> HIDE DEF Ends
<1>3. leading_zeros(d) \in 0..NUM_BUCKETS /\ Ends(leading_zeros(d))
  BY <1>1, <1>2
<1> QED BY <1>3 DEF Ends

\* Every node but the local one has a bucket (routing.rs, bucket_for).
LEMMA BucketFor ==
  ASSUME NEW local \in Nodes, NEW n \in Nodes
  PROVE  /\ n # local => bucket_for(local, n) \in Indexes
         /\ bucket_for(local, n) \in Indexes \cup {NoBucket}
         /\ bucket_for(local, local) = NoBucket
<1> DEFINE d(m) == xor_distance(node_id[local], node_id[m])
<1>1. \A m \in Nodes : d(m) \in Hash
  BY DEF xor_distance, Hash
<1>2. \A m \in Nodes : leading_zeros(d(m)) \in 0..NUM_BUCKETS
  BY <1>1, LeadingZeros
<1>3. \A m \in Nodes : bucket_for(local, m) \in Indexes \cup {NoBucket}
  BY <1>2, TableAssumption DEF bucket_for, bucket_index, Indexes
<1>4. leading_zeros(d(local)) = NUM_BUCKETS
  <2>1. \A i \in 1..NUM_BUCKETS : d(local)[i] = 0
    BY DEF xor_distance
  <2>2. ASSUME leading_zeros(d(local)) < NUM_BUCKETS PROVE FALSE
    <3>1. d(local)[leading_zeros(d(local)) + 1] = 1
      BY <2>2, <1>1, LeadingZeros
    <3>2. leading_zeros(d(local)) + 1 \in 1..NUM_BUCKETS
      BY <2>2, <1>2, TableAssumption
    <3> QED BY <3>1, <3>2, <2>1
  <2> QED BY <2>2, <1>2, TableAssumption
<1>5. bucket_for(local, local) = NoBucket
  BY <1>4, TableAssumption DEF bucket_for, bucket_index
<1>6. ASSUME n # local PROVE bucket_for(local, n) \in Indexes
  <2>1. leading_zeros(d(n)) < NUM_BUCKETS
    <3>1. PICK i \in 1..NUM_BUCKETS : node_id[local][i] # node_id[n][i]
      BY <1>6, TableAssumption DEF Hash
    <3>2. d(n)[i] = 1
      BY <3>1 DEF xor_distance
    <3>3. \A j \in 1..leading_zeros(d(n)) : d(n)[j] = 0
      BY <1>1, LeadingZeros
    <3> QED BY <3>2, <3>3, <1>2, TableAssumption
  <2> QED BY <2>1, <1>2, TableAssumption DEF bucket_for, bucket_index, Indexes
<1> QED BY <1>3, <1>5, <1>6

-----------------------------------------------------------------------------
(* One bucket.                                                              *)

\* No node has two entries.
Distinct(entries) ==
  \A p, q \in 1..Len(entries) : entries[p].node = entries[q].node => p = q

\* Removing an entry closes the gap (Vec::remove).
LEMMA RemoveAtEntries ==
  ASSUME NEW S, NEW s \in Seq(S), NEW i \in 1..Len(s)
  PROVE  /\ RemoveAt(s, i) \in Seq(S)
         /\ Len(RemoveAt(s, i)) = Len(s) - 1
         /\ \A p \in 1..(Len(s) - 1) :
              RemoveAt(s, i)[p] = IF p < i THEN s[p] ELSE s[p + 1]
<1> DEFINE a == SubSeq(s, 1, i - 1)
           b == SubSeq(s, i + 1, Len(s))
<1>1. a \in Seq(S) /\ Len(a) = i - 1 /\ \A p \in 1..(i - 1) : a[p] = s[p]
  OBVIOUS
<1>2. /\ b \in Seq(S) /\ Len(b) = Len(s) - i
      /\ \A p \in 1..(Len(s) - i) : b[p] = s[p + i]
  OBVIOUS
<1>3. RemoveAt(s, i) = a \o b
  BY DEF RemoveAt
<1> HIDE DEF a, b
<1>4. a \o b \in Seq(S) /\ Len(a \o b) = Len(s) - 1
  <2>1. a \in Seq(S) /\ b \in Seq(S)
    BY <1>1, <1>2
  <2>2. a \o b \in Seq(S) /\ Len(a \o b) = Len(a) + Len(b)
    BY <2>1
  <2>3. Len(a) = i - 1 /\ Len(b) = Len(s) - i /\ Len(s) \in Nat /\ i \in Int
    BY <1>1, <1>2
  <2> QED BY <2>2, <2>3
<1>5. ASSUME NEW p \in 1..(Len(s) - 1)
      PROVE  (a \o b)[p] = IF p < i THEN s[p] ELSE s[p + 1]
  <2>1. CASE p < i
    BY <2>1, <1>1, <1>2
  <2>2. CASE ~(p < i)
    <3>1. (a \o b)[p] = b[p - (i - 1)] /\ p - (i - 1) \in 1..(Len(s) - i)
      BY <2>2, <1>1, <1>2
    <3> QED BY <3>1, <2>2, <1>2
  <2> QED BY <2>1, <2>2
<1> QED BY <1>3, <1>4, <1>5

\* Hearing of a node keeps a bucket within its bound and without duplicates,
\* loses none of its nodes and adds no other (routing.rs, add_node).
LEMMA SeenEntries ==
  ASSUME NEW entries \in Seq(NodeInfo), NEW info \in NodeInfo,
         Len(entries) <= K, Distinct(entries)
  PROVE  LET after == Seen(entries, info)
         IN /\ after \in Seq(NodeInfo)
            /\ Len(after) <= K
            /\ Distinct(after)
            /\ NodesOf(entries) \subseteq NodesOf(after)
            /\ NodesOf(after) \subseteq NodesOf(entries) \cup {info.node}
<1> DEFINE known == Positions(entries, info.node)
           after == Seen(entries, info)
<1>1. CASE known # {}
  <2>1. PICK f \in known : First(known) = f
    <3>1. known \in SUBSET Nat
      BY DEF Positions
    <3>2. \E f \in known : \A q \in known : f <= q
      <4> HIDE DEF known
      <4> QED BY <3>1, <1>1, LeastNatural
    <3> QED BY <3>2 DEF First
  <2>2. f \in 1..Len(entries) /\ entries[f].node = info.node
    BY DEF Positions
  <2> DEFINE rest == RemoveAt(entries, f)
  <2>3. after = Append(rest, info)
    BY <1>1, <2>1 DEF Seen
  <2>4. /\ rest \in Seq(NodeInfo)
        /\ Len(rest) = Len(entries) - 1
        /\ \A p \in 1..(Len(entries) - 1) :
             rest[p] = IF p < f THEN entries[p] ELSE entries[p + 1]
    BY <2>2, RemoveAtEntries
  <2> HIDE DEF rest
  <2>5. /\ after \in Seq(NodeInfo)
        /\ Len(after) = Len(entries)
        /\ after[Len(entries)] = info
        /\ \A p \in 1..(Len(entries) - 1) :
             after[p] = IF p < f THEN entries[p] ELSE entries[p + 1]
    BY <2>3, <2>4
  <2> HIDE DEF after
  <2>6. Distinct(after)
    <3> SUFFICES ASSUME NEW p \in 1..Len(after), NEW q \in 1..Len(after),
                        after[p].node = after[q].node, p < q
                 PROVE  FALSE
      BY <2>5 DEF Distinct
    <3>1. p \in 1..(Len(entries) - 1)
      BY <2>5
    <3>2. PICK u \in 1..Len(entries) :
            /\ after[p] = entries[u] /\ u # f
            /\ u = IF p < f THEN p ELSE p + 1
      BY <3>1, <2>5, <2>2
    <3>3. CASE q = Len(entries)
      BY <3>2, <3>3, <2>5, <2>2 DEF Distinct
    <3>4. CASE q # Len(entries)
      <4>1. PICK v \in 1..Len(entries) :
              /\ after[q] = entries[v]
              /\ v = IF q < f THEN q ELSE q + 1
        BY <3>4, <2>5, <2>2
      <4>2. u # v
        BY <4>1, <3>2, <2>2
      <4>3. entries[u].node = entries[v].node
        BY <4>1, <3>2
      <4> QED BY <4>2, <4>3 DEF Distinct
    <3> QED BY <3>3, <3>4
  <2>7. NodesOf(entries) \subseteq NodesOf(after)
    <3> SUFFICES ASSUME NEW u \in 1..Len(entries)
                 PROVE  \E p \in 1..Len(after) : after[p].node = entries[u].node
      BY DEF NodesOf
    <3>1. CASE u = f
      BY <3>1, <2>2, <2>5
    <3>2. CASE u # f
      <4> DEFINE p == IF u < f THEN u ELSE u - 1
      <4>1. p \in 1..(Len(entries) - 1) /\ after[p] = entries[u]
        BY <3>2, <2>2, <2>5
      <4> QED BY <4>1, <2>5
    <3> QED BY <3>1, <3>2
  <2>8. NodesOf(after) \subseteq NodesOf(entries) \cup {info.node}
    BY <2>2, <2>5 DEF NodesOf
  <2> QED BY <2>5, <2>6, <2>7, <2>8 DEF after
<1>2. CASE known = {} /\ Len(entries) < K
  <2>1. after = Append(entries, info)
    BY <1>2 DEF Seen
  <2>2. /\ after \in Seq(NodeInfo)
        /\ Len(after) = Len(entries) + 1
        /\ after[Len(entries) + 1] = info
        /\ \A p \in 1..Len(entries) : after[p] = entries[p]
    BY <2>1
  <2>3. \A p \in 1..Len(entries) : entries[p].node # info.node
    BY <1>2 DEF Positions
  <2> HIDE DEF after
  <2>4. Len(after) <= K
    BY <1>2, <2>2, TableAssumption
  <2>5. Distinct(after)
    BY <2>2, <2>3 DEF Distinct
  <2>6. /\ NodesOf(entries) \subseteq NodesOf(after)
        /\ NodesOf(after) \subseteq NodesOf(entries) \cup {info.node}
    BY <2>2 DEF NodesOf
  <2> QED BY <2>2, <2>4, <2>5, <2>6 DEF after
<1>3. CASE known = {} /\ ~(Len(entries) < K)
  <2>1. after = entries
    BY <1>3 DEF Seen
  <2> QED BY <2>1
<1> QED BY <1>1, <1>2, <1>3

-----------------------------------------------------------------------------
(* The table.                                                               *)

\* after is a table that may come of before when local hears of the nodes
\* heard.
Grown(before, after, local, heard) ==
  /\ after \in Tables
  /\ WellFormed(after, local)
  /\ Known(before) \subseteq Known(after)
  /\ Known(after) \subseteq Known(before) \cup heard

\* A table never holds the node it belongs to (routing.rs, add_node).
THEOREM LocalNodeAbsent ==
  ASSUME NEW rt \in Tables, NEW local \in Nodes, WellFormed(rt, local)
  PROVE  local \notin Known(rt)
<1> SUFFICES ASSUME NEW i \in Indexes, NEW p \in 1..Len(rt[i]),
                    rt[i][p].node = local
             PROVE  FALSE
  BY DEF Known, NodesOf
<1>1. bucket_for(local, local) = i
  BY DEF WellFormed
<1> QED BY <1>1, BucketFor, TableAssumption DEF Indexes, NoBucket

\* add_node keeps a table well formed, loses no node and adds at most the one
\* it is given (routing.rs, add_node).
THEOREM AddNodeKeepsTable ==
  ASSUME NEW rt \in Tables, NEW local \in Nodes, NEW info \in NodeInfo,
         WellFormed(rt, local)
  PROVE  Grown(rt, add_node(rt, local, info), local, {info.node})
<1> DEFINE i == bucket_for(local, info.node)
           after == add_node(rt, local, info)
<1>0. info.node \in Nodes
  BY DEF NodeInfo
<1>1. CASE i = NoBucket
  <2>1. after = rt
    BY <1>1 DEF add_node
  <2> QED BY <2>1 DEF Grown
<1>2. CASE i # NoBucket
  <2>1. i \in Indexes
    BY <1>0, <1>2, BucketFor
  <2> DEFINE entries == rt[i]
             new == Seen(entries, info)
  <2>2. after = [rt EXCEPT ![i] = new]
    BY <1>2 DEF add_node
  <2>3. entries \in Seq(NodeInfo) /\ Len(entries) <= K /\ Distinct(entries)
    BY <2>1 DEF Tables, WellFormed, Distinct
  <2>4. /\ new \in Seq(NodeInfo) /\ Len(new) <= K /\ Distinct(new)
        /\ NodesOf(entries) \subseteq NodesOf(new)
        /\ NodesOf(new) \subseteq NodesOf(entries) \cup {info.node}
    <3> HIDE DEF entries
    <3> QED BY <2>3, SeenEntries
  <2>5. \A p \in 1..Len(new) : bucket_for(local, new[p].node) = i
    <3>1. TAKE p \in 1..Len(new)
    <3>2. new[p].node \in NodesOf(entries) \cup {info.node}
      BY <2>4 DEF NodesOf
    <3>3. \A u \in 1..Len(entries) : bucket_for(local, entries[u].node) = i
      BY <2>1 DEF WellFormed
    <3> HIDE DEF new, entries
    <3> QED BY <3>2, <3>3 DEF NodesOf
  <2>6. after \in Tables /\ after[i] = new /\ \A j \in Indexes \ {i} : after[j] = rt[j]
    <3> HIDE DEF new, after
    <3> QED BY <2>1, <2>2, <2>4 DEF Tables
  <2> HIDE DEF new, after
  <2>7. WellFormed(after, local)
    <3> SUFFICES ASSUME NEW j \in Indexes
                 PROVE  /\ Len(after[j]) <= K
                        /\ \A p \in 1..Len(after[j]) :
                             bucket_for(local, after[j][p].node) = j
                        /\ Distinct(after[j])
      BY DEF WellFormed, Distinct
    <3>1. CASE j = i
      BY <3>1, <2>4, <2>5, <2>6
    <3>2. CASE j # i
      BY <3>2, <2>6 DEF WellFormed, Distinct
    <3> QED BY <3>1, <3>2
  <2>8. Known(rt) \subseteq Known(after) /\ Known(after) \subseteq Known(rt) \cup {info.node}
    BY <2>1, <2>4, <2>6 DEF Known
  <2> QED BY <2>6, <2>7, <2>8 DEF Grown, after
<1> QED BY <1>1, <1>2

\* So do the loops of bootstrap, lookup_value and iterative_store over the
\* nodes of an answer, whatever the answer holds (node.rs).
THEOREM AddAllKeepsTable ==
  ASSUME NEW rt \in Tables, NEW local \in Nodes, NEW infos \in Seq(NodeInfo),
         WellFormed(rt, local)
  PROVE  Grown(rt, AddAll(rt, local, infos), local, NodesOf(infos))
<1> DEFINE L == Len(infos)
           Step(f, i) == IF i = 0 THEN rt ELSE add_node(f[i - 1], local, infos[i])
           Loop(f) == f = [i \in 0..L |-> Step(f, i)]
           Good(t) == Grown(rt, t, local, NodesOf(infos))
           Runs(n) == {g \in [0..n -> Tables] :
                         \A i \in 0..n : g[i] = Step(g, i) /\ Good(g[i])}
<1>1. L \in Nat /\ \A i \in 1..L : infos[i] \in NodeInfo /\ infos[i].node \in NodesOf(infos)
  BY DEF NodesOf
<1>2. AddAll(rt, local, infos) = (CHOOSE f : Loop(f))[L]
  BY DEF AddAll
<1>3. ASSUME NEW t \in Tables, Good(t), NEW i \in 1..L
      PROVE  Good(add_node(t, local, infos[i]))
  <2>1. Grown(t, add_node(t, local, infos[i]), local, {infos[i].node})
    BY <1>1, <1>3, AddNodeKeepsTable DEF Grown
  <2> QED BY <2>1, <1>1, <1>3 DEF Grown
<1>4. \A n \in 0..L : Runs(n) # {}
  <2> DEFINE Bad == {n \in 0..L : Runs(n) = {}}
  <2>1. SUFFICES ASSUME Bad # {} PROVE FALSE
    OBVIOUS
  <2>2. PICK n \in Bad : \A m \in Bad : n <= m
    <3>1. Bad \in SUBSET Nat
      BY <1>1
    <3> HIDE DEF Bad
    <3> QED BY <2>1, <3>1, LeastNatural
  <2>3. CASE n = 0
    <3>1. Good(rt)
      BY DEF Grown
    <3>2. [i \in 0..0 |-> rt] \in Runs(0)
      BY <3>1
    <3> QED BY <2>3, <3>2
  <2>4. CASE n # 0
    <3>1. n - 1 \in 0..L /\ n \in 1..L /\ ~(n <= n - 1)
      BY <2>4, <1>1
    <3>2. PICK g \in Runs(n - 1) : TRUE
      BY <3>1, <2>2
    <3> DEFINE t == add_node(g[n - 1], local, infos[n])
               h == [i \in 0..n |-> IF i = n THEN t ELSE g[i]]
    <3>3. g[n - 1] \in Tables /\ Good(g[n - 1])
      <4>1. n - 1 \in 0..(n - 1)
        BY <3>1
      <4> HIDE DEF Good
      <4> QED BY <3>2, <4>1
    <3>4. Good(t) /\ t \in Tables
      <4>1. Good(t)
        BY <3>1, <3>3, <1>3
      <4> QED BY <4>1 DEF Grown
    <3> HIDE DEF Good
    <3>5. \A i \in 0..(n - 1) : g[i] \in Tables /\ g[i] = Step(g, i) /\ Good(g[i])
      BY <3>2
    <3>6. h \in [0..n -> Tables]
      <4> HIDE DEF t
      <4> QED BY <3>1, <3>4, <3>5
    <3>7. ASSUME NEW i \in 0..n PROVE h[i] = Step(h, i) /\ Good(h[i])
      <4>1. CASE i = n
        <5>1. h[i] = t /\ h[i - 1] = g[n - 1]
          BY <4>1, <3>1
        <5> QED BY <5>1, <4>1, <3>1, <3>4
      <4>2. CASE i # n
        <5>1. i \in 0..(n - 1) /\ h[i] = g[i] /\ (i # 0 => h[i - 1] = g[i - 1])
          BY <4>2, <3>1
        <5> QED BY <5>1, <3>5
      <4> QED BY <4>1, <4>2
    <3>8. h \in Runs(n)
      BY <3>6, <3>7
    <3> QED BY <3>8, <2>2
  <2> QED BY <2>3, <2>4
<1>5. PICK g \in Runs(L) : TRUE
  BY <1>1, <1>4
<1> HIDE DEF Good
<1>6. Loop(g)
  BY <1>5
<1>7. PICK f : Loop(f) /\ f = CHOOSE e : Loop(e)
  <2> HIDE DEF Loop
  <2> QED BY <1>6
<1>8. \A i \in 0..L : f[i] = g[i]
  <2> DEFINE Bad == {i \in 0..L : f[i] # g[i]}
  <2>1. SUFFICES ASSUME Bad # {} PROVE FALSE
    OBVIOUS
  <2>2. PICK n \in Bad : \A m \in Bad : n <= m
    <3>1. Bad \in SUBSET Nat
      BY <1>1
    <3> HIDE DEF Bad
    <3> QED BY <2>1, <3>1, LeastNatural
  <2>3. f[n] = Step(f, n) /\ g[n] = Step(g, n)
    <3> HIDE DEF Step
    <3> QED BY <1>6, <1>7
  <2>4. n # 0 => f[n - 1] = g[n - 1]
    BY <2>2, <1>1
  <2> QED BY <2>2, <2>3, <2>4
<1>9. AddAll(rt, local, infos) = g[L] /\ Good(g[L])
  <2>1. L \in 0..L
    BY <1>1
  <2>2. Good(g[L])
    BY <1>5, <2>1
  <2>3. AddAll(rt, local, infos) = f[L]
    <3> HIDE DEF Loop
    <3> QED BY <1>2, <1>7
  <2> QED BY <2>1, <2>2, <2>3, <1>8
<1> QED BY <1>9 DEF Good
-----------------------------------------------------------------------------
(* Reading the table.                                                       *)

\* Distance to a target is a strict total order on ids (distance.rs,
\* distance_cmp).
LEMMA NearerOrder ==
  ASSUME NEW t \in Hash, NEW a \in Hash, NEW b \in Hash, NEW c \in Hash
  PROVE  /\ ~(Nearer(t, a, b) /\ Nearer(t, b, a))
         /\ Nearer(t, a, b) /\ Nearer(t, b, c) => Nearer(t, a, c)
         /\ a # b => Nearer(t, a, b) \/ Nearer(t, b, a)
<1> DEFINE d(x) == xor_distance(t, x)
           Below(x, y, i) == x[i] < y[i] /\ \A j \in 1..(i - 1) : x[j] = y[j]
<1>1. \A x \in Hash : d(x) \in Hash
  BY DEF xor_distance, Hash
<1>2. \A x, y : Nearer(t, x, y) <=> \E i \in 1..NUM_BUCKETS : Below(d(x), d(y), i)
  BY DEF Nearer
<1>3. ASSUME a # b PROVE Nearer(t, a, b) \/ Nearer(t, b, a)
  <2> DEFINE Differ == {i \in 1..NUM_BUCKETS : d(a)[i] # d(b)[i]}
  <2>1. Differ # {}
    <3>1. PICK i \in 1..NUM_BUCKETS : a[i] # b[i]
      <4>1. a = [i \in 1..NUM_BUCKETS |-> a[i]] /\ b = [i \in 1..NUM_BUCKETS |-> b[i]]
        BY DEF Hash
      <4>2. (\A i \in 1..NUM_BUCKETS : a[i] = b[i])
              => [i \in 1..NUM_BUCKETS |-> a[i]] = [i \in 1..NUM_BUCKETS |-> b[i]]
        OBVIOUS
      <4> QED BY <4>1, <4>2, <1>3
    <3>2. a[i] \in {0, 1} /\ b[i] \in {0, 1} /\ t[i] \in {0, 1}
      BY DEF Hash
    <3>3. d(a)[i] # d(b)[i]
      BY <3>1, <3>2 DEF xor_distance
    <3> QED BY <3>3
  <2>2. PICK i \in Differ : \A j \in Differ : i <= j
    <3>1. Differ \in SUBSET Nat
      BY TableAssumption
    <3> HIDE DEF Differ
    <3> QED BY <2>1, <3>1, LeastNatural
  <2>3. \A j \in 1..(i - 1) : d(a)[j] = d(b)[j]
    BY <2>2, TableAssumption
  <2>4. d(a)[i] < d(b)[i] \/ d(b)[i] < d(a)[i]
    <3>1. d(a)[i] \in {0, 1} /\ d(b)[i] \in {0, 1} /\ d(a)[i] # d(b)[i]
      BY <1>1 DEF Hash
    <3> QED BY <3>1
  <2> HIDE DEF d
  <2> QED BY <2>3, <2>4, <1>2
<1>4. ASSUME Nearer(t, a, b), Nearer(t, b, a) PROVE FALSE
  <2>1. PICK i \in 1..NUM_BUCKETS : Below(d(a), d(b), i)
    BY <1>2, <1>4
  <2>2. PICK j \in 1..NUM_BUCKETS : Below(d(b), d(a), j)
    BY <1>2, <1>4
  <2>3. d(a)[i] \in {0, 1} /\ d(b)[i] \in {0, 1} /\ d(a)[j] \in {0, 1} /\ d(b)[j] \in {0, 1}
    BY <1>1 DEF Hash
  <2> HIDE DEF d
  <2> QED BY <2>1, <2>2, <2>3, TableAssumption
<1>5. ASSUME Nearer(t, a, b), Nearer(t, b, c) PROVE Nearer(t, a, c)
  <2>1. PICK i \in 1..NUM_BUCKETS : Below(d(a), d(b), i)
    BY <1>2, <1>5
  <2>2. PICK j \in 1..NUM_BUCKETS : Below(d(b), d(c), j)
    BY <1>2, <1>5
  <2>3. \A x \in {a, b, c}, k \in 1..NUM_BUCKETS : d(x)[k] \in {0, 1}
    BY <1>1 DEF Hash
  <2> HIDE DEF d
  <2>4. i <= j => Below(d(a), d(c), i)
    BY <2>1, <2>2, <2>3, TableAssumption
  <2>5. j <= i => Below(d(a), d(c), j)
    BY <2>1, <2>2, <2>3, TableAssumption
  <2> QED BY <2>4, <2>5, <1>2, TableAssumption
<1> QED BY <1>3, <1>4, <1>5

\* Candidates and routing-table entries are sorted by distance, and the sort
\* loses none and makes up none (node.rs and routing.rs, sort_by distance_cmp).
THEOREM ByDistanceSorts ==
  ASSUME NEW target \in Hash, NEW infos \in Seq(NodeInfo)
  PROVE  LET s == ByDistance(target, infos)
         IN /\ s \in Seq(NodeInfo)
            /\ Len(s) = Len(infos)
            /\ \A p \in 1..Len(infos) : \E r \in 1..Len(s) : s[r] = infos[p]
            /\ \A r \in 1..Len(s) : \E p \in 1..Len(infos) : s[r] = infos[p]
            /\ \A p, q \in 1..Len(s) :
                 p < q => ~Nearer(target, node_id[s[q].node], node_id[s[p].node])
<1> DEFINE L == Len(infos)
           id(p) == node_id[infos[p].node]
           Precedes(p, q) ==
             Nearer(target, id(p), id(q)) \/ (p <= q /\ ~Nearer(target, id(q), id(p)))
           before(q) == {p \in 1..L : Precedes(p, q)}
           place(q) == Cardinality(before(q))
           at(r) == CHOOSE q \in 1..L : place(q) = r
           s == ByDistance(target, infos)
<1>1. L \in Nat /\ \A p \in 1..L : id(p) \in Hash
  <2>1. \A p \in 1..L : infos[p] \in NodeInfo
    OBVIOUS
  <2>2. \A p \in 1..L : infos[p].node \in Nodes
    BY <2>1 DEF NodeInfo
  <2>3. \A p \in 1..L : node_id[infos[p].node] \in Hash
    BY <2>2, TableAssumption
  <2> QED BY <2>3
<1>2. s = [r \in 1..L |-> infos[at(r)]]
  BY DEF ByDistance
<1>3. ASSUME NEW p \in 1..L, NEW q \in 1..L, p # q
      PROVE  (Precedes(p, q) /\ ~Precedes(q, p)) \/ (Precedes(q, p) /\ ~Precedes(p, q))
  <2> HIDE DEF id
  <2> QED BY <1>1, <1>3, NearerOrder
<1>4. ASSUME NEW p \in 1..L, NEW q \in 1..L, NEW u \in 1..L,
             Precedes(p, q), Precedes(q, u)
      PROVE  Precedes(p, u)
  <2>1. id(p) \in Hash /\ id(q) \in Hash /\ id(u) \in Hash
    BY <1>1
  <2> HIDE DEF id
  <2>2. CASE id(p) = id(u)
    <3>1. ~Nearer(target, id(p), id(u)) /\ ~Nearer(target, id(u), id(p))
      BY <2>1, <2>2, NearerOrder
    <3>2. id(p) = id(q)
      BY <2>1, <2>2, <1>4, NearerOrder
    <3> QED BY <3>1, <3>2, <2>1, <2>2, <1>4, NearerOrder
  <2>3. CASE id(p) # id(u)
    <3>1. (id(p) = id(q) \/ Nearer(target, id(p), id(q)))
      BY <2>1, <1>4, NearerOrder
    <3>2. (id(q) = id(u) \/ Nearer(target, id(q), id(u)))
      BY <2>1, <1>4, NearerOrder
    <3>3. Nearer(target, id(p), id(u))
      BY <3>1, <3>2, <2>1, <2>3, NearerOrder
    <3> QED BY <3>3
  <2> QED BY <2>2, <2>3
<1> HIDE DEF Precedes
<1>5. \A q \in 1..L : /\ IsFiniteSet(before(q)) /\ place(q) \in 1..L
                      /\ q \in before(q)
  <2> TAKE q \in 1..L
  <2>1. IsFiniteSet(1..L) /\ Cardinality(1..L) = L
    BY <1>1, FS_Interval
  <2>2. IsFiniteSet(before(q)) /\ place(q) <= L
    BY <2>1, FS_Subset
  <2>3. q \in before(q)
    <3>1. ~Nearer(target, id(q), id(q))
      BY <1>1, NearerOrder
    <3> QED BY <3>1 DEF Precedes
  <2>4. place(q) \in Nat /\ place(q) # 0
    <3> HIDE DEF before
    <3> QED BY <2>2, <2>3, FS_CardinalityType, FS_EmptySet
  <2> QED BY <2>2, <2>3, <2>4, <1>1
<1>6. ASSUME NEW p \in 1..L, NEW q \in 1..L, p # q, Precedes(p, q)
      PROVE  place(p) < place(q)
  <2>1. before(p) \subseteq before(q)
    BY <1>4, <1>6
  <2>2. q \in before(q) /\ q \notin before(p)
    BY <1>3, <1>5, <1>6
  <2> HIDE DEF before
  <2>3. place(p) <= place(q) /\ place(p) # place(q)
    BY <2>1, <2>2, <1>5, FS_Subset
  <2> QED BY <2>3, <1>5
<1> HIDE DEF before, place
<1>7. \A p, q \in 1..L : place(p) = place(q) => p = q
  BY <1>3, <1>5, <1>6
<1>8. ASSUME NEW r \in 1..L PROVE \E q \in 1..L : place(q) = r
  <2> DEFINE f == [q \in 1..L |-> place(q)]
  <2>1. f \in Injection(1..L, 1..L)
    BY <1>5, <1>7 DEF Injection, IsInjective
  <2>2. f \in Surjection(1..L, 1..L)
    <3> HIDE DEF f
    <3> QED BY <2>1, <1>1, FS_Interval, FS_Injection
  <2> QED BY <2>2 DEF Surjection
<1>9. \A r \in 1..L : at(r) \in 1..L /\ place(at(r)) = r
  BY <1>8
<1>10. \A q \in 1..L : at(place(q)) = q
  BY <1>5, <1>7, <1>9
<1> HIDE DEF at
<1>11. s \in Seq(NodeInfo) /\ Len(s) = L /\ \A r \in 1..L : s[r] = infos[at(r)]
  BY <1>1, <1>2, <1>9
<1> HIDE DEF s
<1>12. \A p \in 1..L : \E r \in 1..Len(s) : s[r] = infos[p]
  BY <1>5, <1>10, <1>11
<1>13. ASSUME NEW p \in 1..L, NEW q \in 1..L, p < q
       PROVE  ~Nearer(target, node_id[s[q].node], node_id[s[p].node])
  <2>1. Precedes(at(p), at(q))
    BY <1>3, <1>6, <1>9, <1>13
  <2>2. ~Nearer(target, id(at(q)), id(at(p)))
    BY <2>1, <1>1, <1>9, NearerOrder DEF Precedes
  <2> QED BY <2>2, <1>11
<1> QED BY <1>9, <1>11, <1>12, <1>13 DEF s

\* Joining sequences of S gives a sequence of S.
LEMMA FlattenTyping ==
  ASSUME NEW S, NEW seqs \in Seq(Seq(S))
  PROVE  FlattenSeq(seqs) \in Seq(S)
<1> DEFINE L == Len(seqs)
           Step(f, i) == IF i = 1 THEN seqs[i] ELSE f[i - 1] \o seqs[i]
           Loop(f) == f = [i \in 1..L |-> Step(f, i)]
           Runs(n) == {g \in [1..n -> Seq(S)] : \A i \in 1..n : g[i] = Step(g, i)}
<1>1. L \in Nat /\ \A i \in 1..L : seqs[i] \in Seq(S)
  OBVIOUS
<1>2. CASE L = 0
  BY <1>2 DEF FlattenSeq
<1>3. CASE L # 0
  <2>1. FlattenSeq(seqs) = (CHOOSE f : Loop(f))[L]
    BY <1>3 DEF FlattenSeq
  <2>2. \A n \in 1..L : Runs(n) # {}
    <3> DEFINE Bad == {n \in 1..L : Runs(n) = {}}
    <3>1. SUFFICES ASSUME Bad # {} PROVE FALSE
      OBVIOUS
    <3>2. PICK n \in Bad : \A m \in Bad : n <= m
      <4>1. Bad \in SUBSET Nat
        BY <1>1
      <4> HIDE DEF Bad
      <4> QED BY <3>1, <4>1, LeastNatural
    <3>3. CASE n = 1
      <4>1. [i \in 1..1 |-> seqs[1]] \in Runs(1)
        BY <1>1, <1>3
      <4> QED BY <3>3, <4>1
    <3>4. CASE n # 1
      <4>1. n - 1 \in 1..L /\ n \in 1..L /\ ~(n <= n - 1)
        BY <3>4, <1>1
      <4>2. PICK g \in Runs(n - 1) : TRUE
        BY <4>1, <3>2
      <4> DEFINE t == g[n - 1] \o seqs[n]
                 h == [i \in 1..n |-> IF i = n THEN t ELSE g[i]]
      <4>3. \A i \in 1..(n - 1) : g[i] \in Seq(S) /\ g[i] = Step(g, i)
        BY <4>2
      <4>4. t \in Seq(S)
        BY <4>1, <4>3, <1>1
      <4>5. h \in [1..n -> Seq(S)]
        <5> HIDE DEF t
        <5> QED BY <4>1, <4>3, <4>4
      <4>6. ASSUME NEW i \in 1..n PROVE h[i] = Step(h, i)
        <5>1. CASE i = n
          <6>1. n \in 1..n /\ n - 1 \in 1..n /\ n - 1 # n
            BY <4>1
          <6>2. h[n] = t /\ h[n - 1] = g[n - 1]
            <7> HIDE DEF t
            <7> QED BY <6>1
          <6> QED BY <6>2, <5>1, <3>4
        <5>2. CASE i # n
          <6>1. i \in 1..(n - 1) /\ h[i] = g[i] /\ (i # 1 => h[i - 1] = g[i - 1])
            BY <5>2, <4>1
          <6> QED BY <6>1, <4>3
        <5> QED BY <5>1, <5>2
      <4>7. h \in Runs(n)
        BY <4>5, <4>6
      <4> QED BY <4>7, <3>2
    <3> QED BY <3>3, <3>4
  <2>3. PICK g \in Runs(L) : TRUE
    <3>1. L \in 1..L
      BY <1>1, <1>3
    <3> HIDE DEF Runs, L
    <3> QED BY <3>1, <2>2
  <2>4. Loop(g)
    BY <2>3
  <2>5. PICK f : Loop(f) /\ f = CHOOSE e : Loop(e)
    <3> HIDE DEF Loop
    <3> QED BY <2>4
  <2>6. \A i \in 1..L : f[i] = g[i]
    <3> DEFINE Bad == {i \in 1..L : f[i] # g[i]}
    <3>1. SUFFICES ASSUME Bad # {} PROVE FALSE
      OBVIOUS
    <3>2. PICK n \in Bad : \A m \in Bad : n <= m
      <4>1. Bad \in SUBSET Nat
        BY <1>1
      <4> HIDE DEF Bad
      <4> QED BY <3>1, <4>1, LeastNatural
    <3>3. f[n] = Step(f, n) /\ g[n] = Step(g, n)
      <4> HIDE DEF Step
      <4> QED BY <2>4, <2>5
    <3>4. n # 1 => f[n - 1] = g[n - 1]
      BY <3>2, <1>1
    <3> QED BY <3>2, <3>3, <3>4
  <2>7. L \in 1..L /\ g[L] \in Seq(S)
    BY <1>1, <1>3, <2>3
  <2>8. FlattenSeq(seqs) = f[L]
    <3> HIDE DEF Loop
    <3> QED BY <2>1, <2>5
  <2> QED BY <2>6, <2>7, <2>8
<1> QED BY <1>2, <1>3

\* The entries of a table are node infos.
LEMMA AllNodesTyping ==
  ASSUME NEW rt \in Tables
  PROVE  all_nodes(rt) \in Seq(NodeInfo)
<1> DEFINE buckets == [i \in 1..NUM_BUCKETS |-> rt[i - 1]]
<1>1. \A i \in 1..NUM_BUCKETS : rt[i - 1] \in Seq(NodeInfo)
  BY TableAssumption DEF Tables, Indexes
<1>2. buckets \in Seq(Seq(NodeInfo))
  BY <1>1, TableAssumption
<1> HIDE DEF buckets
<1>3. FlattenSeq(buckets) \in Seq(NodeInfo)
  BY <1>2, FlattenTyping
<1> QED BY <1>3 DEF all_nodes, buckets

\* closest_nodes returns as many entries as there are, up to count, nearest
\* first, and an entry it leaves out is no nearer to the target than one it
\* returns (routing.rs, closest_nodes).
THEOREM ClosestNodesAreNearest ==
  ASSUME NEW rt \in Tables, NEW target \in Hash, NEW count \in Nat
  PROVE  LET all == all_nodes(rt)
             s == closest_nodes(rt, target, count)
         IN /\ s \in Seq(NodeInfo)
            /\ Len(s) = IF count < Len(all) THEN count ELSE Len(all)
            /\ \A r \in 1..Len(s) : \E p \in 1..Len(all) : s[r] = all[p]
            /\ \A p, q \in 1..Len(s) :
                 p < q => ~Nearer(target, node_id[s[q].node], node_id[s[p].node])
            /\ \A p \in 1..Len(all) :
                 \/ \E r \in 1..Len(s) : s[r] = all[p]
                 \/ \A r \in 1..Len(s) :
                      ~Nearer(target, node_id[all[p].node], node_id[s[r].node])
<1> DEFINE all == all_nodes(rt)
           sorted == ByDistance(target, all)
           s == closest_nodes(rt, target, count)
           length == IF count < Len(all) THEN count ELSE Len(all)
<1>1. all \in Seq(NodeInfo)
  BY AllNodesTyping
<1> HIDE DEF all
<1>2. /\ sorted \in Seq(NodeInfo)
      /\ Len(sorted) = Len(all)
      /\ \A p \in 1..Len(all) : \E r \in 1..Len(sorted) : sorted[r] = all[p]
      /\ \A r \in 1..Len(sorted) : \E p \in 1..Len(all) : sorted[r] = all[p]
      /\ \A p, q \in 1..Len(sorted) :
           p < q => ~Nearer(target, node_id[sorted[q].node], node_id[sorted[p].node])
  BY <1>1, ByDistanceSorts
<1>3. s = SubSeq(sorted, 1, length)
  BY <1>2 DEF closest_nodes, Take, all
<1> HIDE DEF sorted, s
<1>4. /\ s \in Seq(NodeInfo) /\ Len(s) = length
      /\ length \in 0..Len(sorted)
      /\ Len(sorted) \in Nat
      /\ \A r \in 1..length : r \in 1..Len(sorted) /\ s[r] = sorted[r]
  <2>1. sorted \in Seq(NodeInfo) /\ Len(sorted) \in Nat /\ length \in 0..Len(sorted)
    BY <1>2
  <2> HIDE DEF length
  <2>2. /\ SubSeq(sorted, 1, length) \in Seq(NodeInfo)
        /\ Len(SubSeq(sorted, 1, length)) = length
        /\ \A r \in 1..length : SubSeq(sorted, 1, length)[r] = sorted[r]
    BY <2>1
  <2> QED BY <2>1, <2>2, <1>3
<1> HIDE DEF length
<1>5. \A r \in 1..length : \E p \in 1..Len(all) : s[r] = all[p]
  BY <1>2, <1>4
<1>6. \A p, q \in 1..length :
        p < q => ~Nearer(target, node_id[s[q].node], node_id[s[p].node])
  BY <1>2, <1>4
<1>7. ASSUME NEW p \in 1..Len(all), NEW r \in 1..length,
             ~\E u \in 1..length : s[u] = all[p]
      PROVE  ~Nearer(target, node_id[all[p].node], node_id[s[r].node])
  <2>1. PICK u \in 1..Len(sorted) : sorted[u] = all[p]
    BY <1>2
  <2>2. r < u
    <3>1. ~(u \in 1..length)
      BY <2>1, <1>4, <1>7
    <3> QED BY <3>1, <1>4
  <2> QED BY <2>1, <2>2, <1>2, <1>4
<1> QED BY <1>4, <1>5, <1>6, <1>7 DEF s, all, length


-----------------------------------------------------------------------------
(* The inductive invariant.                                                 *)

Working == {"query", "all", "direct_find", "locate", "place", "direct_store"}

\* In the fallback of a lookup over a table of at most K entries, a server of
\* the table that held the descriptor is still to be asked or did not answer.
Explained(j, t) ==
  LET all == all_nodes(t)
  IN (j.phase \in {"all", "direct_find"} /\ Len(all) <= K) =>
       \A m \in j.holders \cap Servers :
         (\E p \in 1..Len(all) : all[p].addr = listens[m])
           => \/ m \in j.unanswered
              \/ j.phase = "all" /\ \E q \in 1..Len(j.queue) : j.queue[q] = listens[m]

\* What a job j of n says of the table t of n and of the nodes h that hold
\* the descriptor.
JobOK(n, j, t, h) ==
  /\ j.phase \in Working => n \in Clients
  /\ j.phase \in {"query", "locate", "place"} => j.keys # <<>>
  /\ j.holders \subseteq h
  /\ j.result = "stored" \/ (j.hit /\ j.phase # "query") => h \cap Servers # {}
  /\ Explained(j, t)

IInv ==
  /\ TypeOK
  /\ TablesWellFormed
  /\ \A n \in Nodes : JobOK(n, job[n], table[n], held)

-----------------------------------------------------------------------------
(* Typing of the operators on jobs.                                         *)

\* A prefix of a sequence of S is a sequence of S.
LEMMA TakeTyping ==
  ASSUME NEW S, NEW s \in Seq(S), NEW count \in Nat
  PROVE  Take(s, count) \in Seq(S)
<1> DEFINE length == IF count < Len(s) THEN count ELSE Len(s)
<1>1. length \in 0..Len(s)
  OBVIOUS
<1> HIDE DEF length
<1>2. SubSeq(s, 1, length) \in Seq(S)
  BY <1>1
<1> QED BY <1>2 DEF Take, length

\* The addresses and the identities of node infos.
LEMMA InfosTyping ==
  ASSUME NEW infos \in Seq(NodeInfo)
  PROVE  /\ AddrsOf(infos) \in Seq(Addrs)
         /\ Len(AddrsOf(infos)) = Len(infos)
         /\ \A p \in 1..Len(infos) : AddrsOf(infos)[p] = infos[p].addr
         /\ NodesOf(infos) \subseteq Nodes
<1>1. \A p \in 1..Len(infos) : infos[p] \in NodeInfo
  OBVIOUS
<1>2. \A p \in 1..Len(infos) : infos[p].addr \in Addrs /\ infos[p].node \in Nodes
  BY <1>1 DEF NodeInfo
<1> QED BY <1>2 DEF AddrsOf, NodesOf

\* Leaving nodes out keeps the type.
LEMMA WithoutTyping ==
  ASSUME NEW infos \in Seq(NodeInfo), NEW nodes
  PROVE  Without(infos, nodes) \in Seq(NodeInfo)
<1> DEFINE parts == [p \in 1..Len(infos) |->
                       IF infos[p].node \in nodes THEN <<>> ELSE <<infos[p]>>]
<1>1. \A p \in 1..Len(infos) : infos[p] \in NodeInfo
  OBVIOUS
<1>2. \A p \in 1..Len(infos) :
        (IF infos[p].node \in nodes THEN <<>> ELSE <<infos[p]>>) \in Seq(NodeInfo)
  BY <1>1
<1>3. parts \in Seq(Seq(NodeInfo))
  BY <1>2
<1> HIDE DEF parts
<1>4. FlattenSeq(parts) \in Seq(NodeInfo)
  BY <1>3, FlattenTyping
<1> QED BY <1>4 DEF Without, parts

\* closest_nodes returns node infos.
LEMMA ClosestTyping ==
  ASSUME NEW t \in Tables, NEW target \in Hash, NEW count \in Nat
  PROVE  closest_nodes(t, target, count) \in Seq(NodeInfo)
BY ClosestNodesAreNearest

\* A job that has ended is a job.
LEMMA IdleJob ==
  ASSUME NEW ops \in 0..MaxOps, NEW result \in Results
  PROVE  Idle(ops, result) \in Job
BY DEF Idle, Job, Phases

\* A job that has ended says little.
LEMMA IdleOK ==
  ASSUME NEW n, NEW ops \in 0..MaxOps, NEW result \in Results, NEW t, NEW h,
         result = "stored" => h \cap Servers # {}
  PROVE  JobOK(n, Idle(ops, result), t, h)
<1> DEFINE j == Idle(ops, result)
<1>1. j.phase = "idle" /\ j.result = result /\ j.hit = FALSE /\ j.holders = {}
  BY DEF Idle
<1> HIDE DEF j
<1>2. Explained(j, t)
  BY <1>1 DEF Explained
<1>3. JobOK(n, j, t, h)
  BY <1>1, <1>2 DEF JobOK, Working
<1> QED BY <1>3 DEF j

\* The next round of a lookup changes the batch, the rest stays.
LEMMA NextRoundJob ==
  ASSUME NEW j \in Job
  PROVE  LET next == NextRound(j)
         IN /\ next \in Job
            /\ next.phase = "query"
            /\ next.keys = j.keys
            /\ next.holders = j.holders
            /\ next.result = j.result
            /\ next.hit = j.hit
<1> DEFINE batch == Take(Without(j.known, j.queried), alpha)
<1>1. j.known \in Seq(NodeInfo)
  BY DEF Job
<1>2. batch \in Seq(NodeInfo)
  BY <1>1, WithoutTyping, TakeTyping, NetworkAssumption
<1>3. AddrsOf(batch) \in Seq(Addrs) /\ NodesOf(batch) \subseteq Nodes
  BY <1>2, InfosTyping
<1>4. NextRound(j) = [j EXCEPT !.phase = "query", !.queue = AddrsOf(batch),
                               !.queried = @ \cup NodesOf(batch), !.new_nodes = <<>>]
  BY DEF NextRound
<1> HIDE DEF batch
<1>5. <<>> \in Seq(NodeInfo)
  OBVIOUS
<1>6. NextRound(j) \in Job
  BY <1>3, <1>4, <1>5 DEF Job, Phases
<1>7. /\ NextRound(j).phase = "query" /\ NextRound(j).keys = j.keys
      /\ NextRound(j).holders = j.holders /\ NextRound(j).result = j.result
  BY <1>4 DEF Job
<1>8. NextRound(j).hit = j.hit
  BY <1>4 DEF Job
<1> QED BY <1>6, <1>7, <1>8

\* The fallback starts with every server of a small table still to be asked.
LEMMA FallbackJob ==
  ASSUME TypeOK, NEW n \in Nodes, NEW j \in Job
  PROVE  LET next == Fallback(n, j)
         IN /\ next \in Job
            /\ next.phase = "all"
            /\ next.holders = held
            /\ next.result = j.result
            /\ next.hit = j.hit
            /\ Explained(next, table[n])
<1> DEFINE all == all_nodes(table[n])
           queue == IF Len(all) <= K THEN AddrsOf(all) ELSE <<>>
           next == Fallback(n, j)
<1>1. all \in Seq(NodeInfo)
  BY AllNodesTyping DEF TypeOK
<1>2. /\ AddrsOf(all) \in Seq(Addrs) /\ Len(AddrsOf(all)) = Len(all)
      /\ \A p \in 1..Len(all) : AddrsOf(all)[p] = all[p].addr
  BY <1>1, InfosTyping
<1>3. next = [j EXCEPT !.phase = "all", !.known = <<>>, !.queried = {},
                       !.new_nodes = <<>>, !.queue = queue, !.holders = held]
  BY DEF Fallback
<1>4. queue \in Seq(Addrs)
  BY <1>2
<1> HIDE DEF all, queue, next
<1>5. /\ next \in Job /\ next.phase = "all" /\ next.holders = held
      /\ next.result = j.result /\ next.hit = j.hit /\ next.queue = queue
  <2>1. <<>> \in Seq(NodeInfo) /\ held \in SUBSET Nodes
    BY DEF TypeOK
  <2>2. next \in Job
    BY <1>3, <1>4, <2>1 DEF Job, Phases
  <2>3. /\ next.phase = "all" /\ next.holders = held /\ next.result = j.result
        /\ next.queue = queue
    BY <1>3 DEF Job
  <2>4. next.hit = j.hit
    BY <1>3 DEF Job
  <2> QED BY <2>2, <2>3, <2>4
<1>6. Explained(next, table[n])
  <2> SUFFICES ASSUME Len(all) <= K, NEW m \in Servers,
                      NEW p \in 1..Len(all), all[p].addr = listens[m]
               PROVE  \E q \in 1..Len(next.queue) : next.queue[q] = listens[m]
    BY <1>5 DEF Explained, all
  <2>1. queue = AddrsOf(all)
    BY DEF queue
  <2> QED BY <2>1, <1>2, <1>5
<1> QED BY <1>5, <1>6 DEF next

\* Turning to a routing key keeps what the publish has reached so far.
LEMMA LocateJob ==
  ASSUME TypeOK, NEW n \in Nodes, NEW j \in Job, j.keys # <<>>
  PROVE  LET next == Locate(n, j)
         IN /\ next \in Job
            /\ next.phase = "locate"
            /\ next.keys = j.keys
            /\ next.holders = j.holders
            /\ next.result = j.result
            /\ next.hit = j.hit
<1> DEFINE closest == closest_nodes(table[n], Head(j.keys), K)
<1>1. Head(j.keys) \in Hash
  BY DEF Job
<1>2. closest \in Seq(NodeInfo)
  BY <1>1, ClosestTyping, TableAssumption DEF TypeOK
<1> HIDE DEF closest
<1>3. AddrsOf(Take(closest, alpha)) \in Seq(Addrs)
  BY <1>2, TakeTyping, InfosTyping, NetworkAssumption
<1>4. Locate(n, j) = [j EXCEPT !.phase = "locate", !.known = closest,
                               !.queue = AddrsOf(Take(closest, alpha))]
  BY DEF Locate, closest
<1> QED BY <1>2, <1>3, <1>4 DEF Job, Phases

-----------------------------------------------------------------------------
(* Exchanges.                                                               *)

\* What every step of n does to the network, its job becoming j.
Exchange(n, j) ==
  /\ table' \in [Nodes -> Tables]
  /\ \A o \in Nodes : /\ WellFormed(table'[o], o)
                      /\ Known(table[o]) \subseteq Known(table'[o])
  /\ \A c \in Clients \ {n} : table'[c] = table[c]
  /\ job' = [job EXCEPT ![n] = j]
  /\ up' = up
  /\ failures' \in 0..MaxFailures

\* The invariant is kept, and no table loses a node.
Kept ==
  /\ IInv'
  /\ \A o \in Nodes : Known(table[o]) \subseteq Known(table'[o])

\* Only servers answer, at the address they listen at.
LEMMA ServerAt ==
  ASSUME TypeOK, NEW a, NEW m \in At(a)
  PROVE  m \in Servers /\ m \in Nodes /\ listens[m] = a /\ a \in Addrs
BY NetworkAssumption DEF At, Serving, TypeOK

\* Handling a request keeps the table of the handler.
LEMMA AfterRequestTable ==
  ASSUME IInv, NEW m \in Nodes, NEW n \in Nodes
  PROVE  /\ AfterRequest(m, n) \in Tables
         /\ WellFormed(AfterRequest(m, n), m)
         /\ Known(table[m]) \subseteq Known(AfterRequest(m, n))
<1>1. [node |-> n, addr |-> addr[n]] \in NodeInfo
  BY NetworkAssumption DEF NodeInfo
<1>2. table[m] \in Tables /\ WellFormed(table[m], m)
  BY DEF IInv, TypeOK, TablesWellFormed
<1> QED BY <1>1, <1>2, AddNodeKeepsTable DEF AfterRequest, Grown

\* The nodes of an answer.
LEMMA HandledTyping ==
  ASSUME IInv, NEW m \in Nodes, NEW n \in Nodes, NEW target \in Hash
  PROVE  /\ handle_find_node(m, n, target) \in Seq(NodeInfo)
         /\ handle_find_value(m, n, target) \in Seq(NodeInfo)
<1> DEFINE nodes == closest_nodes(AfterRequest(m, n), target, K)
<1>1. nodes \in Seq(NodeInfo)
  BY AfterRequestTable, ClosestTyping, TableAssumption
<1>2. [node |-> m, addr |-> addr[m]] \in NodeInfo
  BY NetworkAssumption DEF NodeInfo
<1>3. handle_find_node(m, n, target) =
        IF m \notin NodesOf(nodes) /\ Len(nodes) < K
          THEN Append(nodes, [node |-> m, addr |-> addr[m]]) ELSE nodes
  BY DEF handle_find_node
<1>4. handle_find_value(m, n, target) = IF m \in held THEN <<>> ELSE nodes
  BY DEF handle_find_value
<1> HIDE DEF nodes
<1>5. Append(nodes, [node |-> m, addr |-> addr[m]]) \in Seq(NodeInfo) /\ <<>> \in Seq(NodeInfo)
  BY <1>1, <1>2
<1> QED BY <1>1, <1>3, <1>4, <1>5

\* An answered call.
LEMMA AnsweredExchange ==
  ASSUME IInv, NEW n \in Nodes, NEW a, NEW m \in At(a), NEW b \in Tables, NEW j,
         WellFormed(b, n), Known(table[n]) \subseteq Known(b), Answered(n, m, b, j)
  PROVE  Exchange(n, j) /\ table'[n] = b
<1>1. m \in Nodes /\ m \in Servers
  BY ServerAt DEF IInv
<1>2. table \in [Nodes -> Tables] /\ failures \in 0..MaxFailures
  BY DEF IInv, TypeOK
<1> DEFINE c == AfterRequest(m, n)
<1>3. c \in Tables /\ WellFormed(c, m) /\ Known(table[m]) \subseteq Known(c)
  BY <1>1, AfterRequestTable
<1>4. table' = [table EXCEPT ![m] = c, ![n] = b]
  BY DEF Answered
<1> HIDE DEF c
<1>5. /\ table' \in [Nodes -> Tables] /\ table'[n] = b
      /\ m # n => table'[m] = c
      /\ \A o \in Nodes \ {m, n} : table'[o] = table[o]
  BY <1>1, <1>2, <1>3, <1>4
<1>6. \A o \in Nodes : WellFormed(table'[o], o) /\ Known(table[o]) \subseteq Known(table'[o])
  BY <1>3, <1>5 DEF IInv, TablesWellFormed
<1>7. \A o \in Clients \ {n} : table'[o] = table[o]
  BY <1>1, <1>5 DEF Clients
<1> QED BY <1>2, <1>5, <1>6, <1>7 DEF Exchange, Answered

\* A call without an answer, handled or not.
LEMMA UnansweredExchange ==
  ASSUME IInv, NEW n \in Nodes, NEW a, NEW j,
         \/ NotHandled(n, a, j)
         \/ \E m \in At(a) : AnswerLost(n, m, j)
  PROVE  /\ Exchange(n, j)
         /\ n \in Clients => table'[n] = table[n]
<1>1. table \in [Nodes -> Tables] /\ failures \in 0..MaxFailures /\ MaxFailures \in Nat
  BY NetworkAssumption DEF IInv, TypeOK
<1>2. CASE NotHandled(n, a, j)
  <2>1. table' = table /\ up' = up /\ job' = [job EXCEPT ![n] = j]
    BY <1>2 DEF NotHandled
  <2>2. failures' \in 0..MaxFailures
    BY <1>1, <1>2 DEF NotHandled
  <2> QED BY <1>1, <2>1, <2>2 DEF Exchange, IInv, TablesWellFormed
<1>3. CASE \E m \in At(a) : AnswerLost(n, m, j)
  <2>1. PICK m \in At(a) : AnswerLost(n, m, j)
    BY <1>3
  <2>2. m \in Nodes /\ m \in Servers
    BY ServerAt DEF IInv
  <2> DEFINE c == AfterRequest(m, n)
  <2>3. c \in Tables /\ WellFormed(c, m) /\ Known(table[m]) \subseteq Known(c)
    BY <2>2, AfterRequestTable
  <2>4. table' = [table EXCEPT ![m] = c]
    BY <2>1 DEF AnswerLost
  <2> HIDE DEF c
  <2>5. /\ table' \in [Nodes -> Tables] /\ table'[m] = c
        /\ \A o \in Nodes \ {m} : table'[o] = table[o]
    BY <1>1, <2>2, <2>3, <2>4
  <2>6. \A o \in Nodes : WellFormed(table'[o], o) /\ Known(table[o]) \subseteq Known(table'[o])
    BY <2>3, <2>5 DEF IInv, TablesWellFormed
  <2>7. \A o \in Clients : table'[o] = table[o]
    BY <2>2, <2>5 DEF Clients
  <2>8. failures' \in 0..MaxFailures /\ up' = up /\ job' = [job EXCEPT ![n] = j]
    BY <1>1, <2>1 DEF AnswerLost
  <2> QED BY <2>5, <2>6, <2>7, <2>8 DEF Exchange
<1> QED BY <1>2, <1>3

\* A query without an answer.
LEMMA NoAnswerExchange ==
  ASSUME IInv, NEW n \in Nodes, NEW a, NEW j, NoAnswer(n, a, j)
  PROVE  /\ Exchange(n, j) /\ held' = held
         /\ n \in Clients => table'[n] = table[n]
<1>1. \/ NotHandled(n, a, j)
      \/ \E m \in At(a) : AnswerLost(n, m, j)
  BY DEF NoAnswer
<1>2. held' = held
  BY DEF NoAnswer, NotHandled
<1> QED BY <1>1, <1>2, UnansweredExchange

\* A STORE only adds a holder.
LEMMA StoreHeld ==
  ASSUME IInv, NEW m \in Nodes, NEW accepted \in BOOLEAN, StoreAt(m, accepted)
  PROVE  /\ held \subseteq held' /\ held' \subseteq Nodes
         /\ accepted => m \in held'
BY DEF StoreAt, IInv, TypeOK

\* A STORE without an answer.
LEMMA StoreUnacknowledgedExchange ==
  ASSUME IInv, NEW n \in Nodes, NEW a, NEW j, StoreUnacknowledged(n, a, j)
  PROVE  /\ Exchange(n, j) /\ held \subseteq held' /\ held' \subseteq Nodes
         /\ n \in Clients => table'[n] = table[n]
<1>1. \/ NotHandled(n, a, j)
      \/ \E m \in At(a) : AnswerLost(n, m, j)
  BY DEF StoreUnacknowledged
<1>2. held \subseteq held' /\ held' \subseteq Nodes
  <2>1. CASE NotHandled(n, a, j)
    BY <2>1 DEF NotHandled, IInv, TypeOK
  <2>2. CASE \E m \in At(a), accepted \in BOOLEAN :
               AnswerLost(n, m, j) /\ StoreAt(m, accepted)
    <3>1. PICK m \in At(a), accepted \in BOOLEAN : StoreAt(m, accepted)
      BY <2>2
    <3>2. m \in Nodes
      BY ServerAt DEF IInv
    <3> QED BY <3>1, <3>2, StoreHeld
  <2> QED BY <2>1, <2>2 DEF StoreUnacknowledged
<1> QED BY <1>1, <1>2, UnansweredExchange

\* A step between two calls.
LEMMA InternalExchange ==
  ASSUME IInv, NEW n \in Nodes, NEW j, Internal(n, j)
  PROVE  Exchange(n, j) /\ table' = table
BY DEF Internal, Exchange, IInv, TypeOK, TablesWellFormed

\* A step of n keeps the invariant if it leaves n with a sound job.
LEMMA ExchangeKeeps ==
  ASSUME IInv, NEW n \in Nodes, NEW j \in Job, Exchange(n, j),
         held \subseteq held', held' \subseteq Nodes,
         JobOK(n, j, table'[n], held')
  PROVE  Kept
<1>1. job \in [Nodes -> Job]
  BY DEF IInv, TypeOK
<1>2. job' \in [Nodes -> Job] /\ job'[n] = j /\ \A o \in Nodes \ {n} : job'[o] = job[o]
  BY <1>1 DEF Exchange
<1>3. TypeOK'
  BY <1>2 DEF Exchange, IInv, TypeOK
<1>4. TablesWellFormed'
  BY DEF Exchange, TablesWellFormed
<1>5. ASSUME NEW o \in Nodes \ {n} PROVE JobOK(o, job'[o], table'[o], held')
  <2>1. JobOK(o, job[o], table[o], held)
    BY DEF IInv
  <2>2. CASE o \in Clients
    <3>1. table'[o] = table[o]
      BY <2>2 DEF Exchange
    <3>2. Explained(job[o], table'[o])
      BY <2>1, <3>1 DEF JobOK
    <3> QED BY <1>2, <2>1, <3>2 DEF JobOK
  <2>3. CASE o \notin Clients
    <3>1. job[o].phase \notin Working
      BY <2>1, <2>3 DEF JobOK
    <3>2. Explained(job[o], table'[o])
      BY <3>1 DEF Explained, Working
    <3> QED BY <1>2, <2>1, <3>2 DEF JobOK
  <2> QED BY <2>2, <2>3
<1>6. \A o \in Nodes : JobOK(o, job'[o], table'[o], held')
  BY <1>2, <1>5
<1>7. IInv'
  BY <1>3, <1>4, <1>6 DEF IInv
<1> QED BY <1>7 DEF Kept, Exchange

\* The job of n without the address it turns to.
LEMMA DequeuedJob ==
  ASSUME IInv, NEW n \in Nodes, job[n].queue # <<>>
  PROVE  LET j == Dequeued(n)
         IN /\ j \in Job /\ j.phase = job[n].phase /\ j.keys = job[n].keys
            /\ j.holders = job[n].holders /\ j.result = job[n].result
            /\ j.queue = Tail(job[n].queue) /\ j.unanswered = job[n].unanswered
            /\ j.hit = job[n].hit /\ j.ops = job[n].ops
            /\ Contact(n) = Head(job[n].queue)
<1> DEFINE i == job[n]
           rest == Tail(i.queue)
           j == Dequeued(n)
<1>1. i \in Job
  BY DEF IInv, TypeOK
<1>2. j = [i EXCEPT !.queue = rest]
  BY DEF Dequeued
<1>3. rest \in Seq(Addrs)
  BY <1>1 DEF Job
<1> HIDE DEF i, rest, j
<1>4. j \in Job /\ j.phase = i.phase /\ j.keys = i.keys /\ j.holders = i.holders
      /\ j.result = i.result /\ j.queue = rest /\ j.unanswered = i.unanswered /\ j.ops = i.ops
  BY <1>1, <1>2, <1>3 DEF Job
<1>5. j.hit = i.hit
  BY <1>1, <1>2 DEF Job
<1> QED BY <1>4, <1>5 DEF i, rest, j, Contact

-----------------------------------------------------------------------------
(* The steps of bootstrap.                                                  *)

\* A bootstrapping job says no more than what it did.
LEMMA BootstrapOK ==
  ASSUME NEW n \in Nodes, NEW i \in Job, NEW j \in Job, NEW t, NEW u, NEW h,
         JobOK(n, i, t, h), i.phase \in {"ping", "join"}, j.phase \in {"ping", "join"},
         j.holders = i.holders, j.result = i.result, j.hit = i.hit
  PROVE  JobOK(n, j, u, h)
<1>1. Explained(j, u)
  BY DEF Explained
<1> QED BY <1>1 DEF JobOK, Working

\* PING at a seed: the seed is added, or the call fails.
LEMMA PingSeedKeeps ==
  ASSUME IInv, NEW n \in Nodes, PingSeed(n)
  PROVE  Kept
<1> DEFINE i == job[n]
           a == Contact(n)
           j == [i EXCEPT !.phase = "join"]
<1>1. i \in Job /\ i.phase = "ping" /\ held \subseteq Nodes /\ JobOK(n, i, table[n], held)
  BY DEF IInv, TypeOK, PingSeed, In
<1>2. j \in Job /\ j.phase = "join" /\ j.holders = i.holders /\ j.result = i.result
  BY <1>1 DEF Job, Phases
<1>3. j.hit = i.hit
  BY <1>1 DEF Job
<1>4. \/ \E m \in At(a) :
           /\ Answered(n, m, add_node(table[n], n, [node |-> m, addr |-> a]), j)
           /\ UNCHANGED held
      \/ NoAnswer(n, a, j)
  BY DEF PingSeed
<1> HIDE DEF i, a, j
<1>5. JobOK(n, j, table'[n], held)
  BY <1>1, <1>2, <1>3, BootstrapOK
<1>6. Exchange(n, j) /\ held' = held
  <2>1. CASE NoAnswer(n, a, j)
    BY <2>1, NoAnswerExchange
  <2>2. ASSUME NEW m \in At(a),
               Answered(n, m, add_node(table[n], n, [node |-> m, addr |-> a]), j),
               held' = held
        PROVE  Exchange(n, j) /\ held' = held
    <3> DEFINE b == add_node(table[n], n, [node |-> m, addr |-> a])
    <3>1. [node |-> m, addr |-> a] \in NodeInfo
      BY ServerAt DEF IInv, NodeInfo
    <3>2. table[n] \in Tables /\ WellFormed(table[n], n)
      BY DEF IInv, TypeOK, TablesWellFormed
    <3>3. b \in Tables /\ WellFormed(b, n) /\ Known(table[n]) \subseteq Known(b)
      BY <3>1, <3>2, AddNodeKeepsTable DEF Grown
    <3> HIDE DEF b
    <3> QED BY <3>3, <2>2, AnsweredExchange DEF b
  <2> QED BY <2>1, <2>2, <1>4
<1> QED BY <1>1, <1>2, <1>5, <1>6, ExchangeKeeps

\* A node that merges an answer keeps its table.
LEMMA MergedTable ==
  ASSUME IInv, NEW n \in Nodes, NEW infos \in Seq(NodeInfo)
  PROVE  LET b == AddAll(table[n], n, infos)
         IN b \in Tables /\ WellFormed(b, n) /\ Known(table[n]) \subseteq Known(b)
<1>1. table[n] \in Tables /\ WellFormed(table[n], n)
  BY DEF IInv, TypeOK, TablesWellFormed
<1> QED BY <1>1, AddAllKeepsTable DEF Grown

\* FIND_NODE at a seed: its nodes are merged, or the call fails.
LEMMA JoinSeedKeeps ==
  ASSUME IInv, NEW n \in Nodes, JoinSeed(n)
  PROVE  Kept
<1> DEFINE i == job[n]
           a == Contact(n)
           d == Dequeued(n)
           j == [d EXCEPT !.phase = "ping"]
<1>1. i \in Job /\ i.phase = "join" /\ i.queue # <<>> /\ held \subseteq Nodes
      /\ JobOK(n, i, table[n], held)
  BY DEF IInv, TypeOK, JoinSeed, In
<1>2. d \in Job /\ d.holders = i.holders /\ d.result = i.result /\ d.hit = i.hit
  BY <1>1, DequeuedJob
<1>3. \/ \E m \in At(a) :
           /\ Answered(n, m, AddAll(table[n], n, handle_find_node(m, n, node_id[n])), j)
           /\ UNCHANGED held
      \/ NoAnswer(n, a, j)
  BY DEF JoinSeed
<1> HIDE DEF i, a, d
<1>4. j \in Job /\ j.phase = "ping" /\ j.holders = d.holders /\ j.result = d.result
  BY <1>2 DEF Job, Phases
<1>5. j.hit = d.hit
  BY <1>2 DEF Job
<1> HIDE DEF j
<1>6. JobOK(n, j, table'[n], held)
  BY <1>1, <1>2, <1>4, <1>5, BootstrapOK
<1>7. Exchange(n, j) /\ held' = held
  <2>1. CASE NoAnswer(n, a, j)
    BY <2>1, NoAnswerExchange
  <2>2. ASSUME NEW m \in At(a),
               Answered(n, m, AddAll(table[n], n, handle_find_node(m, n, node_id[n])), j),
               held' = held
        PROVE  Exchange(n, j) /\ held' = held
    <3> DEFINE infos == handle_find_node(m, n, node_id[n])
    <3>1. m \in Nodes /\ node_id[n] \in Hash
      BY ServerAt, TableAssumption DEF IInv
    <3>2. infos \in Seq(NodeInfo)
      BY <3>1, HandledTyping
    <3> HIDE DEF infos
    <3>3. LET b == AddAll(table[n], n, infos)
          IN b \in Tables /\ WellFormed(b, n) /\ Known(table[n]) \subseteq Known(b)
      BY <3>2, MergedTable
    <3> QED BY <3>3, <2>2, AnsweredExchange DEF infos
  <2> QED BY <2>1, <2>2, <1>3
<1> QED BY <1>1, <1>4, <1>6, <1>7, ExchangeKeeps

\* The bootstrap ends.
LEMMA BootedKeeps ==
  ASSUME IInv, NEW n \in Nodes, Booted(n)
  PROVE  Kept
<1>1. Idle(0, "none") \in Job /\ JobOK(n, Idle(0, "none"), table'[n], held)
  <2>1. 0 \in 0..MaxOps /\ "none" \in Results /\ "none" # "stored"
    BY NetworkAssumption DEF Results
  <2> QED BY <2>1, IdleJob, IdleOK
<1>2. Exchange(n, Idle(0, "none")) /\ held' = held
  BY InternalExchange DEF Booted
<1> QED BY <1>1, <1>2, ExchangeKeeps DEF IInv, TypeOK

-----------------------------------------------------------------------------
(* The steps of a lookup.                                                   *)

\* A lookup begins with the nearest nodes of the table.
LEMMA StartLookupKeeps ==
  ASSUME IInv, NEW n \in Nodes, NEW key \in Targets, StartLookup(n, key)
  PROVE  Kept
<1> DEFINE closest == closest_nodes(table[n], key, alpha)
           idle == Idle(job[n].ops + 1, "none")
           i == [idle EXCEPT !.keys = <<key>>, !.known = closest]
           j == NextRound(i)
<1>1. key \in Hash
  BY NetworkAssumption DEF ToSet
<1>2. closest \in Seq(NodeInfo)
  BY <1>1, ClosestTyping, NetworkAssumption DEF IInv, TypeOK
<1>3. Exchange(n, j) /\ held' = held
  BY InternalExchange DEF StartLookup
<1>4. n \in Clients
  BY NetworkAssumption DEF StartLookup
<1>5. job[n].ops + 1 \in 0..MaxOps
  <2>1. job[n].ops \in 0..MaxOps /\ job[n].ops < MaxOps
    BY DEF IInv, TypeOK, Job, StartLookup
  <2> QED BY <2>1, NetworkAssumption
<1>6. idle \in Job /\ idle.result = "none" /\ idle.holders = {}
  BY <1>5, IdleJob DEF Idle, Results
<1> HIDE DEF closest, idle
<1>7. <<key>> \in Seq(Hash) /\ <<key>> # <<>>
  BY <1>1
<1>8. i \in Job /\ i.keys = <<key>> /\ i.result = "none" /\ i.holders = {}
  BY <1>2, <1>6, <1>7 DEF Job
<1> HIDE DEF i
<1>9. /\ j \in Job /\ j.phase = "query" /\ j.keys = <<key>> /\ j.result = "none"
      /\ j.holders = {}
  BY <1>8, NextRoundJob
<1> HIDE DEF j
<1>10. JobOK(n, j, table'[n], held)
  BY <1>4, <1>7, <1>9 DEF JobOK, Explained
<1> QED BY <1>3, <1>9, <1>10, ExchangeKeeps DEF IInv, TypeOK

\* FIND_VALUE at a candidate: its nodes are merged, or the call fails.
LEMMA QueryNodeKeeps ==
  ASSUME IInv, NEW n \in Nodes, QueryNode(n)
  PROVE  Kept
<1> DEFINE i == job[n]
           a == Contact(n)
           d == Dequeued(n)
           After(m, nodes) == [d EXCEPT !.hit = @ \/ m \in held, !.new_nodes = @ \o nodes]
<1>1. /\ i \in Job /\ i.phase = "query" /\ i.queue # <<>> /\ held \subseteq Nodes
      /\ JobOK(n, i, table[n], held)
  BY DEF IInv, TypeOK, QueryNode, In
<1>2. /\ d \in Job /\ d.holders = i.holders /\ d.result = i.result /\ d.phase = i.phase
      /\ d.keys = i.keys
  BY <1>1, DequeuedJob
<1>3. \/ \E m \in At(a) :
           LET nodes == handle_find_value(m, n, Head(d.keys))
           IN Answered(n, m, AddAll(table[n], n, nodes), After(m, nodes)) /\ UNCHANGED held
      \/ NoAnswer(n, a, d)
  BY DEF QueryNode
<1> HIDE DEF i, a, d
<1>4. ASSUME NEW j \in Job, j.phase = "query", j.keys = d.keys, j.holders = d.holders,
             j.result = d.result
      PROVE  JobOK(n, j, table'[n], held)
  <2>1. Explained(j, table'[n])
    BY <1>4 DEF Explained
  <2> QED BY <2>1, <1>1, <1>2, <1>4 DEF JobOK, Working
<1>5. CASE NoAnswer(n, a, d)
  <2>1. Exchange(n, d) /\ held' = held
    BY <1>5, NoAnswerExchange
  <2> QED BY <2>1, <1>1, <1>2, <1>4, ExchangeKeeps
<1>6. ASSUME NEW m \in At(a), held' = held,
             LET nodes == handle_find_value(m, n, Head(d.keys))
             IN Answered(n, m, AddAll(table[n], n, nodes), After(m, nodes))
      PROVE  Kept
  <2> DEFINE nodes == handle_find_value(m, n, Head(d.keys))
             j == After(m, nodes)
  <2>1. m \in Nodes
    BY ServerAt DEF IInv
  <2>2. Head(d.keys) \in Hash
    <3>1. d.keys \in Seq(Hash) /\ d.keys # <<>>
      BY <1>1, <1>2 DEF Job, JobOK
    <3> QED BY <3>1
  <2>3. nodes \in Seq(NodeInfo)
    BY <2>1, <2>2, HandledTyping
  <2>4. Answered(n, m, AddAll(table[n], n, nodes), j)
    BY <1>6
  <2> HIDE DEF nodes
  <2>5. LET b == AddAll(table[n], n, nodes)
        IN b \in Tables /\ WellFormed(b, n) /\ Known(table[n]) \subseteq Known(b)
    BY <2>3, MergedTable
  <2>6. Exchange(n, j)
    BY <2>4, <2>5, AnsweredExchange
  <2>7. /\ j \in Job /\ j.phase = "query" /\ j.keys = d.keys /\ j.holders = d.holders
        /\ j.result = d.result
    <3>1. d.new_nodes \o nodes \in Seq(NodeInfo) /\ (d.hit \/ m \in held) \in BOOLEAN
      BY <1>2, <2>3 DEF Job
    <3> QED BY <3>1, <1>1, <1>2 DEF Job
  <2> HIDE DEF j
  <2>8. JobOK(n, j, table'[n], held)
    BY <1>4, <2>7
  <2> QED BY <1>1, <1>6, <2>6, <2>7, <2>8, ExchangeKeeps
<1> QED BY <1>3, <1>5, <1>6

\* A round ends: in a result, in the fallback or in another round.
LEMMA EndRoundKeeps ==
  ASSUME IInv, NEW n \in Nodes, EndRound(n)
  PROVE  Kept
<1> DEFINE i == job[n]
           merged == ByDistance(Head(i.keys), i.known \o i.new_nodes)
           c == [i EXCEPT !.known = Take(merged, K)]
           j == CASE i.hit -> Idle(i.ops, "found")
                  [] ~i.hit /\ i.new_nodes = <<>> -> Fallback(n, i)
                  [] OTHER -> IF NextRound(c).queue = <<>> THEN Fallback(n, i)
                              ELSE NextRound(c)
<1>1. /\ i \in Job /\ i.phase = "query" /\ held \subseteq Nodes
      /\ JobOK(n, i, table[n], held) /\ TypeOK
  BY DEF IInv, TypeOK, EndRound, Through
<1>2. Exchange(n, j) /\ held' = held /\ table' = table
  <2>1. Internal(n, j) /\ held' = held
    BY DEF EndRound
  <2> HIDE DEF j
  <2> QED BY <2>1, InternalExchange
<1>3. n \in Clients /\ i.keys # <<>> /\ i.holders \subseteq held
      /\ (i.result = "stored" => held \cap Servers # {})
  BY <1>1 DEF JobOK, Working
<1>4. /\ c \in Job /\ c.keys = i.keys /\ c.holders = i.holders /\ c.result = i.result
      /\ (c.hit <=> i.hit)
  <2>1. Head(i.keys) \in Hash
    BY <1>1, <1>3 DEF Job
  <2>2. i.known \o i.new_nodes \in Seq(NodeInfo)
    BY <1>1 DEF Job
  <2>3. merged \in Seq(NodeInfo)
    BY <2>1, <2>2, ByDistanceSorts
  <2> HIDE DEF merged, i
  <2>4. Take(merged, K) \in Seq(NodeInfo)
    BY <2>3, TakeTyping, TableAssumption
  <2>5. c \in Job /\ c.keys = i.keys /\ c.holders = i.holders /\ c.result = i.result
    BY <2>4, <1>1 DEF Job
  <2>6. c.hit = i.hit
    BY <1>1 DEF Job
  <2> QED BY <2>5, <2>6
<1> HIDE DEF i, c
<1>5. ASSUME ~i.hit
      PROVE  Fallback(n, i) \in Job /\ JobOK(n, Fallback(n, i), table[n], held)
  <2> DEFINE f == Fallback(n, i)
  <2>1. /\ f \in Job /\ f.phase = "all" /\ f.holders = held /\ f.result = i.result
        /\ f.hit = i.hit /\ Explained(f, table[n])
    BY <1>1, FallbackJob
  <2> HIDE DEF f
  <2>2. ~f.hit
    BY <2>1, <1>5
  <2>3. JobOK(n, f, table[n], held)
    BY <2>1, <2>2, <1>3, <1>5 DEF JobOK
  <2> QED BY <2>1, <2>3 DEF f
<1>6. NextRound(c) \in Job /\ JobOK(n, NextRound(c), table[n], held)
  <2> DEFINE x == NextRound(c)
  <2>1. /\ x \in Job /\ x.phase = "query" /\ x.keys = c.keys /\ x.holders = c.holders
        /\ x.result = c.result
    BY <1>4, NextRoundJob
  <2> HIDE DEF x
  <2>2. Explained(x, table[n])
    BY <2>1 DEF Explained
  <2>3. JobOK(n, x, table[n], held)
    BY <2>1, <2>2, <1>3, <1>4 DEF JobOK
  <2> QED BY <2>1, <2>3 DEF x
<1>7. Idle(i.ops, "found") \in Job /\ JobOK(n, Idle(i.ops, "found"), table[n], held)
  <2>1. i.ops \in 0..MaxOps /\ "found" \in Results /\ "found" # "stored"
    BY <1>1 DEF Job, Results
  <2> QED BY <2>1, IdleJob, IdleOK
<1>8. j \in Job /\ JobOK(n, j, table[n], held)
  <2>1. CASE i.hit
    BY <2>1, <1>7
  <2>2. CASE ~i.hit /\ i.new_nodes = <<>>
    <3>1. j = Fallback(n, i)
      BY <2>2
    <3> QED BY <3>1, <2>2, <1>1, <1>5
  <2>3. CASE ~i.hit /\ i.new_nodes # <<>>
    <3>1. j = IF NextRound(c).queue = <<>> THEN Fallback(n, i) ELSE NextRound(c)
      BY <2>3
    <3>2. Fallback(n, i) \in Job /\ JobOK(n, Fallback(n, i), table[n], held)
      BY <2>3, <1>1, <1>5
    <3> QED BY <3>1, <3>2, <1>6
  <2> QED BY <2>1, <2>2, <2>3
<1> HIDE DEF j
<1> QED BY <1>1, <1>2, <1>8, ExchangeKeeps

\* The fallback asks the next node: either it answers, and without the descriptor,
\* or it is among those that did not.
LEMMA AskAllKeeps ==
  ASSUME IInv, NEW n \in Nodes, AskAll(n)
  PROVE  Kept
<1> DEFINE i == job[n]
           a == Contact(n)
           d == Dequeued(n)
           j == [d EXCEPT !.unanswered = @ \cup {m \in Servers : listens[m] = a}]
           all == all_nodes(table[n])
<1>1. /\ i \in Job /\ i.phase = "all" /\ i.queue # <<>> /\ held \subseteq Nodes
      /\ JobOK(n, i, table[n], held)
  BY DEF IInv, TypeOK, AskAll, In
<1>2. /\ d \in Job /\ d.holders = i.holders /\ d.result = i.result /\ d.phase = i.phase
      /\ d.hit = i.hit /\ d.queue = Tail(i.queue) /\ d.unanswered = i.unanswered
      /\ d.ops = i.ops /\ a = Head(i.queue)
  BY <1>1, DequeuedJob
<1>3. \/ \E m \in At(a) :
           /\ Answered(n, m, table[n], IF m \in held THEN Idle(d.ops, "found") ELSE d)
           /\ UNCHANGED held
      \/ NoAnswer(n, a, j)
  BY DEF AskAll
<1>4. n \in Clients
  BY <1>1 DEF JobOK, Working
<1> HIDE DEF i, a, d
<1>5. ASSUME Len(all) <= K, NEW m \in i.holders \cap Servers, m \notin i.unanswered,
             \E p \in 1..Len(all) : all[p].addr = listens[m], listens[m] # a
      PROVE  \E q \in 1..Len(d.queue) : d.queue[q] = listens[m]
  <2>1. \E q \in 1..Len(i.queue) : i.queue[q] = listens[m]
    BY <1>1, <1>5 DEF JobOK, Explained
  <2>2. PICK q \in 1..Len(i.queue) : i.queue[q] = listens[m]
    BY <2>1
  <2>3. i.queue \in Seq(Addrs)
    BY <1>1 DEF Job
  <2>4. q # 1
    BY <2>2, <2>3, <1>2, <1>1, <1>5
  <2>5. q - 1 \in 1..Len(Tail(i.queue)) /\ Tail(i.queue)[q - 1] = i.queue[q]
    BY <2>3, <2>4, <1>1
  <2> QED BY <2>2, <2>5, <1>2
<1> HIDE DEF all
<1>6. CASE NoAnswer(n, a, j)
  <2>1. Exchange(n, j) /\ held' = held /\ table'[n] = table[n]
    BY <1>4, <1>6, NoAnswerExchange
  <2> DEFINE there == {m \in Servers : listens[m] = a}
  <2>2. j = [d EXCEPT !.unanswered = d.unanswered \cup there]
    BY <1>2 DEF Job
  <2>3. /\ j \in Job /\ j.phase = "all" /\ j.holders = i.holders /\ j.result = i.result
        /\ j.queue = d.queue /\ j.unanswered = i.unanswered \cup there
    BY <1>1, <1>2 DEF Job
  <2>4. j.hit = i.hit
    BY <1>2 DEF Job
  <2> HIDE DEF j
  <2>5. Explained(j, table[n])
    BY <1>5, <2>3 DEF Explained, all
  <2>6. JobOK(n, j, table[n], held)
    BY <1>1, <1>4, <2>3, <2>4, <2>5 DEF JobOK
  <2> QED BY <1>1, <2>1, <2>3, <2>6, ExchangeKeeps
<1>7. ASSUME NEW m \in At(a), held' = held,
             Answered(n, m, table[n], IF m \in held THEN Idle(d.ops, "found") ELSE d)
      PROVE  Kept
  <2> DEFINE e == IF m \in held THEN Idle(d.ops, "found") ELSE d
  <2>1. table[n] \in Tables /\ WellFormed(table[n], n)
    BY DEF IInv, TypeOK, TablesWellFormed
  <2>2. Exchange(n, e) /\ table'[n] = table[n]
    BY <1>7, <2>1, AnsweredExchange
  <2>3. CASE m \in held
    <3>1. d.ops \in 0..MaxOps /\ "found" \in Results /\ "found" # "stored"
      BY <1>2 DEF Job, Results
    <3>2. e = Idle(d.ops, "found") /\ e \in Job /\ JobOK(n, e, table[n], held)
      BY <2>3, <3>1, IdleJob, IdleOK
    <3> QED BY <1>1, <1>7, <2>2, <3>2, ExchangeKeeps
  <2>4. CASE m \notin held
    <3>1. e = d
      BY <2>4
    <3>2. m \in Servers /\ listens[m] = a
      BY ServerAt DEF IInv
    <3>3. \A o \in i.holders \cap Servers : listens[o] # a
      BY <1>1, <2>4, <3>2, NetworkAssumption DEF JobOK
    <3>4. Explained(d, table[n])
      BY <1>1, <1>2, <1>5, <3>3 DEF Explained, all
    <3>5. JobOK(n, d, table[n], held)
      BY <1>1, <1>2, <1>4, <3>4 DEF JobOK
    <3> QED BY <1>1, <1>2, <1>7, <2>2, <3>1, <3>5, ExchangeKeeps
  <2> QED BY <2>3, <2>4
<1> QED BY <1>3, <1>6, <1>7

\* The seed a client turns to.
LEMMA FirstSeed ==
  ASSUME NEW n \in Clients
  PROVE  <<Head(seeds[n])>> \in Seq(Addrs)
<1>1. seeds[n] \in Seq(Addrs) /\ seeds[n] # <<>>
  BY NetworkAssumption DEF Clients
<1> QED BY <1>1

\* The fallback is through.
LEMMA NothingFoundKeeps ==
  ASSUME IInv, NEW n \in Nodes, NothingFound(n)
  PROVE  Kept
<1> DEFINE i == job[n]
           queue == <<Head(seeds[n])>>
           j == [i EXCEPT !.phase = "direct_find", !.queue = queue]
<1>1. /\ i \in Job /\ i.phase = "all" /\ i.queue = <<>> /\ held \subseteq Nodes
      /\ JobOK(n, i, table[n], held)
  BY DEF IInv, TypeOK, NothingFound, Through
<1>2. n \in Clients
  BY <1>1 DEF JobOK, Working
<1>3. queue \in Seq(Addrs)
  BY <1>2, FirstSeed
<1>4. Exchange(n, j) /\ held' = held /\ table' = table
  BY InternalExchange DEF NothingFound
<1> HIDE DEF i, queue
<1>5. /\ j \in Job /\ j.phase = "direct_find" /\ j.holders = i.holders
      /\ j.result = i.result /\ j.unanswered = i.unanswered
  BY <1>1, <1>3 DEF Job, Phases
<1>6. j.hit = i.hit
  BY <1>1 DEF Job
<1> HIDE DEF j
<1>7. Explained(j, table[n])
  <2>1. \A q \in 1..Len(i.queue) : FALSE
    BY <1>1
  <2> QED BY <1>1, <1>5, <2>1 DEF JobOK, Explained
<1>8. JobOK(n, j, table[n], held)
  BY <1>1, <1>2, <1>5, <1>6, <1>7 DEF JobOK
<1> QED BY <1>1, <1>4, <1>5, <1>8, ExchangeKeeps

\* The direct FIND_VALUE ends the lookup.
LEMMA FindDirectlyKeeps ==
  ASSUME IInv, NEW n \in Nodes, FindDirectly(n)
  PROVE  Kept
<1> DEFINE a == Contact(n)
           ops == job[n].ops
           End(result) == Idle(ops, result)
<1>1. /\ ops \in 0..MaxOps /\ held \subseteq Nodes
      /\ table[n] \in Tables /\ WellFormed(table[n], n)
  BY DEF IInv, TypeOK, Job, TablesWellFormed
<1>2. ASSUME NEW result \in {"found", "nothing", "error"}, Exchange(n, End(result)),
             held' = held
      PROVE  Kept
  <2>1. result \in Results /\ result # "stored"
    BY DEF Results
  <2>2. End(result) \in Job /\ JobOK(n, End(result), table'[n], held)
    BY <1>1, <2>1, IdleJob, IdleOK
  <2> QED BY <1>1, <1>2, <2>2, ExchangeKeeps
<1>3. \/ \E m \in At(a) :
           /\ Answered(n, m, table[n], End(IF m \in held THEN "found" ELSE "nothing"))
           /\ UNCHANGED held
      \/ NoAnswer(n, a, End("error"))
  BY DEF FindDirectly
<1> HIDE DEF a, End
<1>4. CASE NoAnswer(n, a, End("error"))
  BY <1>2, <1>4, NoAnswerExchange
<1>5. ASSUME NEW m \in At(a), held' = held,
             Answered(n, m, table[n], End(IF m \in held THEN "found" ELSE "nothing"))
      PROVE  Kept
  <2>1. Exchange(n, End(IF m \in held THEN "found" ELSE "nothing"))
    BY <1>1, <1>5, AnsweredExchange
  <2> QED BY <1>2, <1>5, <2>1
<1> QED BY <1>3, <1>4, <1>5

-----------------------------------------------------------------------------
(* The steps of a publish.                                                  *)

\* In the phases of a publish the fallback of a lookup says nothing.
LEMMA PublishOK ==
  ASSUME NEW n \in Clients, NEW i, NEW j, NEW t, NEW u, NEW h, NEW g,
         JobOK(n, i, t, h), h \subseteq g, i.phase # "query",
         j.phase \in {"locate", "place", "direct_store"},
         j.phase \in {"locate", "place"} => j.keys # <<>>,
         j.holders = i.holders, j.result = i.result,
         j.hit => i.hit \/ g \cap Servers # {}
  PROVE  JobOK(n, j, u, g)
<1>1. Explained(j, u)
  BY DEF Explained
<1>2. j.holders \subseteq g
  BY DEF JobOK
<1>3. i.hit \/ i.result = "stored" => g \cap Servers # {}
  BY DEF JobOK
<1> QED BY <1>1, <1>2, <1>3 DEF JobOK

\* A publish begins with its first routing key.
LEMMA StartPublishKeeps ==
  ASSUME IInv, NEW n \in Nodes, StartPublish(n)
  PROVE  Kept
<1> DEFINE idle == Idle(job[n].ops + 1, "none")
           i == [idle EXCEPT !.keys = routing_keys]
           j == Locate(n, i)
<1>1. n \in Clients /\ routing_keys \in Seq(Hash) /\ routing_keys # <<>>
  BY NetworkAssumption DEF StartPublish
<1>2. Exchange(n, j) /\ held' = held
  BY InternalExchange DEF StartPublish
<1>3. job[n].ops + 1 \in 0..MaxOps
  <2>1. job[n].ops \in 0..MaxOps /\ job[n].ops < MaxOps
    BY DEF IInv, TypeOK, Job, StartPublish
  <2> QED BY <2>1, NetworkAssumption
<1>4. idle \in Job
  BY <1>3, IdleJob DEF Results
<1>5. JobOK(n, idle, table[n], held) /\ idle.phase = "idle"
  <2>1. "none" \in Results /\ "none" # "stored"
    BY DEF Results
  <2>2. JobOK(n, idle, table[n], held)
    BY <1>3, <2>1, IdleOK
  <2> QED BY <2>2 DEF Idle
<1> HIDE DEF idle
<1>6. /\ i \in Job /\ i.keys = routing_keys /\ i.result = idle.result
      /\ i.holders = idle.holders
  BY <1>1, <1>4 DEF Job
<1>7. i.hit = idle.hit
  BY <1>4 DEF Job
<1> HIDE DEF i
<1>8. TypeOK /\ held \subseteq Nodes
  BY DEF IInv, TypeOK
<1>9. /\ j \in Job /\ j.phase = "locate" /\ j.keys = i.keys /\ j.holders = i.holders
      /\ j.result = i.result /\ j.hit = i.hit
  BY <1>1, <1>6, <1>8, LocateJob
<1> HIDE DEF j
<1>10. JobOK(n, j, table'[n], held)
  BY <1>1, <1>5, <1>6, <1>7, <1>9, PublishOK
<1> QED BY <1>2, <1>8, <1>9, <1>10, ExchangeKeeps

\* FIND_NODE at a candidate: its nodes become targets, or the call fails.
LEMMA LocateNodeKeeps ==
  ASSUME IInv, NEW n \in Nodes, LocateNode(n)
  PROVE  Kept
<1> DEFINE i == job[n]
           a == Contact(n)
           d == Dequeued(n)
           After(nodes) ==
             [d EXCEPT !.known = @ \o Without(nodes, NodesOf(d.known))]
<1>1. /\ i \in Job /\ i.phase = "locate" /\ i.queue # <<>> /\ held \subseteq Nodes
      /\ JobOK(n, i, table[n], held)
  BY DEF IInv, TypeOK, LocateNode, In
<1>2. /\ d \in Job /\ d.holders = i.holders /\ d.result = i.result /\ d.phase = i.phase
      /\ d.keys = i.keys /\ d.hit = i.hit
  BY <1>1, DequeuedJob
<1>3. \/ \E m \in At(a) :
           LET nodes == handle_find_node(m, n, Head(d.keys))
           IN Answered(n, m, AddAll(table[n], n, nodes), After(nodes)) /\ UNCHANGED held
      \/ NoAnswer(n, a, d)
  BY DEF LocateNode
<1> HIDE DEF i, a, d
<1>4. n \in Clients /\ d.keys # <<>>
  BY <1>1, <1>2 DEF JobOK, Working
<1>5. CASE NoAnswer(n, a, d)
  <2>1. Exchange(n, d) /\ held' = held
    BY <1>5, NoAnswerExchange
  <2>2. JobOK(n, d, table'[n], held)
    BY <1>1, <1>2, <1>4, PublishOK
  <2> QED BY <2>1, <2>2, <1>1, <1>2, ExchangeKeeps
<1>6. ASSUME NEW m \in At(a), held' = held,
             LET nodes == handle_find_node(m, n, Head(d.keys))
             IN Answered(n, m, AddAll(table[n], n, nodes), After(nodes))
      PROVE  Kept
  <2> DEFINE nodes == handle_find_node(m, n, Head(d.keys))
             others == Without(nodes, NodesOf(d.known))
             j == After(nodes)
  <2>1. m \in Nodes /\ Head(d.keys) \in Hash
    BY <1>2, <1>4, ServerAt DEF IInv, Job
  <2>2. nodes \in Seq(NodeInfo)
    BY <2>1, HandledTyping
  <2>3. Answered(n, m, AddAll(table[n], n, nodes), j)
    BY <1>6
  <2> HIDE DEF nodes
  <2>4. LET b == AddAll(table[n], n, nodes)
        IN b \in Tables /\ WellFormed(b, n) /\ Known(table[n]) \subseteq Known(b)
    BY <2>2, MergedTable
  <2>5. Exchange(n, j)
    BY <2>3, <2>4, AnsweredExchange
  <2>6. others \in Seq(NodeInfo)
    BY <2>2, WithoutTyping
  <2> HIDE DEF others
  <2>7. /\ j \in Job /\ j.phase = "locate" /\ j.keys = d.keys /\ j.holders = d.holders
        /\ j.result = d.result
    <3>1. d.known \o others \in Seq(NodeInfo)
      BY <1>2, <2>6 DEF Job
    <3>2. j = [d EXCEPT !.known = d.known \o others]
      BY <1>2 DEF Job, others
    <3> QED BY <3>1, <3>2, <1>1, <1>2 DEF Job
  <2>8. j.hit = d.hit
    BY <1>2 DEF Job
  <2> HIDE DEF j
  <2>9. JobOK(n, j, table'[n], held)
    BY <1>1, <1>2, <1>4, <2>7, <2>8, PublishOK
  <2> QED BY <1>1, <1>6, <2>5, <2>7, <2>9, ExchangeKeeps
<1> QED BY <1>3, <1>5, <1>6

\* The targets of a routing key are settled.
LEMMA EndLocateKeeps ==
  ASSUME IInv, NEW n \in Nodes, EndLocate(n)
  PROVE  Kept
<1> DEFINE i == job[n]
           targets == Take(ByDistance(Head(i.keys), i.known), K)
           queue == AddrsOf(Without(targets, {n}))
           j == [i EXCEPT !.phase = "place", !.known = <<>>, !.queue = queue]
<1>1. /\ i \in Job /\ i.phase = "locate" /\ held \subseteq Nodes
      /\ JobOK(n, i, table[n], held)
  BY DEF IInv, TypeOK, EndLocate, Through
<1>2. n \in Clients /\ i.keys # <<>>
  BY <1>1 DEF JobOK, Working
<1>3. Exchange(n, j) /\ held' = held
  BY InternalExchange DEF EndLocate
<1> HIDE DEF i
<1>4. queue \in Seq(Addrs)
  <2>1. Head(i.keys) \in Hash /\ i.known \in Seq(NodeInfo)
    BY <1>1, <1>2 DEF Job
  <2>2. targets \in Seq(NodeInfo)
    BY <2>1, ByDistanceSorts, TakeTyping, TableAssumption
  <2> HIDE DEF targets
  <2> QED BY <2>2, WithoutTyping, InfosTyping
<1> HIDE DEF queue
<1>5. /\ j \in Job /\ j.phase = "place" /\ j.keys = i.keys /\ j.holders = i.holders
      /\ j.result = i.result
  <2>1. <<>> \in Seq(NodeInfo)
    OBVIOUS
  <2> QED BY <2>1, <1>1, <1>4 DEF Job, Phases
<1>6. j.hit = i.hit
  BY <1>1 DEF Job
<1> HIDE DEF j
<1>7. JobOK(n, j, table'[n], held)
  BY <1>1, <1>2, <1>5, <1>6, PublishOK
<1> QED BY <1>1, <1>3, <1>5, <1>7, ExchangeKeeps

\* STORE at a target, accepted, rejected or unacknowledged.
LEMMA PlaceAtKeeps ==
  ASSUME IInv, NEW n \in Nodes, PlaceAt(n)
  PROVE  Kept
<1> DEFINE i == job[n]
           a == Contact(n)
           d == Dequeued(n)
           After(accepted) == [d EXCEPT !.hit = @ \/ accepted]
<1>1. /\ i \in Job /\ i.phase = "place" /\ i.queue # <<>> /\ held \subseteq Nodes
      /\ JobOK(n, i, table[n], held)
  BY DEF IInv, TypeOK, PlaceAt, In
<1>2. /\ d \in Job /\ d.holders = i.holders /\ d.result = i.result /\ d.phase = i.phase
      /\ d.keys = i.keys /\ d.hit = i.hit
  BY <1>1, DequeuedJob
<1>3. \/ \E m \in At(a), accepted \in BOOLEAN :
           Answered(n, m, table[n], After(accepted)) /\ StoreAt(m, accepted)
      \/ StoreUnacknowledged(n, a, d)
  BY DEF PlaceAt
<1> HIDE DEF i, a, d
<1>4. n \in Clients /\ d.keys # <<>>
  BY <1>1, <1>2 DEF JobOK, Working
<1>5. CASE StoreUnacknowledged(n, a, d)
  <2>1. Exchange(n, d) /\ held \subseteq held' /\ held' \subseteq Nodes
    BY <1>5, StoreUnacknowledgedExchange
  <2>2. JobOK(n, d, table'[n], held')
    BY <1>1, <1>2, <1>4, <2>1, PublishOK
  <2> QED BY <2>1, <2>2, <1>2, ExchangeKeeps
<1>6. ASSUME NEW m \in At(a), NEW accepted \in BOOLEAN,
             Answered(n, m, table[n], After(accepted)), StoreAt(m, accepted)
      PROVE  Kept
  <2> DEFINE j == After(accepted)
  <2>1. m \in Nodes /\ m \in Servers
    BY ServerAt DEF IInv
  <2>2. held \subseteq held' /\ held' \subseteq Nodes /\ (accepted => m \in held')
    BY <1>6, <2>1, StoreHeld
  <2>3. table[n] \in Tables /\ WellFormed(table[n], n)
    BY DEF IInv, TypeOK, TablesWellFormed
  <2>4. Exchange(n, j)
    BY <1>6, <2>3, AnsweredExchange
  <2>5. /\ j \in Job /\ j.phase = "place" /\ j.keys = d.keys /\ j.holders = d.holders
        /\ j.result = d.result
    BY <1>1, <1>2 DEF Job
  <2>6. j.hit => d.hit \/ accepted
    BY <1>2 DEF Job
  <2> HIDE DEF j
  <2>7. accepted => held' \cap Servers # {}
    BY <2>1, <2>2
  <2>8. j.hit => i.hit \/ held' \cap Servers # {}
    BY <2>6, <2>7, <1>2
  <2>9. JobOK(n, j, table'[n], held')
    BY <1>1, <1>2, <1>4, <2>2, <2>5, <2>8, PublishOK
  <2> QED BY <2>2, <2>4, <2>5, <2>9, ExchangeKeeps
<1> QED BY <1>3, <1>5, <1>6

\* On to the next routing key, or to the local store and the result.
LEMMA EndPlaceKeeps ==
  ASSUME IInv, NEW n \in Nodes, EndPlace(n)
  PROVE  Kept
<1> DEFINE i == job[n]
           rest == Tail(i.keys)
           j == [i EXCEPT !.keys = rest]
           queue == <<Head(seeds[n])>>
           k == [j EXCEPT !.phase = "direct_store", !.queue = queue]
<1>1. /\ i \in Job /\ i.phase = "place" /\ held \subseteq Nodes
      /\ JobOK(n, i, table[n], held) /\ TypeOK
  BY DEF IInv, TypeOK, EndPlace, Through
<1>2. n \in Clients /\ i.keys # <<>>
  BY <1>1 DEF JobOK, Working
<1>3. queue \in Seq(Addrs)
  BY <1>2, FirstSeed
<1>4. \/ j.keys # <<>> /\ Internal(n, Locate(n, j)) /\ held' = held
      \/ Internal(n, IF j.hit THEN Idle(j.ops, "stored") ELSE k) /\ StoreAt(n, TRUE)
  BY DEF EndPlace
<1> HIDE DEF i, queue
<1>5. rest \in Seq(Hash)
  BY <1>1, <1>2 DEF Job
<1> HIDE DEF rest
<1>6. /\ j \in Job /\ j.phase = "place" /\ j.holders = i.holders /\ j.result = i.result
      /\ j.ops = i.ops
  BY <1>1, <1>5 DEF Job
<1>7. j.hit = i.hit
  BY <1>1 DEF Job
<1> HIDE DEF j
<1>8. CASE j.keys # <<>> /\ Internal(n, Locate(n, j)) /\ held' = held
  <2> DEFINE next == Locate(n, j)
  <2>1. /\ next \in Job /\ next.phase = "locate" /\ next.keys = j.keys
        /\ next.holders = j.holders /\ next.result = j.result /\ next.hit = j.hit
    BY <1>1, <1>6, <1>8, LocateJob
  <2>2. Exchange(n, next)
    BY <1>8, InternalExchange
  <2> HIDE DEF next
  <2>3. JobOK(n, next, table'[n], held)
    BY <1>1, <1>2, <1>6, <1>7, <1>8, <2>1, PublishOK
  <2> QED BY <1>1, <1>8, <2>1, <2>2, <2>3, ExchangeKeeps
<1>9. CASE Internal(n, IF j.hit THEN Idle(j.ops, "stored") ELSE k) /\ StoreAt(n, TRUE)
  <2> DEFINE next == IF j.hit THEN Idle(j.ops, "stored") ELSE k
  <2>1. held \subseteq held' /\ held' \subseteq Nodes
    BY <1>9, StoreHeld
  <2>2. Exchange(n, next)
    BY <1>9, InternalExchange
  <2>3. CASE j.hit
    <3>1. held' \cap Servers # {}
      BY <1>1, <1>7, <2>1, <2>3 DEF JobOK
    <3>2. j.ops \in 0..MaxOps /\ "stored" \in Results
      BY <1>6 DEF Job, Results
    <3>3. next = Idle(j.ops, "stored") /\ next \in Job /\ JobOK(n, next, table'[n], held')
      BY <2>3, <3>1, <3>2, IdleJob, IdleOK
    <3> QED BY <2>1, <2>2, <3>3, ExchangeKeeps
  <2>4. CASE ~j.hit
    <3>1. next = k
      BY <2>4
    <3>2. k \in Job /\ k.phase = "direct_store" /\ k.holders = j.holders /\ k.result = j.result
      BY <1>3, <1>6 DEF Job, Phases
    <3>3. k.hit = j.hit
      BY <1>6 DEF Job
    <3> HIDE DEF k, next
    <3>4. JobOK(n, k, table'[n], held')
      BY <1>1, <1>2, <1>6, <1>7, <2>1, <3>2, <3>3, PublishOK
    <3> QED BY <2>1, <2>2, <3>1, <3>2, <3>4, ExchangeKeeps
  <2> QED BY <2>3, <2>4
<1> QED BY <1>4, <1>8, <1>9

\* The direct STORE ends the publish.
LEMMA StoreDirectlyKeeps ==
  ASSUME IInv, NEW n \in Nodes, StoreDirectly(n)
  PROVE  Kept
<1> DEFINE a == Contact(n)
           ops == job[n].ops
           End(result) == Idle(ops, result)
<1>1. /\ ops \in 0..MaxOps /\ table[n] \in Tables /\ WellFormed(table[n], n)
  BY DEF IInv, TypeOK, Job, TablesWellFormed
<1>2. ASSUME NEW result \in {"stored", "refused", "error"}, Exchange(n, End(result)),
             held \subseteq held', held' \subseteq Nodes,
             result = "stored" => held' \cap Servers # {}
      PROVE  Kept
  <2>1. result \in Results
    BY DEF Results
  <2>2. End(result) \in Job /\ JobOK(n, End(result), table'[n], held')
    BY <1>1, <1>2, <2>1, IdleJob, IdleOK
  <2> QED BY <1>2, <2>2, ExchangeKeeps
<1>3. \/ \E m \in At(a), accepted \in BOOLEAN :
           /\ Answered(n, m, table[n], End(IF accepted THEN "stored" ELSE "refused"))
           /\ StoreAt(m, accepted)
      \/ StoreUnacknowledged(n, a, End("error"))
  BY DEF StoreDirectly
<1> HIDE DEF a, End
<1>4. CASE StoreUnacknowledged(n, a, End("error"))
  BY <1>2, <1>4, StoreUnacknowledgedExchange
<1>5. ASSUME NEW m \in At(a), NEW accepted \in BOOLEAN,
             Answered(n, m, table[n], End(IF accepted THEN "stored" ELSE "refused")),
             StoreAt(m, accepted)
      PROVE  Kept
  <2> DEFINE result == IF accepted THEN "stored" ELSE "refused"
  <2>1. m \in Nodes /\ m \in Servers
    BY ServerAt DEF IInv
  <2>2. held \subseteq held' /\ held' \subseteq Nodes /\ (accepted => m \in held')
    BY <1>5, <2>1, StoreHeld
  <2>3. Exchange(n, End(result))
    BY <1>1, <1>5, AnsweredExchange
  <2>4. result \in {"stored", "refused"} /\ (result = "stored" => accepted)
    OBVIOUS
  <2> HIDE DEF result
  <2>5. result = "stored" => held' \cap Servers # {}
    BY <2>1, <2>2, <2>4
  <2> QED BY <1>2, <2>2, <2>3, <2>4, <2>5
<1> QED BY <1>3, <1>4, <1>5

-----------------------------------------------------------------------------
(* The theorems.                                                            *)

\* No job has done anything, and every table is empty.
LEMMA InitIInv ==
  ASSUME Init
  PROVE  IInv
<1> DEFINE Start(n) == [Idle(0, "none") EXCEPT !.phase = "ping", !.queue = seeds[n]]
<1>1. job = [n \in Nodes |-> Start(n)] /\ table = [n \in Nodes |-> EmptyTable]
  BY DEF Init
<1>2. ASSUME NEW n \in Nodes
      PROVE  /\ Start(n) \in Job /\ Start(n).phase = "ping" /\ Start(n).holders = {}
             /\ Start(n).result = "none"
  <2>1. seeds[n] \in Seq(Addrs) /\ 0 \in 0..MaxOps /\ "none" \in Results
    BY NetworkAssumption DEF Results
  <2> DEFINE idle == Idle(0, "none")
  <2>2. idle \in Job
    BY <2>1, IdleJob
  <2>3. idle.holders = {} /\ idle.result = "none"
    BY DEF Idle
  <2> HIDE DEF idle
  <2>4. /\ [idle EXCEPT !.phase = "ping", !.queue = seeds[n]] \in Job
        /\ [idle EXCEPT !.phase = "ping", !.queue = seeds[n]].phase = "ping"
        /\ [idle EXCEPT !.phase = "ping", !.queue = seeds[n]].holders = {}
        /\ [idle EXCEPT !.phase = "ping", !.queue = seeds[n]].result = "none"
    BY <2>1, <2>2, <2>3 DEF Job, Phases
  <2> QED BY <2>4 DEF idle
<1>3. ASSUME NEW n \in Nodes PROVE ~Start(n).hit
  BY DEF Idle
<1> HIDE DEF Start
<1>4. EmptyTable \in Tables /\ \A i \in Indexes : EmptyTable[i] = <<>>
  BY DEF EmptyTable, Tables
<1>5. \A n \in Nodes : WellFormed(EmptyTable, n)
  BY <1>4, TableAssumption DEF WellFormed
<1>6. TypeOK /\ TablesWellFormed
  <2>1. job \in [Nodes -> Job] /\ table \in [Nodes -> Tables]
    BY <1>1, <1>2, <1>4
  <2>2. 0 \in 0..MaxFailures /\ held = {} /\ up = Servers /\ failures = 0
    <3>1. MaxFailures \in Nat
      BY NetworkAssumption
    <3>2. held = {} /\ up = Servers /\ failures = 0
      BY DEF Init
    <3> QED BY <3>1, <3>2
  <2>3. TablesWellFormed
    BY <1>1, <1>5 DEF TablesWellFormed
  <2> QED BY <2>1, <2>2, <2>3 DEF TypeOK
<1>7. ASSUME NEW n \in Nodes PROVE JobOK(n, job[n], table[n], held)
  <2>1. Explained(Start(n), table[n])
    BY <1>2 DEF Explained
  <2> QED BY <1>1, <1>2, <1>3, <2>1 DEF JobOK, Working
<1> QED BY <1>6, <1>7 DEF IInv

\* Every step keeps the invariant and every table its nodes.
LEMMA NextKeeps ==
  ASSUME IInv, [Next]_vars
  PROVE  Kept
<1>1. ASSUME NEW n \in Nodes, Work(n) PROVE Kept
  BY <1>1, PingSeedKeeps, JoinSeedKeeps, BootedKeeps, QueryNodeKeeps, EndRoundKeeps,
     AskAllKeeps, NothingFoundKeeps, FindDirectlyKeeps, LocateNodeKeeps, EndLocateKeeps,
     PlaceAtKeeps, EndPlaceKeeps, StoreDirectlyKeeps DEF Work
<1>2. ASSUME NEW n \in Nodes, NEW key \in Targets, StartLookup(n, key) PROVE Kept
  BY <1>2, StartLookupKeeps
<1>3. ASSUME NEW n \in Nodes, StartPublish(n) PROVE Kept
  BY <1>3, StartPublishKeeps
<1>4. ASSUME NEW m \in Servers, Depart(m) PROVE Kept
  <2>1. table' = table /\ held' = held /\ job' = job /\ failures' = failures /\ up' \subseteq up
    BY <1>4 DEF Depart
  <2> QED BY <2>1 DEF Kept, IInv, TypeOK, TablesWellFormed, JobOK, Explained
<1>5. CASE UNCHANGED vars
  BY <1>5 DEF vars, Kept, IInv, TypeOK, TablesWellFormed, JobOK, Explained
<1> QED BY <1>1, <1>2, <1>3, <1>4, <1>5 DEF Next

\* Bootstraps, lookups, publishes, failed calls and departures keep the
\* inductive invariant, in any order (node.rs and its callers).
THEOREM Invariance == Spec => []IInv
<1>1. Init => IInv
  BY InitIInv
<1>2. IInv /\ [Next]_vars => IInv'
  BY NextKeeps DEF Kept
<1> QED BY <1>1, <1>2, PTL DEF Spec

\* The network stays within its types.
THEOREM TypeCorrect == Spec => []TypeOK
<1>1. IInv => TypeOK
  BY DEF IInv
<1> QED BY <1>1, Invariance, PTL

\* Requests, answers and bootstraps interleave freely: every routing table
\* stays well formed (routing.rs, add_node and its callers in node.rs).
THEOREM TablesStayWellFormed == Spec => []TablesWellFormed
<1>1. IInv => TablesWellFormed
  BY DEF IInv
<1> QED BY <1>1, Invariance, PTL

\* No request and no answer displaces a serving node from a table (node.rs,
\* update_routing_table and the merges of answers).
THEOREM NodesAreNotDisplaced == Spec => AnsweringServersStay
<1>1. IInv /\ [Next]_vars =>
        [\A n \in Nodes : Known(table[n]) \cap Serving \subseteq Known(table'[n])]_vars
  <2>1. IInv /\ [Next]_vars =>
          [\A n \in Nodes : Known(table[n]) \subseteq Known(table'[n])]_vars
    BY NextKeeps DEF Kept
  <2> QED BY <2>1
<1> QED BY <1>1, Invariance, PTL DEF Spec, AnsweringServersStay

\* The small-network fallback misses no server of the table that held the
\* descriptor and would answer (node.rs, lookup_value).
THEOREM EmptyLookupsAreExplained == Spec => []EmptyLookupExplained
<1>1. IInv => EmptyLookupExplained
  <2> SUFFICES ASSUME IInv, NEW n \in Nodes, job[n].phase = "direct_find",
                      Len(all_nodes(table[n])) <= K,
                      NEW m \in job[n].holders \cap Servers,
                      \E p \in 1..Len(all_nodes(table[n])) :
                        all_nodes(table[n])[p].addr = listens[m]
               PROVE  m \in job[n].unanswered
    BY DEF EmptyLookupExplained
  <2>1. Explained(job[n], table[n])
    BY DEF IInv, JobOK
  <2> QED BY <2>1 DEF Explained
<1> QED BY <1>1, Invariance, PTL

\* A publish that counts an accepted STORE, or reports success, has its
\* descriptor on a server (mesh-client, publish; node.rs, iterative_store).
THEOREM PublishedStaysHeld == Spec => []PublishedIsHeld
<1>1. IInv => PublishedIsHeld
  BY DEF IInv, JobOK, PublishedIsHeld
<1> QED BY <1>1, Invariance, PTL

-----------------------------------------------------------------------------
(* Jobs move on.                                                            *)

\* Job k is nearer its end than job j.  A further round of a lookup asks
\* between one and alpha entries, all of nodes that no earlier round asked.
Advances(j, k) ==
  \/ k.phase = "idle"
  \/ j.phase = "ping" /\ k.phase = "join" /\ k.queue = j.queue
  \/ /\ k.phase = j.phase \/ (j.phase = "join" /\ k.phase = "ping")
     /\ j.queue # <<>> /\ k.queue = Tail(j.queue)
     /\ k.keys = j.keys /\ k.queried = j.queried
  \/ /\ j.phase = "query" /\ k.phase = "query" /\ k.keys = j.keys
     /\ j.queue = <<>> /\ Len(k.queue) \in 1..alpha
     /\ j.queried \subseteq k.queried /\ k.queried # j.queried
     /\ \A q \in 1..Len(k.queue) :
          \E e \in NodeInfo : e.addr = k.queue[q] /\ e.node \in k.queried \ j.queried
  \/ j.phase = "query" /\ k.phase = "all"
  \/ j.phase = "all" /\ k.phase = "direct_find"
  \/ j.phase = "locate" /\ k.phase = "place"
  \/ j.phase = "place" /\ k.phase = "locate" /\ j.keys # <<>> /\ k.keys = Tail(j.keys)
  \/ j.phase = "place" /\ k.phase = "direct_store"

\* Whatever a node does for its job brings it nearer its end, and nothing else
\* changes a job in progress.
JobsAdvance ==
  [][\A n \in Nodes :
       /\ Work(n) => Advances(job[n], job'[n])
       /\ job[n].phase # "idle" => job'[n] = job[n] \/ Advances(job[n], job'[n])]_vars

\* The nodes left out are left out.
LEMMA WithoutNodes ==
  ASSUME NEW infos \in Seq(NodeInfo), NEW nodes
  PROVE  Without(infos, nodes) \in Seq({e \in NodeInfo : e.node \notin nodes})
<1> DEFINE S == {e \in NodeInfo : e.node \notin nodes}
           parts == [p \in 1..Len(infos) |->
                       IF infos[p].node \in nodes THEN <<>> ELSE <<infos[p]>>]
<1>1. \A p \in 1..Len(infos) : infos[p] \in NodeInfo
  OBVIOUS
<1>2. ASSUME NEW p \in 1..Len(infos)
      PROVE  (IF infos[p].node \in nodes THEN <<>> ELSE <<infos[p]>>) \in Seq(S)
  <2>1. CASE infos[p].node \in nodes
    <3>1. <<>> \in Seq(S)
      OBVIOUS
    <3> QED BY <2>1, <3>1
  <2>2. CASE infos[p].node \notin nodes
    <3>1. infos[p] \in S
      BY <2>2, <1>1
    <3> HIDE DEF S
    <3>2. <<infos[p]>> \in Seq(S)
      BY <3>1
    <3> QED BY <2>2, <3>2
  <2> QED BY <2>1, <2>2
<1>3. parts \in Seq(Seq(S))
  <2> HIDE DEF S
  <2> QED BY <1>2
<1> HIDE DEF parts, S
<1>4. FlattenSeq(parts) \in Seq(S)
  BY <1>3, FlattenTyping
<1> QED BY <1>4 DEF Without, parts, S

\* A round that asks anybody asks at most alpha entries, of nodes that no
\* earlier round asked.
LEMMA NextRoundAsks ==
  ASSUME NEW j \in Job, NextRound(j).queue # <<>>
  PROVE  LET next == NextRound(j)
         IN /\ Len(next.queue) \in 1..alpha
            /\ j.queried \subseteq next.queried /\ next.queried # j.queried
            /\ \A q \in 1..Len(next.queue) :
                 \E e \in NodeInfo :
                   e.addr = next.queue[q] /\ e.node \in next.queried \ j.queried
<1> DEFINE S == {e \in NodeInfo : e.node \notin j.queried}
           todo == Without(j.known, j.queried)
           batch == Take(todo, alpha)
           next == NextRound(j)
<1>1. j.known \in Seq(NodeInfo)
  BY DEF Job
<1>2. todo \in Seq(S)
  BY <1>1, WithoutNodes
<1>3. next = [j EXCEPT !.phase = "query", !.queue = AddrsOf(batch),
                       !.queried = @ \cup NodesOf(batch), !.new_nodes = <<>>]
  BY DEF NextRound
<1>4. batch \in Seq(S)
  <2> HIDE DEF S, todo
  <2> QED BY <1>2, TakeTyping, NetworkAssumption
<1>5. Len(batch) <= alpha /\ Len(batch) \in Nat
  <2> DEFINE length == IF alpha < Len(todo) THEN alpha ELSE Len(todo)
  <2> HIDE DEF S, todo
  <2>1. Len(todo) \in Nat /\ alpha \in Nat
    BY <1>2, NetworkAssumption
  <2>2. length \in 0..Len(todo) /\ length <= alpha
    BY <2>1
  <2>3. batch = SubSeq(todo, 1, length)
    BY DEF Take
  <2> HIDE DEF length, batch
  <2>4. Len(batch) = length
    BY <1>2, <2>2, <2>3
  <2> QED BY <2>1, <2>2, <2>4
<1> HIDE DEF batch, next, todo
<1>6. next.queue = AddrsOf(batch) /\ next.queried = j.queried \cup NodesOf(batch)
  BY <1>3 DEF Job
<1>7. \A q \in 1..Len(batch) :
        batch[q] \in NodeInfo /\ batch[q].node \notin j.queried
  <2>1. \A q \in 1..Len(batch) : batch[q] \in S
    <3> HIDE DEF S
    <3> QED BY <1>4
  <2> QED BY <2>1
<1>8. /\ Len(AddrsOf(batch)) = Len(batch)
      /\ \A q \in 1..Len(batch) : AddrsOf(batch)[q] = batch[q].addr
      /\ \A q \in 1..Len(batch) : batch[q].node \in NodesOf(batch)
  BY <1>5 DEF AddrsOf, NodesOf
<1>9. Len(batch) # 0
  <2>1. AddrsOf(batch) # <<>>
    BY <1>6 DEF next
  <2>2. AddrsOf(batch) = [p \in 1..Len(batch) |-> batch[p].addr]
    BY DEF AddrsOf
  <2> QED BY <2>1, <2>2, <1>5
<1>10. Len(next.queue) \in 1..alpha
  BY <1>5, <1>6, <1>8, <1>9, NetworkAssumption
<1>11. j.queried \subseteq next.queried /\ next.queried # j.queried
  <2>1. 1 \in 1..Len(batch)
    BY <1>5, <1>9
  <2> QED BY <2>1, <1>6, <1>7, <1>8
<1>12. ASSUME NEW q \in 1..Len(next.queue)
       PROVE  \E e \in NodeInfo :
                e.addr = next.queue[q] /\ e.node \in next.queried \ j.queried
  <2>1. q \in 1..Len(batch)
    BY <1>6, <1>8
  <2>2. /\ batch[q] \in NodeInfo /\ batch[q].addr = next.queue[q]
        /\ batch[q].node \in next.queried \ j.queried
    BY <2>1, <1>6, <1>7, <1>8
  <2> QED BY <2>2
<1> QED BY <1>10, <1>11, <1>12 DEF next

\* A call ends with the job of its caller at j; no other job changes.
LEMMA CallsSetJob ==
  ASSUME NEW n \in Nodes, TypeOK, NEW a, NEW j, NEW m, NEW b,
         \/ Answered(n, m, b, j) \/ NoAnswer(n, a, j)
         \/ StoreUnacknowledged(n, a, j) \/ Internal(n, j)
  PROVE  job'[n] = j /\ \A o \in Nodes \ {n} : job'[o] = job[o]
<1>1. job' = [job EXCEPT ![n] = j]
  BY DEF Answered, NoAnswer, StoreUnacknowledged, NotHandled, AnswerLost, Internal
<1> QED BY <1>1 DEF TypeOK

\* A call taken off the queue.
LEMMA DequeuedAdvances ==
  ASSUME IInv, NEW n \in Nodes, job[n].queue # <<>>, NEW k,
         k.queue = Dequeued(n).queue, k.keys = Dequeued(n).keys,
         k.queried = Dequeued(n).queried,
         k.phase = job[n].phase \/ (job[n].phase = "join" /\ k.phase = "ping")
  PROVE  Advances(job[n], k)
<1> DEFINE i == job[n]
           rest == Tail(i.queue)
           d == Dequeued(n)
<1>1. i \in Job
  BY DEF IInv, TypeOK
<1>2. d = [i EXCEPT !.queue = rest]
  BY DEF Dequeued
<1> HIDE DEF i, rest, d
<1>3. d.queue = rest /\ d.keys = i.keys /\ d.queried = i.queried
  BY <1>1, <1>2 DEF Job
<1>4. /\ k.queue = Tail(i.queue) /\ i.queue # <<>> /\ k.keys = i.keys
      /\ k.queried = i.queried /\ (k.phase = i.phase \/ (i.phase = "join" /\ k.phase = "ping"))
  BY <1>3 DEF i, rest, d
<1>5. Advances(i, k)
  BY <1>4 DEF Advances
<1> QED BY <1>5 DEF i

\* The jobs that a step of n leaves.
Moves(n) ==
  /\ Advances(job[n], job'[n])
  /\ \A o \in Nodes \ {n} : job'[o] = job[o]

LEMMA IdleAdvances ==
  ASSUME NEW j, NEW ops, NEW result
  PROVE  Advances(j, Idle(ops, result))
BY DEF Advances, Idle

LEMMA BootstrapMoves ==
  ASSUME IInv, NEW n \in Nodes, PingSeed(n) \/ JoinSeed(n) \/ Booted(n)
  PROVE  Moves(n)
<1> DEFINE i == job[n]
<1>1. i \in Job /\ TypeOK
  BY DEF IInv, TypeOK
<1>2. CASE PingSeed(n)
  <2> DEFINE j == [i EXCEPT !.phase = "join"]
  <2>1. \/ \E m, b : Answered(n, m, b, j)
        \/ NoAnswer(n, Contact(n), j)
    BY <1>2 DEF PingSeed
  <2>2. i.phase = "ping"
    BY <1>2 DEF PingSeed, In
  <2> HIDE DEF i
  <2>3. j.phase = "join" /\ j.queue = i.queue
    BY <1>1 DEF Job
  <2>4. Advances(i, j)
    BY <2>2, <2>3 DEF Advances
  <2> HIDE DEF j
  <2> QED BY <1>1, <2>1, <2>4, CallsSetJob DEF Moves, i
<1>3. CASE JoinSeed(n)
  <2> DEFINE d == Dequeued(n)
             j == [d EXCEPT !.phase = "ping"]
  <2>1. \/ \E m, b : Answered(n, m, b, j)
        \/ NoAnswer(n, Contact(n), j)
    BY <1>3 DEF JoinSeed
  <2>2. job[n].phase = "join" /\ job[n].queue # <<>>
    BY <1>3 DEF JoinSeed, In
  <2>3. d \in Job
    BY <2>2, DequeuedJob
  <2>4. j.phase = "ping" /\ j.queue = d.queue /\ j.keys = d.keys /\ j.queried = d.queried
    <3> HIDE DEF d
    <3> QED BY <2>3 DEF Job
  <2> HIDE DEF j, i
  <2>5. Advances(job[n], j)
    BY <2>2, <2>4, DequeuedAdvances
  <2> QED BY <1>1, <2>1, <2>5, CallsSetJob DEF Moves
<1>4. CASE Booted(n)
  <2> DEFINE j == Idle(0, "none")
  <2>1. Internal(n, j)
    BY <1>4 DEF Booted
  <2>2. Advances(job[n], j)
    BY IdleAdvances
  <2> HIDE DEF i, j
  <2> QED BY <1>1, <2>1, <2>2, CallsSetJob DEF Moves
<1> QED BY <1>2, <1>3, <1>4

LEMMA QueryNodeMoves ==
  ASSUME IInv, NEW n \in Nodes, QueryNode(n)
  PROVE  Moves(n)
<1> DEFINE d == Dequeued(n)
           After(m, nodes) == [d EXCEPT !.hit = @ \/ m \in held, !.new_nodes = @ \o nodes]
<1>1. TypeOK /\ job[n].queue # <<>>
  BY DEF IInv, QueryNode, In
<1>2. d \in Job /\ d.phase = job[n].phase
  BY <1>1, DequeuedJob
<1>3. \/ \E m, b, nodes : Answered(n, m, b, After(m, nodes))
      \/ NoAnswer(n, Contact(n), d)
  BY DEF QueryNode
<1>4. CASE NoAnswer(n, Contact(n), d)
  <2>1. Advances(job[n], d)
    BY <1>1, <1>2, DequeuedAdvances
  <2> HIDE DEF d
  <2> QED BY <1>1, <1>4, <2>1, CallsSetJob DEF Moves
<1>5. ASSUME NEW m, NEW b, NEW nodes, Answered(n, m, b, After(m, nodes))
      PROVE  Moves(n)
  <2> DEFINE j == After(m, nodes)
  <2>1. j.phase = d.phase /\ j.queue = d.queue /\ j.keys = d.keys /\ j.queried = d.queried
    <3> HIDE DEF d
    <3> QED BY <1>2 DEF Job
  <2>2. Answered(n, m, b, j)
    BY <1>5
  <2> HIDE DEF j
  <2>3. Advances(job[n], j)
    BY <1>1, <1>2, <2>1, DequeuedAdvances
  <2> QED BY <1>1, <2>2, <2>3, CallsSetJob DEF Moves
<1> QED BY <1>3, <1>4, <1>5

\* The fallback follows the rounds.
LEMMA FallbackAdvances ==
  ASSUME TypeOK, NEW n \in Nodes, NEW j \in Job, j.phase = "query"
  PROVE  Advances(j, Fallback(n, j))
<1>1. Fallback(n, j).phase = "all"
  BY FallbackJob
<1> QED BY <1>1 DEF Advances

LEMMA EndRoundMoves ==
  ASSUME IInv, NEW n \in Nodes, EndRound(n)
  PROVE  Moves(n)
<1> DEFINE i == job[n]
           merged == ByDistance(Head(i.keys), i.known \o i.new_nodes)
           c == [i EXCEPT !.known = Take(merged, K)]
           j == CASE i.hit -> Idle(i.ops, "found")
                  [] ~i.hit /\ i.new_nodes = <<>> -> Fallback(n, i)
                  [] OTHER -> IF NextRound(c).queue = <<>> THEN Fallback(n, i)
                              ELSE NextRound(c)
<1>1. i \in Job /\ i.phase = "query" /\ i.queue = <<>> /\ TypeOK /\ i.keys # <<>>
  BY DEF IInv, TypeOK, EndRound, Through, JobOK
<1>2. Internal(n, j)
  BY DEF EndRound
<1>3. c \in Job /\ c.keys = i.keys /\ c.queried = i.queried
  <2>1. Head(i.keys) \in Hash
    BY <1>1 DEF Job
  <2>2. i.known \o i.new_nodes \in Seq(NodeInfo)
    BY <1>1 DEF Job
  <2>3. merged \in Seq(NodeInfo)
    BY <2>1, <2>2, ByDistanceSorts
  <2> HIDE DEF merged, i
  <2>4. Take(merged, K) \in Seq(NodeInfo)
    BY <2>3, TakeTyping, TableAssumption
  <2> QED BY <2>4, <1>1 DEF Job
<1> HIDE DEF i, c
<1>4. Advances(i, Fallback(n, i))
  BY <1>1, FallbackAdvances
<1>5. Advances(i, Idle(i.ops, "found"))
  BY IdleAdvances
<1>6. ASSUME NextRound(c).queue # <<>> PROVE Advances(i, NextRound(c))
  <2> DEFINE next == NextRound(c)
  <2>1. next.phase = "query" /\ next.keys = i.keys
    BY <1>3, NextRoundJob
  <2>2. /\ Len(next.queue) \in 1..alpha
        /\ i.queried \subseteq next.queried /\ next.queried # i.queried
        /\ \A q \in 1..Len(next.queue) :
             \E e \in NodeInfo : e.addr = next.queue[q] /\ e.node \in next.queried \ i.queried
    BY <1>3, <1>6, NextRoundAsks
  <2> HIDE DEF next
  <2>3. Advances(i, next)
    BY <1>1, <2>1, <2>2 DEF Advances
  <2> QED BY <2>3 DEF next
<1>7. Advances(i, j)
  <2>1. CASE i.hit
    BY <2>1, <1>5
  <2>2. CASE ~i.hit /\ i.new_nodes = <<>>
    <3>1. j = Fallback(n, i)
      BY <2>2
    <3> QED BY <3>1, <1>4
  <2>3. CASE ~i.hit /\ i.new_nodes # <<>>
    <3>1. j = IF NextRound(c).queue = <<>> THEN Fallback(n, i) ELSE NextRound(c)
      BY <2>3
    <3> QED BY <3>1, <1>4, <1>6
  <2> QED BY <2>1, <2>2, <2>3
<1> HIDE DEF j
<1> QED BY <1>1, <1>2, <1>7, CallsSetJob DEF Moves, i

LEMMA AskAllMoves ==
  ASSUME IInv, NEW n \in Nodes, AskAll(n)
  PROVE  Moves(n)
<1> DEFINE d == Dequeued(n)
           silent == {m \in Servers : listens[m] = Contact(n)}
           j == [d EXCEPT !.unanswered = @ \cup silent]
           found == Idle(d.ops, "found")
<1>1. TypeOK /\ job[n].queue # <<>>
  BY DEF IInv, AskAll, In
<1>2. d \in Job /\ d.phase = job[n].phase
  BY <1>1, DequeuedJob
<1>3. \/ \E m, b : Answered(n, m, b, found)
      \/ \E m, b : Answered(n, m, b, d)
      \/ NoAnswer(n, Contact(n), j)
  BY DEF AskAll
<1>4. Advances(job[n], d)
  BY <1>1, <1>2, DequeuedAdvances
<1>5. Advances(job[n], j)
  <2>1. j.phase = d.phase /\ j.queue = d.queue /\ j.keys = d.keys /\ j.queried = d.queried
    <3> HIDE DEF d, silent
    <3> QED BY <1>2 DEF Job
  <2> HIDE DEF j
  <2> QED BY <1>1, <1>2, <2>1, DequeuedAdvances
<1>6. Advances(job[n], found)
  BY IdleAdvances
<1> HIDE DEF d, j, found
<1> QED BY <1>1, <1>3, <1>4, <1>5, <1>6, CallsSetJob DEF Moves

LEMMA NothingFoundMoves ==
  ASSUME IInv, NEW n \in Nodes, NothingFound(n)
  PROVE  Moves(n)
<1> DEFINE i == job[n]
           queue == <<Head(seeds[n])>>
           j == [i EXCEPT !.phase = "direct_find", !.queue = queue]
<1>1. TypeOK /\ i \in Job /\ i.phase = "all" /\ Internal(n, j)
  BY DEF IInv, TypeOK, NothingFound, Through
<1> HIDE DEF i, queue
<1>2. j.phase = "direct_find"
  BY <1>1 DEF Job
<1> HIDE DEF j
<1>3. Advances(i, j)
  BY <1>1, <1>2 DEF Advances
<1> QED BY <1>1, <1>3, CallsSetJob DEF Moves, i

LEMMA DirectMoves ==
  ASSUME IInv, NEW n \in Nodes, FindDirectly(n) \/ StoreDirectly(n)
  PROVE  Moves(n)
<1>1. TypeOK
  BY DEF IInv
<1>2. \E ops, result, a, m, b :
        \/ Answered(n, m, b, Idle(ops, result)) \/ NoAnswer(n, a, Idle(ops, result))
        \/ StoreUnacknowledged(n, a, Idle(ops, result))
  <2>1. CASE FindDirectly(n)
    BY <2>1 DEF FindDirectly
  <2>2. CASE StoreDirectly(n)
    BY <2>2 DEF StoreDirectly
  <2> QED BY <2>1, <2>2
<1>3. PICK ops, result, a, m, b :
        \/ Answered(n, m, b, Idle(ops, result)) \/ NoAnswer(n, a, Idle(ops, result))
        \/ StoreUnacknowledged(n, a, Idle(ops, result))
  BY <1>2
<1> DEFINE j == Idle(ops, result)
<1>4. Advances(job[n], j)
  BY IdleAdvances
<1>5. \/ Answered(n, m, b, j) \/ NoAnswer(n, a, j) \/ StoreUnacknowledged(n, a, j)
  BY <1>3
<1> HIDE DEF j
<1> QED BY <1>1, <1>4, <1>5, CallsSetJob DEF Moves

LEMMA LocateNodeMoves ==
  ASSUME IInv, NEW n \in Nodes, LocateNode(n)
  PROVE  Moves(n)
<1> DEFINE d == Dequeued(n)
           After(others) == [d EXCEPT !.known = @ \o others]
<1>1. TypeOK /\ job[n].queue # <<>>
  BY DEF IInv, LocateNode, In
<1>2. d \in Job /\ d.phase = job[n].phase
  BY <1>1, DequeuedJob
<1>3. \/ \E m, b, others : Answered(n, m, b, After(others))
      \/ NoAnswer(n, Contact(n), d)
  BY DEF LocateNode
<1>4. CASE NoAnswer(n, Contact(n), d)
  <2>1. Advances(job[n], d)
    BY <1>1, <1>2, DequeuedAdvances
  <2> HIDE DEF d
  <2> QED BY <1>1, <1>4, <2>1, CallsSetJob DEF Moves
<1>5. ASSUME NEW m, NEW b, NEW others, Answered(n, m, b, After(others))
      PROVE  Moves(n)
  <2> DEFINE j == After(others)
  <2>1. j.phase = d.phase /\ j.queue = d.queue /\ j.keys = d.keys /\ j.queried = d.queried
    <3> HIDE DEF d
    <3> QED BY <1>2 DEF Job
  <2>2. Answered(n, m, b, j)
    BY <1>5
  <2> HIDE DEF j
  <2>3. Advances(job[n], j)
    BY <1>1, <1>2, <2>1, DequeuedAdvances
  <2> QED BY <1>1, <2>2, <2>3, CallsSetJob DEF Moves
<1> QED BY <1>3, <1>4, <1>5

LEMMA EndLocateMoves ==
  ASSUME IInv, NEW n \in Nodes, EndLocate(n)
  PROVE  Moves(n)
<1> DEFINE i == job[n]
           queue == AddrsOf(Without(Take(ByDistance(Head(i.keys), i.known), K), {n}))
           j == [i EXCEPT !.phase = "place", !.known = <<>>, !.queue = queue]
<1>1. TypeOK /\ i \in Job /\ i.phase = "locate" /\ Internal(n, j)
  BY DEF IInv, TypeOK, EndLocate, Through
<1> HIDE DEF i, queue
<1>2. j.phase = "place"
  BY <1>1 DEF Job
<1> HIDE DEF j
<1>3. Advances(i, j)
  BY <1>1, <1>2 DEF Advances
<1> QED BY <1>1, <1>3, CallsSetJob DEF Moves, i

LEMMA PlaceAtMoves ==
  ASSUME IInv, NEW n \in Nodes, PlaceAt(n)
  PROVE  Moves(n)
<1> DEFINE d == Dequeued(n)
           After(accepted) == [d EXCEPT !.hit = @ \/ accepted]
<1>1. TypeOK /\ job[n].queue # <<>>
  BY DEF IInv, PlaceAt, In
<1>2. d \in Job /\ d.phase = job[n].phase
  BY <1>1, DequeuedJob
<1>3. \/ \E m, b : \E accepted \in BOOLEAN : Answered(n, m, b, After(accepted))
      \/ StoreUnacknowledged(n, Contact(n), d)
  BY DEF PlaceAt
<1>4. CASE StoreUnacknowledged(n, Contact(n), d)
  <2>1. Advances(job[n], d)
    BY <1>1, <1>2, DequeuedAdvances
  <2> HIDE DEF d
  <2> QED BY <1>1, <1>4, <2>1, CallsSetJob DEF Moves
<1>5. ASSUME NEW m, NEW b, NEW accepted \in BOOLEAN, Answered(n, m, b, After(accepted))
      PROVE  Moves(n)
  <2> DEFINE j == After(accepted)
  <2>1. j.phase = d.phase /\ j.queue = d.queue /\ j.keys = d.keys /\ j.queried = d.queried
    <3> HIDE DEF d
    <3> QED BY <1>2 DEF Job
  <2>2. Answered(n, m, b, j)
    BY <1>5
  <2> HIDE DEF j
  <2>3. Advances(job[n], j)
    BY <1>1, <1>2, <2>1, DequeuedAdvances
  <2> QED BY <1>1, <2>2, <2>3, CallsSetJob DEF Moves
<1> QED BY <1>3, <1>4, <1>5

LEMMA EndPlaceMoves ==
  ASSUME IInv, NEW n \in Nodes, EndPlace(n)
  PROVE  Moves(n)
<1> DEFINE i == job[n]
           rest == Tail(i.keys)
           j == [i EXCEPT !.keys = rest]
           queue == <<Head(seeds[n])>>
           direct == [j EXCEPT !.phase = "direct_store", !.queue = queue]
           stored == Idle(j.ops, "stored")
           next == Locate(n, j)
<1>1. TypeOK /\ i \in Job /\ i.phase = "place" /\ i.keys # <<>>
  BY DEF IInv, TypeOK, EndPlace, Through, JobOK
<1>2. \/ j.keys # <<>> /\ Internal(n, next)
      \/ Internal(n, stored) \/ Internal(n, direct)
  BY DEF EndPlace
<1>3. j \in Job /\ j.keys = Tail(i.keys)
  <2>1. rest \in Seq(Hash)
    BY <1>1 DEF Job
  <2> HIDE DEF i, rest
  <2>2. j \in Job /\ j.keys = rest
    BY <1>1, <2>1 DEF Job
  <2> QED BY <2>2 DEF rest
<1> HIDE DEF i, j, rest
<1>4. ASSUME j.keys # <<>> PROVE Advances(i, next)
  <2>1. next.phase = "locate" /\ next.keys = j.keys
    BY <1>1, <1>3, <1>4, LocateJob
  <2> HIDE DEF next
  <2> QED BY <1>1, <1>3, <2>1 DEF Advances
<1>5. Advances(i, direct)
  <2>1. direct.phase = "direct_store"
    <3> HIDE DEF queue
    <3> QED BY <1>3 DEF Job
  <2> HIDE DEF direct
  <2> QED BY <1>1, <2>1 DEF Advances
<1>6. Advances(i, stored)
  BY IdleAdvances
<1> HIDE DEF next, stored, direct
<1> QED BY <1>1, <1>2, <1>4, <1>5, <1>6, CallsSetJob DEF Moves, i

\* No bootstrap, lookup or publish goes back: every step of a node in a job
\* takes a call off its queue, turns to the next phase or routing key, or
\* begins a round with nodes that no round asked, whatever calls fail and
\* nodes leave.  In a finite network this is why JobsEnd holds: no node is
\* asked in two rounds, though it may be twice in one (node.rs, lookup_value,
\* iterative_store, bootstrap).
THEOREM JobsMoveOn == Spec => JobsAdvance
<1> DEFINE Forward(n) ==
             /\ Work(n) => Advances(job[n], job'[n])
             /\ job[n].phase # "idle" => job'[n] = job[n] \/ Advances(job[n], job'[n])
<1>1. ASSUME IInv, NEW n \in Nodes, Work(n) PROVE Moves(n)
  BY <1>1, BootstrapMoves, QueryNodeMoves, EndRoundMoves, AskAllMoves, NothingFoundMoves,
     DirectMoves, LocateNodeMoves, EndLocateMoves, PlaceAtMoves, EndPlaceMoves DEF Work
<1>2. ASSUME IInv, [Next]_vars, NEW n \in Nodes PROVE Forward(n)
  <2>1. Work(n) => Advances(job[n], job'[n])
    BY <1>1, <1>2 DEF Moves
  <2>2. ASSUME job[n].phase # "idle"
        PROVE  job'[n] = job[n] \/ Advances(job[n], job'[n])
    <3>1. ASSUME NEW o \in Nodes, Work(o)
          PROVE  job'[n] = job[n] \/ Advances(job[n], job'[n])
      BY <1>1, <1>2, <3>1 DEF Moves
    <3>2. ASSUME NEW o \in Nodes, NEW j, Internal(o, j), job[o].phase = "idle"
          PROVE  job'[n] = job[n]
      <4>1. n # o /\ TypeOK
        BY <1>2, <2>2, <3>2 DEF IInv
      <4> QED BY <3>2, <4>1, CallsSetJob
    <3>3. ASSUME NEW o \in Nodes, NEW key \in Targets, StartLookup(o, key)
          PROVE  job'[n] = job[n]
      BY <3>2, <3>3 DEF StartLookup
    <3>4. ASSUME NEW o \in Nodes, StartPublish(o)
          PROVE  job'[n] = job[n]
      BY <3>2, <3>4 DEF StartPublish
    <3>5. ASSUME NEW o \in Servers, Depart(o)
          PROVE  job'[n] = job[n]
      BY <3>5 DEF Depart
    <3>6. CASE UNCHANGED vars
      BY <3>6 DEF vars
    <3> QED BY <1>2, <3>1, <3>3, <3>4, <3>5, <3>6 DEF Next
  <2> QED BY <2>1, <2>2
<1>3. IInv /\ [Next]_vars => [\A n \in Nodes : Forward(n)]_vars
  BY <1>2
<1> QED BY <1>3, Invariance, PTL DEF Spec, JobsAdvance

-----------------------------------------------------------------------------
(* Full buckets.                                                            *)

\* A bucket with K entries has the same nodes ever after.
FullBucketsFinal ==
  [][\A n \in Nodes : \A i \in Indexes :
       Len(table[n][i]) = K => NodesOf(table'[n][i]) = NodesOf(table[n][i])]_vars

\* Entries of distinct nodes are as many as their nodes.
LEMMA DistinctCount ==
  ASSUME NEW entries \in Seq(NodeInfo), Distinct(entries)
  PROVE  IsFiniteSet(NodesOf(entries)) /\ Cardinality(NodesOf(entries)) = Len(entries)
<1> DEFINE L == Len(entries)
           T == NodesOf(entries)
           f == [p \in 1..L |-> entries[p].node]
<1>1. L \in Nat
  OBVIOUS
<1>2. \A p \in 1..L : f[p] = entries[p].node /\ entries[p].node \in T
  BY DEF NodesOf
<1>3. f \in [1..L -> T]
  BY <1>2
<1>4. \A m \in T : \E p \in 1..L : f[p] = m
  BY <1>2 DEF NodesOf
<1>5. \A p, q \in 1..L : f[p] = f[q] => p = q
  BY <1>2 DEF Distinct
<1> HIDE DEF f, T
<1>6. f \in Surjection(1..L, T) /\ f \in Injection(1..L, T)
  BY <1>3, <1>4, <1>5 DEF Surjection, Injection, IsInjective
<1>7. IsFiniteSet(1..L) /\ Cardinality(1..L) = L
  BY <1>1, FS_Interval
<1> HIDE DEF L
<1>8. IsFiniteSet(T) /\ Cardinality(T) = L
  BY <1>6, <1>7, FS_Surjection
<1> QED BY <1>8 DEF T, L

\* A table that loses no node keeps the nodes of a full bucket, and takes none in.
LEMMA FullBucketStays ==
  ASSUME NEW local \in Nodes, NEW before \in Tables, NEW after \in Tables,
         WellFormed(before, local), WellFormed(after, local),
         Known(before) \subseteq Known(after),
         NEW i \in Indexes, Len(before[i]) = K
  PROVE  NodesOf(after[i]) = NodesOf(before[i])
<1>1. /\ before[i] \in Seq(NodeInfo) /\ Distinct(before[i])
      /\ after[i] \in Seq(NodeInfo) /\ Distinct(after[i]) /\ Len(after[i]) <= K
  BY DEF Tables, WellFormed, Distinct
<1>2. NodesOf(before[i]) \subseteq NodesOf(after[i])
  <2> SUFFICES ASSUME NEW m \in NodesOf(before[i]) PROVE m \in NodesOf(after[i])
    OBVIOUS
  <2>1. bucket_for(local, m) = i
    BY DEF WellFormed, NodesOf
  <2>2. PICK j \in Indexes : m \in NodesOf(after[j])
    BY DEF Known
  <2>3. bucket_for(local, m) = j
    BY <2>2 DEF WellFormed, NodesOf
  <2> QED BY <2>1, <2>2, <2>3
<1> DEFINE S == NodesOf(before[i])
           T == NodesOf(after[i])
<1>3. /\ IsFiniteSet(S) /\ Cardinality(S) = K
      /\ IsFiniteSet(T) /\ Cardinality(T) = Len(after[i])
  BY <1>1, DistinctCount
<1>4. S \subseteq T
  BY <1>2
<1>5. Len(after[i]) \in Nat /\ K \in Nat
  BY <1>1, TableAssumption
<1> HIDE DEF S, T
<1>6. T = S
  BY <1>1, <1>3, <1>4, <1>5, FS_Subset
<1> QED BY <1>6 DEF S, T

\* Once a bucket is full no request, answer or bootstrap changes which nodes it
\* has: without the challenge of the least recently seen node that the comment
\* in update_routing_table leaves to do, nodes that have departed keep live
\* ones out for ever (node.rs, update_routing_table; routing.rs, add_node).
THEOREM FullBucketAdmitsNobody == Spec => FullBucketsFinal
<1>1. ASSUME IInv, [Next]_vars, NEW n \in Nodes, NEW i \in Indexes, Len(table[n][i]) = K
      PROVE  NodesOf(table'[n][i]) = NodesOf(table[n][i])
  <2>1. /\ table[n] \in Tables /\ table'[n] \in Tables
        /\ WellFormed(table[n], n) /\ WellFormed(table'[n], n)
        /\ Known(table[n]) \subseteq Known(table'[n])
    BY <1>1, NextKeeps DEF Kept, IInv, TypeOK, TablesWellFormed
  <2> QED BY <1>1, <2>1, FullBucketStays
<1>2. IInv /\ [Next]_vars =>
        [\A n \in Nodes : \A i \in Indexes :
           Len(table[n][i]) = K => NodesOf(table'[n][i]) = NodesOf(table[n][i])]_vars
  BY <1>1
<1> QED BY <1>2, Invariance, PTL DEF Spec, FullBucketsFinal
=============================================================================
