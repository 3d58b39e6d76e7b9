---------------------------- MODULE RoutingTable ----------------------------
(***************************************************************************)
(* The Kademlia routing table of a node, as operators on its k-buckets.    *)
(* An id or a routing key is a function from bit positions, the most       *)
(* significant first, to bits.  A table is a function from bucket indexes  *)
(* to sequences of NodeInfo, the least recently seen entry first.          *)
(*                                                                         *)
(* last_seen is written and never read: it is left out.  resolve_challenge *)
(* and remove_node have no caller outside tests: when a bucket is full,    *)
(* every caller of add_node drops the candidate.                           *)
(***************************************************************************)
EXTENDS Integers, FiniteSets, SequencesExt

CONSTANTS
  Nodes,          \* identities
  Addrs,          \* network addresses
  node_id,        \* the id of each identity
  NUM_BUCKETS,    \* bits of an id, and buckets of a table
  K               \* entries of a bucket

Hash == [1..NUM_BUCKETS -> {0, 1}]

ASSUME TableAssumption ==
  /\ NUM_BUCKETS \in Nat \ {0}
  /\ K \in Nat \ {0}
  /\ node_id \in [Nodes -> Hash]
  /\ \A m, n \in Nodes : node_id[m] = node_id[n] => m = n

NodeInfo == [node : Nodes, addr : Addrs]

Indexes == 0..(NUM_BUCKETS - 1)

Tables == [Indexes -> Seq(NodeInfo)]

EmptyTable == [i \in Indexes |-> <<>>]

-----------------------------------------------------------------------------
(* Distances.                                                               *)

xor_distance(a, b) ==
  [i \in 1..NUM_BUCKETS |-> IF a[i] = b[i] THEN 0 ELSE 1]

leading_zeros(distance) ==
  CHOOSE z \in 0..NUM_BUCKETS :
    /\ \A i \in 1..z : distance[i] = 0
    /\ z < NUM_BUCKETS => distance[z + 1] = 1

\* The most significant bit in which two ids differ numbers the bucket;
\* equal ids have none.
NoBucket == -1

bucket_index(distance) ==
  IF leading_zeros(distance) >= NUM_BUCKETS
    THEN NoBucket
    ELSE NUM_BUCKETS - 1 - leading_zeros(distance)

\* distance_cmp: a is nearer to target than b.
Nearer(target, a, b) ==
  LET da == xor_distance(target, a)
      db == xor_distance(target, b)
  IN \E i \in 1..NUM_BUCKETS :
       da[i] < db[i] /\ \A j \in 1..(i - 1) : da[j] = db[j]

bucket_for(local, n) == bucket_index(xor_distance(node_id[local], node_id[n]))

-----------------------------------------------------------------------------
(* Changing a table.                                                        *)

Positions(entries, n) == {p \in 1..Len(entries) : entries[p].node = n}

First(S) == CHOOSE p \in S : \A q \in S : p <= q

\* Mutation: a full bucket takes one more.
Seen_Overfull(entries, info) ==
  LET known == Positions(entries, info.node)
  IN CASE known # {} -> Append(RemoveAt(entries, First(known)), info)
       [] known = {} /\ Len(entries) <= K -> Append(entries, info)
       [] OTHER -> entries

\* Mutation: a full bucket gives up its oldest entry unchallenged.
Seen_EvictsOldest(entries, info) ==
  LET known == Positions(entries, info.node)
  IN CASE known # {} -> Append(RemoveAt(entries, First(known)), info)
       [] known = {} /\ Len(entries) < K -> Append(entries, info)
       [] OTHER -> Append(Tail(entries), info)

\* A known node moves to the end with the address it has now; an unknown one
\* is added while there is room.
Seen(entries, info) ==
  LET known == Positions(entries, info.node)
  IN CASE known # {} -> Append(RemoveAt(entries, First(known)), info)
       [] known = {} /\ Len(entries) < K -> Append(entries, info)
       [] OTHER -> entries

add_node(table, local, info) ==
  LET i == bucket_for(local, info.node)
  IN IF i = NoBucket THEN table ELSE [table EXCEPT ![i] = Seen(@, info)]

\* The loops over the nodes of an answer.
AddAll(table, local, infos) ==
  LET added[i \in 0..Len(infos)] ==
        IF i = 0 THEN table ELSE add_node(added[i - 1], local, infos[i])
  IN added[Len(infos)]

-----------------------------------------------------------------------------
(* Reading a table.                                                         *)

all_nodes(table) == FlattenSeq([i \in 1..NUM_BUCKETS |-> table[i - 1]])

\* A stable sort (sort_by): the entry at p goes to the place given by the
\* number of entries not after it.
ByDistance(target, infos) ==
  LET id(p) == node_id[infos[p].node]
      Precedes(p, q) ==
        Nearer(target, id(p), id(q)) \/ (p <= q /\ ~Nearer(target, id(q), id(p)))
      place(q) == Cardinality({p \in 1..Len(infos) : Precedes(p, q)})
  IN [r \in 1..Len(infos) |-> infos[CHOOSE q \in 1..Len(infos) : place(q) = r]]

Take(s, count) == SubSeq(s, 1, IF count < Len(s) THEN count ELSE Len(s))

closest_nodes(table, target, count) ==
  Take(ByDistance(target, all_nodes(table)), count)

NodesOf(infos) == {infos[p].node : p \in 1..Len(infos)}

Known(table) == UNION {NodesOf(table[i]) : i \in Indexes}

\* A table of local: every entry in the bucket of its distance, no bucket over
\* K, no node twice.  The local node has no bucket, and so is in none.
WellFormed(table, local) ==
  \A i \in Indexes :
    /\ Len(table[i]) <= K
    /\ \A p \in 1..Len(table[i]) : bucket_for(local, table[i][p].node) = i
    /\ \A p, q \in 1..Len(table[i]) :
         table[i][p].node = table[i][q].node => p = q
=============================================================================
