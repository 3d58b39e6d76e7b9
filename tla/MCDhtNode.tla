----------------------------- MODULE MCDhtNode -----------------------------
(***************************************************************************)
(* Ids of three bits.  The clients share the far half of the id space of   *)
(* the first server with the second server, which overflows its bucket.    *)
(***************************************************************************)
EXTENDS DhtNode

CONSTANTS s1, s2, s3, c1, c2, a1, a2, a3, nowhere

Bits(x, y, z) == <<x, y, z>>

Smaller == {s1, s2, c1}
SmallerServers == {s1, s2}

AllAddrs == {a1, a2, a3, nowhere}

Ids == s1 :> Bits(0, 0, 0) @@ s2 :> Bits(1, 0, 0) @@ s3 :> Bits(1, 0, 1)
       @@ c1 :> Bits(1, 1, 0) @@ c2 :> Bits(1, 1, 1)

SomeIds == [n \in Nodes |-> Ids[n]]

Listens == [m \in Servers |-> (s1 :> a1 @@ s2 :> a2 @@ s3 :> a3)[m]]

\* Servers give the address they listen at, clients one where nobody does.
OwnAddrs == [n \in Nodes |-> IF n \in Servers THEN Listens[n] ELSE nowhere]

\* A server that listens at the wildcard address gives that.
WildcardAddrs == [n \in Nodes |-> nowhere]

\* The first server is the seed of the others, but the last client starts at
\* the second.
Seeds ==
  [n \in Nodes |-> CASE n = s1 -> <<>> [] n = c2 -> <<a2>> [] OTHER -> <<a1>>]

TwoKeys == <<Bits(0, 1, 1), Bits(1, 0, 0)>>
OneTarget == {Bits(0, 1, 1)}
Everyone == {s1, s2, c1, c2}
Publisher == {c1}
Seeker == {c2}
=============================================================================
