-------------------------- MODULE DescriptorSlots --------------------------
(***************************************************************************)
(* What a descriptor store promises its publishers.  A slot (publisher,    *)
(* schema, topic) holds at most one descriptor.  A request of a publisher  *)
(* touches slots of that publisher only; it may empty them, or fill them   *)
(* with a descriptor that is live and no older than the one it replaces.   *)
(* Eviction empties slots whose descriptor has expired, and nothing else.  *)
(***************************************************************************)
EXTENDS Descriptors

CONSTANT Vacant

VARIABLES
  slot,   \* DedupKey -> descriptor or Vacant
  clock

svars == <<slot, clock>>

Init ==
  /\ slot = [s \in DedupKeys |-> Vacant]
  /\ clock = 0

\* The change of slot s is one that a request of its publisher may cause.
Written(s) ==
  \/ slot'[s] = Vacant
  \/ /\ slot'[s] \in Descriptors
     /\ DedupKey(slot'[s]) = s
     /\ ~Expired(slot'[s], clock)
     /\ slot[s] # Vacant => slot[s].sequence <= slot'[s].sequence

Request(p) ==
  /\ \A s \in DedupKeys : slot'[s] # slot[s] => s[1] = p /\ Written(s)
  /\ UNCHANGED clock

Evict ==
  /\ \A s \in DedupKeys :
       slot'[s] # slot[s] => slot'[s] = Vacant /\ Expired(slot[s], clock)
  /\ UNCHANGED clock

Pass ==
  /\ clock' > clock
  /\ UNCHANGED slot

Next ==
  \/ \E p \in Identities : Request(p)
  \/ Evict
  \/ Pass

Spec == Init /\ [][Next]_svars
=============================================================================
