----------------------- MODULE StoreRateLimiterProofs -----------------------
(***************************************************************************)
(* Facts about check_and_record that the proofs of both stores cite.       *)
(***************************************************************************)
EXTENDS StoreRateLimiter, FiniteSetTheorems, TLAPS

\* The multiset of every publisher is finite and never above the limit: what
\* the type of `timestamps` needs, since Push counts entries.
RateInv ==
  \A p \in Identities :
    IsFiniteSet(timestamps[p]) /\ Cardinality(timestamps[p]) <= RATE_LIMIT

\* Pruning keeps a set of entries finite and no larger.
LEMMA RecentBounded ==
  ASSUME NEW p \in Identities, IsFiniteSet(timestamps[p])
  PROVE  /\ IsFiniteSet(Recent(p))
         /\ Cardinality(Recent(p)) \in Nat
         /\ Cardinality(Recent(p)) <= Cardinality(timestamps[p])
<1>1. Recent(p) \subseteq timestamps[p]
  BY DEF Recent
<1> QED
  BY <1>1, FS_Subset, FS_CardinalityType

\* One more entry makes a set of entries at most one larger.
LEMMA AddOne ==
  ASSUME NEW S, IsFiniteSet(S), NEW x
  PROVE  /\ IsFiniteSet(S \cup {x})
         /\ \/ Cardinality(S \cup {x}) = Cardinality(S)
            \/ Cardinality(S \cup {x}) = Cardinality(S) + 1
<1>1. CASE x \in S
  <2>1. S \cup {x} = S
    BY <1>1
  <2> QED
    BY <2>1
<1>2. CASE x \notin S
  BY <1>2, FS_AddElement
<1> QED
  BY <1>1, <1>2

\* check_and_record keeps the types and the bound.
LEMMA CheckAndRecord ==
  ASSUME NEW p \in Identities, check_and_record(p), RateInv, now \in Nat,
         timestamps \in Recorded
  PROVE  timestamps' \in Recorded /\ RateInv'
<1> DEFINE R == Recent(p)
           n == Cardinality({e \in R : e[1] = now})
           T == IF WithinLimit(p) THEN Push(R, now) ELSE R
<1>1. IsFiniteSet(R) /\ Cardinality(R) \in Nat /\ Cardinality(R) <= RATE_LIMIT
  <2>1. IsFiniteSet(timestamps[p]) /\ Cardinality(timestamps[p]) <= RATE_LIMIT
    BY DEF RateInv
  <2>2. Cardinality(timestamps[p]) \in Nat
    BY <2>1, FS_CardinalityType
  <2> QED
    BY <2>1, <2>2, RecentBounded, RateAssumption
<1>2. R \in SUBSET (Nat \X Nat)
  BY DEF Recent, Recorded
<1>3. n \in Nat
  <2>1. {e \in R : e[1] = now} \subseteq R
    OBVIOUS
  <2> QED
    BY <2>1, <1>1, FS_Subset, FS_CardinalityType
<1>4. Push(R, now) = R \cup {<<now, n>>}
  BY DEF Push
<1>5. WithinLimit(p) => Cardinality(R) < RATE_LIMIT
  BY DEF WithinLimit
<1> HIDE DEF R, n
<1>6. Push(R, now) \in SUBSET (Nat \X Nat)
  BY <1>2, <1>3, <1>4
<1>7. /\ IsFiniteSet(Push(R, now))
      /\ WithinLimit(p) => Cardinality(Push(R, now)) <= RATE_LIMIT
  <2>1. /\ IsFiniteSet(Push(R, now))
        /\ \/ Cardinality(Push(R, now)) = Cardinality(R)
           \/ Cardinality(Push(R, now)) = Cardinality(R) + 1
    BY <1>4, <1>1, AddOne
  <2> QED
    BY <2>1, <1>5, <1>1, RateAssumption
<1>8. timestamps' = [timestamps EXCEPT ![p] = T]
  BY DEF check_and_record, R
<1>9. T \in SUBSET (Nat \X Nat) /\ IsFiniteSet(T) /\ Cardinality(T) <= RATE_LIMIT
  BY <1>1, <1>2, <1>6, <1>7
<1> HIDE DEF T
<1>10. timestamps' \in Recorded
  BY <1>8, <1>9 DEF Recorded
<1>11. RateInv'
  BY <1>8, <1>9 DEF RateInv
<1> QED
  BY <1>10, <1>11

\* The invariant bounds what a window can hold.
LEMMA RateInvBounds ==
  ASSUME RateInv
  PROVE  RateWindowBounded
<1> SUFFICES ASSUME NEW p \in Identities
             PROVE  Cardinality(Recent(p)) <= RATE_LIMIT
  BY DEF RateWindowBounded
<1>1. IsFiniteSet(timestamps[p]) /\ Cardinality(timestamps[p]) <= RATE_LIMIT
  BY DEF RateInv
<1>2. Cardinality(timestamps[p]) \in Nat
  BY <1>1, FS_CardinalityType
<1> QED
  BY <1>1, <1>2, RecentBounded, RateAssumption

\* Expiry is computed from the smaller of the timestamp and the clock, so it
\* seems to depend on when it is asked; for every ttl that validate lets through
\* it does not: a descriptor expires at timestamp + ttl, stamped ahead or not.
LEMMA ExpiryInstant ==
  ASSUME NEW d \in Descriptors, NEW t \in Nat, MIN_TTL <= d.ttl
  PROVE  Expired(d, t) <=> d.timestamp + d.ttl <= t
<1>1. d.timestamp \in Nat /\ d.ttl \in Nat
  BY DescriptorsAssumption DEF Descriptor
<1>2. d.ttl > 0
  BY <1>1, LimitsAssumption
<1> QED
  BY <1>1, <1>2 DEF Expired, EffectiveStart
=============================================================================
