-------------------------- MODULE StoreRateLimiter --------------------------
(***************************************************************************)
(* The sliding-window limiter both descriptor stores consult on a STORE:   *)
(* RateLimiter of mesh-dht and check_rate_limit of the hub's RedbStorage.  *)
(*                                                                         *)
(* The vector of instants of a publisher is a set of entries <<t, n>>, the *)
(* n-th STORE recorded at instant t: a multiset of instants.               *)
(***************************************************************************)
EXTENDS Descriptors

CONSTANTS
  RATE_LIMIT,         \* RATE_LIMIT_PER_MINUTE
  RATE_LIMIT_WINDOW,  \* RATE_LIMIT_WINDOW_MICROS
  MaxTime             \* bound on the clock

ASSUME RateAssumption ==
  RATE_LIMIT \in Nat /\ RATE_LIMIT_WINDOW \in Nat /\ MaxTime \in Nat

VARIABLES
  now,          \* the wall clock, in microseconds since the epoch
  timestamps    \* publisher -> the instants of its recorded STOREs

Recorded == [Identities -> SUBSET (Nat \X Nat)]

\* The entries that retain keeps.
Recent(p) == {e \in timestamps[p] : now - e[1] < RATE_LIMIT_WINDOW}

\* Mutation: the limit is compared with > instead of >=.
WithinLimit_OffByOne(p) == Cardinality(Recent(p)) <= RATE_LIMIT

WithinLimit(p) == Cardinality(Recent(p)) < RATE_LIMIT

\* Mutation: the start of the window is recorded, which underflows.
Push_WindowStart(entries, t) ==
  entries \cup {<<t - RATE_LIMIT_WINDOW, Cardinality(entries)>>}

Push(entries, t) ==
  entries \cup {<<t, Cardinality({e \in entries : e[1] = t})>>}

check_and_record(p) ==
  timestamps' = [timestamps EXCEPT ![p] =
                   IF WithinLimit(p) THEN Push(Recent(p), now) ELSE Recent(p)]

\* A publisher never has more than RATE_LIMIT STOREs recorded within one
\* window, whether they were stored or rejected later on.
RateWindowBounded ==
  \A p \in Identities : Cardinality(Recent(p)) <= RATE_LIMIT
=============================================================================
