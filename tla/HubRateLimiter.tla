--------------------------- MODULE HubRateLimiter ---------------------------
(***************************************************************************)
(* HubRateLimiter: the sliding window per identity that the hub's hook     *)
(* consults on a STORE.  The windows per IP and the other operations have  *)
(* no caller, so their maps stay empty.                                    *)
(*                                                                         *)
(* The deque of an identity is a set of entries <<t, n>>, the n-th STORE   *)
(* recorded at instant t; an identity without entries has none in the map. *)
(* Instants are monotonic, so popping old entries from the front removes   *)
(* every old entry.                                                        *)
(***************************************************************************)
EXTENDS Integers, FiniteSets

CONSTANTS
  Identities,
  STORE_LIMIT,     \* identity_limits[Store]
  WINDOW           \* window_secs

ASSUME RateLimitConfig == STORE_LIMIT \in Nat \ {0} /\ WINDOW \in Nat

VARIABLES
  now,                \* the clock
  identity_windows,   \* identity -> the instants recorded for it
  passed              \* history: the instants of the last WINDOW at which the
                      \* limiter let a STORE of the identity pass

Windows == [Identities -> SUBSET (Nat \X Nat)]

NoWindows == [p \in Identities |-> {}]

\* The entries that are at most so old.
Younger(entries, age) == {e \in entries : now - e[1] <= age}

\* Mutation: the instant at which the entry leaves the window is recorded.
Push_Deadline(entries) ==
  entries \cup {<<now - WINDOW - 1, Cardinality({e \in entries : e[1] = now})>>}

Push(entries) ==
  entries \cup {<<now, Cardinality({e \in entries : e[1] = now})>>}

WithinLimit(p) == Cardinality(Younger(identity_windows[p], WINDOW)) < STORE_LIMIT

\* check_identity returns Ok.
CheckPasses(p) ==
  /\ WithinLimit(p)
  /\ identity_windows' = [identity_windows EXCEPT ![p] = Push(Younger(@, WINDOW))]
  /\ passed' = [passed EXCEPT ![p] = Push(@)]

\* Mutation: a refused attempt is recorded.
CheckRefuses_Records(p) ==
  /\ ~WithinLimit(p)
  /\ identity_windows' = [identity_windows EXCEPT ![p] = Push(Younger(@, WINDOW))]
  /\ UNCHANGED passed

\* check_identity returns Err.
CheckRefuses(p) ==
  /\ ~WithinLimit(p)
  /\ identity_windows' = [identity_windows EXCEPT ![p] = Younger(@, WINDOW)]
  /\ UNCHANGED passed

\* The cleanup task.
cleanup ==
  /\ identity_windows' =
       [p \in Identities |-> Younger(identity_windows[p], 2 * WINDOW)]
  /\ UNCHANGED passed

\* The history forgets what has left the window.
Forget ==
  passed' = [p \in Identities |-> {e \in passed[p] : now' - e[1] <= WINDOW}]

\* What counts against an identity is exactly what passed within the last
\* window, whatever was refused, cleaned up or pruned in between, and it is
\* never more than the limit.
WindowExact ==
  \A p \in Identities :
    /\ Younger(identity_windows[p], WINDOW) = passed[p]
    /\ Cardinality(passed[p]) <= STORE_LIMIT
=============================================================================
