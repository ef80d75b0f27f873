---- MODULE RenderBudgets ----
(***************************************************************************)
(* The render scheduler's in-flight budgets (src/scheduler.rs).            *)
(* try_acquire is a walk over four shared atomic counters: one load and    *)
(* compare-and-swap loop per dimension, an undo of the counters already    *)
(* bumped when one of them is full, and a guard whose Drop decrements all  *)
(* four.  Every atomic access is a step of its own, so calls of different  *)
(* worker threads interleave inside the walk.  The rejection tallies,      *)
(* which only feed metrics, are left out.                                  *)
(***************************************************************************)
EXTENDS Integers, FiniteSets

CONSTANTS Tasks, Keys, Requests, Limit, NoRequest

Dims == 1..4

ASSUME BudgetAssumption ==
    /\ IsFiniteSet(Tasks)
    /\ Requests \subseteq [Dims -> Keys]
    /\ Limit \in [Dims -> Nat]
    /\ NoRequest \notin Requests

VARIABLES
    count,  \* count[d][k]: the AtomicUsize of key k in dimension d
    pc,     \* where each task is in try_acquire or in Drop
    req,    \* the request of the current call
    lo, hi, \* the task's bumped and not yet undone dimensions are lo..hi
    cur     \* try_bump's local copy of the counter, Unread before the load

vars == <<count, pc, req, lo, hi, cur>>

Unread == -1

TypeOK ==
    /\ count \in [Dims -> [Keys -> Int]]
    /\ pc \in [Tasks -> {"idle", "bump", "held", "release"}]
    /\ req \in [Tasks -> Requests \cup {NoRequest}]
    /\ lo \in [Tasks -> 1..5]
    /\ hi \in [Tasks -> 0..4]
    /\ cur \in [Tasks -> Int]

Init ==
    /\ count = [d \in Dims |-> [k \in Keys |-> 0]]
    /\ pc = [t \in Tasks |-> "idle"]
    /\ req = [t \in Tasks |-> NoRequest]
    /\ lo = [t \in Tasks |-> 1]
    /\ hi = [t \in Tasks |-> 0]
    /\ cur = [t \in Tasks |-> Unread]

\* The counter a task in try_bump works on, and that dimension's limit.
Target(t) == hi[t] + 1
Counter(t) == count[Target(t)][req[t][Target(t)]]
Max(t) == Limit[Target(t)]

TryAcquire(t, r) ==
    /\ pc[t] = "idle"
    /\ pc' = [pc EXCEPT ![t] = "bump"]
    /\ req' = [req EXCEPT ![t] = r]
    /\ lo' = [lo EXCEPT ![t] = 1]
    /\ hi' = [hi EXCEPT ![t] = 0]
    /\ cur' = [cur EXCEPT ![t] = Unread]
    /\ UNCHANGED count

Load(t) ==
    /\ pc[t] = "bump"
    /\ cur[t] = Unread
    /\ cur' = [cur EXCEPT ![t] = Counter(t)]
    /\ UNCHANGED <<count, pc, req, lo, hi>>

\* Mutants of CompareExchange: the increment does not depend on the value
\* loaded (an add after the check), or a stale value is stored.
BumpStale(t, stored) ==
    /\ pc[t] = "bump"
    /\ cur[t] # Unread
    /\ cur[t] < Max(t)
    /\ count' = [count EXCEPT ![Target(t)][req[t][Target(t)]] = stored]
    /\ hi' = [hi EXCEPT ![t] = Target(t)]
    /\ pc' = [pc EXCEPT ![t] = IF Target(t) = 4 THEN "held" ELSE "bump"]
    /\ cur' = [cur EXCEPT ![t] = Unread]
    /\ UNCHANGED <<req, lo>>

CheckThenAdd(t) == BumpStale(t, Counter(t) + 1)
LoadThenStore(t) == BumpStale(t, cur[t] + 1)

CompareExchange(t) ==
    /\ pc[t] = "bump"
    /\ cur[t] # Unread
    /\ cur[t] < Max(t)
    /\ IF Counter(t) = cur[t]
         THEN /\ count' = [count EXCEPT ![Target(t)][req[t][Target(t)]] = cur[t] + 1]
              /\ hi' = [hi EXCEPT ![t] = Target(t)]
              /\ pc' = [pc EXCEPT ![t] = IF Target(t) = 4 THEN "held" ELSE "bump"]
              /\ cur' = [cur EXCEPT ![t] = Unread]
         ELSE /\ cur' = [cur EXCEPT ![t] = Counter(t)]
              /\ UNCHANGED <<count, hi, pc>>
    /\ UNCHANGED <<req, lo>>

Reject(t) ==
    /\ pc[t] = "bump"
    /\ cur[t] # Unread
    /\ cur[t] >= Max(t)
    /\ pc' = [pc EXCEPT ![t] = IF hi[t] = 0 THEN "idle" ELSE "release"]
    /\ UNCHANGED <<count, req, lo, hi, cur>>

\* The job ends, fails or is cancelled: its guard goes out of scope.
BeginDrop(t) ==
    /\ pc[t] = "held"
    /\ pc' = [pc EXCEPT ![t] = "release"]
    /\ UNCHANGED <<count, req, lo, hi, cur>>

\* One fetch_sub of undo or of the guard's Drop.
FetchSub(t) ==
    /\ pc[t] = "release"
    /\ count' = [count EXCEPT ![lo[t]][req[t][lo[t]]] = @ - 1]
    /\ lo' = [lo EXCEPT ![t] = @ + 1]
    /\ pc' = [pc EXCEPT ![t] = IF lo[t] = hi[t] THEN "idle" ELSE "release"]
    /\ UNCHANGED <<req, hi, cur>>

Step(t) ==
    \/ \E r \in Requests : TryAcquire(t, r)
    \/ Load(t)
    \/ CompareExchange(t)
    \/ Reject(t)
    \/ BeginDrop(t)
    \/ FetchSub(t)

Next == \E t \in Tasks : Step(t)

Spec == Init /\ [][Next]_vars

-----------------------------------------------------------------------------
\* Tasks whose walk has bumped (d, k) and not yet given it back.
Bumped(t) == IF pc[t] = "idle" THEN {} ELSE lo[t]..hi[t]
Contributors(d, k) == {t \in Tasks : d \in Bumped(t) /\ req[t][d] = k}

\* No counter ever exceeds its limit, even between two atomic accesses of
\* concurrent walks: the caps of BudgetLimits hold at every instant.
WithinLimits == \A d \in Dims, k \in Keys : count[d][k] <= Limit[d]

\* Each counter is exactly the number of walks that bumped it and have not
\* undone or dropped it: no slot leaks on a rejection and none is given
\* back twice (a second fetch_sub would wrap the usize).
CountersExact ==
    \A d \in Dims, k \in Keys : count[d][k] = Cardinality(Contributors(d, k))

\* The walk is indistinguishable from the atomic grant it promises.
Atomic == INSTANCE AtomicBudgets WITH
    held <- [t \in Tasks |-> IF pc[t] = "held" THEN req[t] ELSE NoRequest]
GrantsAreAtomic == Atomic!Spec
====
