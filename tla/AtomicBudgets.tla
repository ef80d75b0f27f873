---- MODULE AtomicBudgets ----
(***************************************************************************)
(* What RenderBudgets (src/scheduler.rs) promises its callers, as one      *)
(* atomic step per call: a guard is granted only when every dimension of   *)
(* the request has a free slot, and dropping the guard frees all of them.  *)
(***************************************************************************)
EXTENDS Integers, FiniteSets

CONSTANTS
    Tasks,      \* render jobs that ask for a budget
    Keys,       \* host, origin, proxy and session names
    Requests,   \* the (host, origin, proxy, session) tuples jobs ask for
    Limit,      \* BudgetLimits: slots per key, by dimension
    NoRequest   \* held by a task without a guard

\* 1 = host, 2 = origin, 3 = proxy, 4 = session: the order of try_acquire.
Dims == 1..4

VARIABLE held   \* held[t]: the request whose guard task t keeps, or NoRequest

vars == held

Holders(d, k) == {t \in Tasks : held[t] # NoRequest /\ held[t][d] = k}

Init == held = [t \in Tasks |-> NoRequest]

Grant(t, r) ==
    /\ held[t] = NoRequest
    /\ \A d \in Dims : Cardinality(Holders(d, r[d])) < Limit[d]
    /\ held' = [held EXCEPT ![t] = r]

DropGuard(t) ==
    /\ held[t] # NoRequest
    /\ held' = [held EXCEPT ![t] = NoRequest]

Next == \E t \in Tasks : DropGuard(t) \/ \E r \in Requests : Grant(t, r)

Spec == Init /\ [][Next]_vars
====
