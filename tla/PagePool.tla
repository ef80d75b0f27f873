---- MODULE PagePool ----
(***************************************************************************)
(* The page pool (src/render/page_pool.rs): idle tabs and an in-flight     *)
(* count per context key, in two maps with a lock each.  A caller looks    *)
(* its counter up, which gives it a reference, and bumps it afterwards,    *)
(* when the map may have another one.  A tab is a record of its identity,  *)
(* the Chrome context it was opened in and how often it was lent.  Whether *)
(* a tab is older than page_ttl is left open at every check: a tab found   *)
(* too old is dropped there and then, so no later check can contradict it. *)
(***************************************************************************)
EXTENDS Integers, Sequences, FiniteSets

CONSTANTS
    Tasks,      \* the callers
    Keys,       \* context keys: a browser key and a session id
    MaxPages,   \* max_pages_per_context
    MaxUses     \* max_uses_per_page

\* What a caller refers to between two calls, and once its counter is off the map.
NoCounter == <<>>
Detached == <<"detached">>

ASSUME PoolAssumption ==
    /\ MaxPages \in Nat
    /\ MaxUses \in Nat \ {0}
    /\ NoCounter \notin Keys
    /\ Detached \notin Keys

VARIABLES
    idle,       \* idle[k]: the tabs a render of k may take, oldest first
    inFlight,   \* inFlight[k]: the counter k has in the map, 0 for none; the
                \* program sees it modulo 2^64
    arc         \* arc[t]: the counter t looked up and has yet to bump

poolVars == <<idle, inFlight, arc>>

Page == [id : Nat, ctx : Nat, uses : 0 .. MaxUses]
NoPage == [id |-> 0, ctx |-> 0, uses |-> 0]

PoolTypeOK ==
    /\ idle \in [Keys -> Seq(Page)]
    /\ inFlight \in [Keys -> Int]
    /\ arc \in [Tasks -> Keys \cup {NoCounter, Detached}]

PoolInit ==
    /\ idle = [k \in Keys |-> <<>>]
    /\ inFlight = [k \in Keys |-> 0]
    /\ arc = [t \in Tasks |-> NoCounter]

WornOut(p) == p.uses >= MaxUses

Lent(p) == [p EXCEPT !.uses = @ + 1]

\* counters_for: the reference is cloned and the lock released,
CountersFor(t, k) ==
    /\ arc[t] = NoCounter
    /\ arc' = [arc EXCEPT ![t] = k]
    /\ UNCHANGED <<idle, inFlight>>

\* and fetch_add or fetch_sub follow; on a counter that has left the map, in vain.
Bump(t, d) ==
    /\ arc[t] # NoCounter
    /\ inFlight' = [k \in Keys |-> IF k = arc[t] THEN inFlight[k] + d ELSE inFlight[k]]
    /\ arc' = [arc EXCEPT ![t] = NoCounter]

\* Mutant of TryAcquire: the tab is looked at and stays in the queue.
PeekIdle(t, k, n) ==
    /\ n \in 1 .. Len(idle[k])
    /\ ~WornOut(idle[k][n])
    /\ idle' = [idle EXCEPT ![k] = SubSeq(@, n, Len(@))]
    /\ Bump(t, 1)

\* try_acquire with a tab to lend: it is the n-th, the ones before it were
\* worn out or too old and are closed.
TryAcquire(t, k, n) ==
    /\ n \in 1 .. Len(idle[k])
    /\ ~WornOut(idle[k][n])
    /\ idle' = [idle EXCEPT ![k] = SubSeq(@, n + 1, Len(@))]
    /\ Bump(t, 1)

\* try_acquire that finds nothing to lend.
AcquireNone(k) ==
    /\ idle' = [idle EXCEPT ![k] = <<>>]
    /\ UNCHANGED <<inFlight, arc>>

\* The end of register_fresh.
CountFresh(t) ==
    /\ Bump(t, 1)
    /\ UNCHANGED idle

\* Mutant of Uncount: the caller forgets release_dirty_key.
Forgotten(t) ==
    /\ arc[t] # NoCounter
    /\ arc' = [arc EXCEPT ![t] = NoCounter]
    /\ UNCHANGED <<idle, inFlight>>

\* The end of release_dirty_key, and the decrement that release begins with.
Uncount(t) ==
    /\ Bump(t, -1)
    /\ UNCHANGED idle

\* The rest of release, for a tab that is neither worn out nor too old.
Stash(k, p) ==
    /\ idle' = [idle EXCEPT ![k] = IF Len(@) < MaxPages THEN Append(@, p) ELSE @]
    /\ UNCHANGED <<inFlight, arc>>

\* drop_context: the idle tabs go,
DropIdle(k) ==
    /\ idle' = [idle EXCEPT ![k] = <<>>]
    /\ UNCHANGED <<inFlight, arc>>

\* and then the counter; the next lookup makes a new one.
RemoveCounter(k) ==
    /\ inFlight' = [inFlight EXCEPT ![k] = 0]
    /\ arc' = [t \in Tasks |-> IF arc[t] = k THEN Detached ELSE arc[t]]
    /\ UNCHANGED idle
====
