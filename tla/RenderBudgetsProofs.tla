---- MODULE RenderBudgetsProofs ----
(***************************************************************************)
(* Proofs about RenderBudgets for every set of tasks, keys, requests and   *)
(* limits.  The inductive invariant adds to the two safety invariants      *)
(* where a task's bumped interval lo..hi stands at each point of the walk. *)
(***************************************************************************)
EXTENDS RenderBudgets, FiniteSetTheorems, TLAPS

\* The interval of bumped dimensions agrees with the control point.
WalkInv ==
    \A t \in Tasks :
        /\ pc[t] # "idle" => req[t] \in Requests
        /\ pc[t] = "bump" => lo[t] = 1 /\ hi[t] \in 0..3
        /\ pc[t] = "held" => lo[t] = 1 /\ hi[t] = 4
        /\ pc[t] = "release" => lo[t] <= hi[t]

IInv == TypeOK /\ WalkInv /\ CountersExact /\ WithinLimits

\* One task joining or leaving a set of contributors moves its size by one.
LEMMA SizeMoves ==
    ASSUME NEW S \in SUBSET Tasks, NEW t \in Tasks
    PROVE  /\ IsFiniteSet(S)
           /\ Cardinality(S) \in Nat
           /\ t \notin S => Cardinality(S \cup {t}) = Cardinality(S) + 1
           /\ t \in S => Cardinality(S \ {t}) = Cardinality(S) - 1
  <1>1. IsFiniteSet(S)
    BY FS_Subset, BudgetAssumption
  <1>2. Cardinality(S) \in Nat
    BY <1>1, FS_CardinalityType
  <1>3. t \notin S => Cardinality(S \cup {t}) = Cardinality(S) + 1
    BY <1>1, FS_AddElement
  <1>4. t \in S => Cardinality(S \ {t}) = Cardinality(S) - 1
    BY <1>1, FS_RemoveElement
  <1> QED
    BY <1>1, <1>2, <1>3, <1>4

\* A request names one key per dimension.
LEMMA RequestKeys ==
    ASSUME NEW r \in Requests, NEW d \in Dims
    PROVE  r[d] \in Keys /\ Limit[d] \in Nat
  BY BudgetAssumption

LEMMA InitIInv == Init => IInv
  <1> SUFFICES ASSUME Init PROVE IInv
    OBVIOUS
  <1>1. TypeOK /\ WalkInv
    BY DEF Init, TypeOK, WalkInv, Dims, Unread
  <1>2. \A d \in Dims, k \in Keys : Contributors(d, k) = {}
    BY DEF Init, Contributors, Bumped
  <1>3. CountersExact
    BY <1>2, FS_EmptySet DEF Init, CountersExact
  <1>4. WithinLimits
    BY BudgetAssumption DEF Init, WithinLimits
  <1> QED
    BY <1>1, <1>3, <1>4 DEF IInv

\* Type and control-point invariants, one step per action.
LEMMA TypeStep == IInv /\ [Next]_vars => TypeOK' /\ WalkInv'
  <1> SUFFICES ASSUME IInv, [Next]_vars PROVE TypeOK' /\ WalkInv'
    OBVIOUS
  <1> USE DEF IInv, TypeOK, WalkInv, Unread
  <1>1. ASSUME NEW t \in Tasks, NEW r \in Requests, TryAcquire(t, r)
        PROVE  TypeOK' /\ WalkInv'
    BY <1>1 DEF TryAcquire
  <1>2. ASSUME NEW t \in Tasks, Load(t)
        PROVE  TypeOK' /\ WalkInv'
    <2>1. Target(t) \in Dims /\ req[t][Target(t)] \in Keys
      BY <1>2, RequestKeys DEF Load, Target, Dims
    <2>2. Counter(t) \in Int
      BY <2>1 DEF Counter
    <2> QED
      BY <1>2, <2>2 DEF Load
  <1>3. ASSUME NEW t \in Tasks, CompareExchange(t)
        PROVE  TypeOK' /\ WalkInv'
    <2>1. Target(t) \in Dims /\ req[t][Target(t)] \in Keys
      BY <1>3, RequestKeys DEF CompareExchange, Target, Dims
    <2>2. Counter(t) \in Int
      BY <2>1 DEF Counter
    <2>3. CASE Counter(t) = cur[t]
      <3>1. Target(t) = hi[t] + 1 /\ Target(t) \in 1..4
        BY <2>1 DEF Target, Dims
      <3>2. count' \in [Dims -> [Keys -> Int]]
        BY <1>3, <2>1, <2>3 DEF CompareExchange
      <3>3. /\ hi' = [hi EXCEPT ![t] = hi[t] + 1]
            /\ pc' = [pc EXCEPT ![t] = IF hi[t] + 1 = 4 THEN "held" ELSE "bump"]
            /\ cur' = [cur EXCEPT ![t] = -1]
            /\ lo' = lo /\ req' = req /\ pc[t] = "bump"
        BY <1>3, <2>3, <3>1 DEF CompareExchange
      <3>4. hi[t] \in 0..3 /\ lo[t] = 1
        BY <3>3
      <3> QED
        BY <3>2, <3>3, <3>4
    <2>4. CASE Counter(t) # cur[t]
      BY <1>3, <2>2, <2>4 DEF CompareExchange
    <2> QED
      BY <2>3, <2>4
  <1>4. ASSUME NEW t \in Tasks, Reject(t)
        PROVE  TypeOK' /\ WalkInv'
    BY <1>4 DEF Reject
  <1>5. ASSUME NEW t \in Tasks, BeginDrop(t)
        PROVE  TypeOK' /\ WalkInv'
    BY <1>5 DEF BeginDrop
  <1>6. ASSUME NEW t \in Tasks, FetchSub(t)
        PROVE  TypeOK' /\ WalkInv'
    <2>1. lo[t] \in Dims /\ req[t][lo[t]] \in Keys /\ lo[t] <= hi[t]
      BY <1>6, RequestKeys DEF FetchSub, Dims
    <2>2. count' \in [Dims -> [Keys -> Int]]
      BY <1>6, <2>1 DEF FetchSub
    <2>3. /\ lo' = [lo EXCEPT ![t] = lo[t] + 1]
          /\ pc' = [pc EXCEPT ![t] = IF lo[t] = hi[t] THEN "idle" ELSE "release"]
          /\ hi' = hi /\ req' = req /\ cur' = cur /\ pc[t] = "release"
      BY <1>6 DEF FetchSub
    <2> QED
      BY <2>1, <2>2, <2>3 DEF Dims
  <1>7. CASE UNCHANGED vars
    BY <1>7 DEF vars
  <1> QED
    BY <1>1, <1>2, <1>3, <1>4, <1>5, <1>6, <1>7 DEF Next, Step

\* A step moves at most one counter, by the same amount as the number of
\* its contributors.
LEMMA CountersStep == IInv /\ [Next]_vars => CountersExact'
  <1> SUFFICES ASSUME IInv, [Next]_vars PROVE CountersExact'
    OBVIOUS
  <1> USE DEF IInv, TypeOK, WalkInv
  <1>a. ASSUME \A d \in Dims, k \in Keys : Contributors(d, k)' = Contributors(d, k),
               UNCHANGED count
        PROVE  CountersExact'
    BY <1>a DEF CountersExact
  <1>1. ASSUME NEW t \in Tasks, NEW r \in Requests, TryAcquire(t, r)
        PROVE  CountersExact'
    BY <1>1, <1>a DEF TryAcquire, Contributors, Bumped
  <1>2. ASSUME NEW t \in Tasks, Load(t)
        PROVE  CountersExact'
    BY <1>2, <1>a DEF Load, Contributors, Bumped
  <1>3. ASSUME NEW t \in Tasks, CompareExchange(t)
        PROVE  CountersExact'
    <2>1. CASE Counter(t) # cur[t]
      BY <1>3, <2>1, <1>a DEF CompareExchange, Contributors, Bumped
    <2>2. CASE Counter(t) = cur[t]
      <3>0. Target(t) \in Dims /\ req[t][Target(t)] \in Keys
        BY <1>3, RequestKeys DEF CompareExchange, Target, Dims
      <3> SUFFICES ASSUME NEW e \in Dims, NEW key \in Keys,
                          e = Target(t), key = req[t][e]
                   PROVE  CountersExact'
        BY <3>0
      <3>1. e = hi[t] + 1 /\ lo[t] = 1 /\ pc[t] = "bump"
        BY <1>3 DEF CompareExchange, Target
      <3>2. /\ count' = [count EXCEPT ![e][key] = count[e][key] + 1]
            /\ hi' = [hi EXCEPT ![t] = e]
            /\ pc' = [pc EXCEPT ![t] = IF e = 4 THEN "held" ELSE "bump"]
            /\ req' = req /\ lo' = lo
        BY <1>3, <2>2 DEF CompareExchange, Counter
      <3>3. t \notin Contributors(e, key)
        BY <3>1 DEF Contributors, Bumped, Dims
      <3>4. Contributors(e, key)' = Contributors(e, key) \cup {t}
        BY <3>1, <3>2, SMTT(40) DEF Contributors, Bumped, Dims
      <3>5. ASSUME NEW d \in Dims, NEW k \in Keys, d # e \/ k # key
            PROVE  count'[d][k] = Cardinality(Contributors(d, k))'
        <4>1. Contributors(d, k)' = Contributors(d, k)
          BY <3>1, <3>2, <3>5 DEF Contributors, Bumped, Dims
        <4>2. count'[d][k] = count[d][k]
          BY <3>2, <3>5
        <4> QED
          BY <4>1, <4>2 DEF CountersExact
      <3>6. count'[e][key] = Cardinality(Contributors(e, key))'
        <4>1. count'[e][key] = count[e][key] + 1
          BY <3>2
        <4>2. Contributors(e, key) \in SUBSET Tasks
          BY DEF Contributors
        <4>3. Cardinality(Contributors(e, key) \cup {t}) = Cardinality(Contributors(e, key)) + 1
          BY <3>3, <4>2, SizeMoves
        <4>4. count[e][key] = Cardinality(Contributors(e, key))
          BY DEF CountersExact
        <4> QED
          BY <3>4, <4>1, <4>3, <4>4
      <3> QED
        BY <3>5, <3>6 DEF CountersExact
    <2> QED
      BY <2>1, <2>2
  <1>4. ASSUME NEW t \in Tasks, Reject(t)
        PROVE  CountersExact'
    BY <1>4, <1>a DEF Reject, Contributors, Bumped
  <1>5. ASSUME NEW t \in Tasks, BeginDrop(t)
        PROVE  CountersExact'
    BY <1>5, <1>a DEF BeginDrop, Contributors, Bumped
  <1>6. ASSUME NEW t \in Tasks, FetchSub(t)
        PROVE  CountersExact'
    <2>0. lo[t] \in Dims /\ req[t][lo[t]] \in Keys /\ lo[t] <= hi[t]
      BY <1>6, RequestKeys DEF FetchSub, Dims
    <2> SUFFICES ASSUME NEW e \in Dims, NEW key \in Keys,
                        e = lo[t], key = req[t][e]
                 PROVE  CountersExact'
      BY <2>0
    <2>1. e <= hi[t] /\ pc[t] = "release"
      BY <1>6, <2>0 DEF FetchSub
    <2>2. /\ count' = [count EXCEPT ![e][key] = count[e][key] - 1]
          /\ lo' = [lo EXCEPT ![t] = e + 1]
          /\ pc' = [pc EXCEPT ![t] = IF e = hi[t] THEN "idle" ELSE "release"]
          /\ req' = req /\ hi' = hi
      BY <1>6 DEF FetchSub
    <2>3. t \in Contributors(e, key)
      BY <2>1 DEF Contributors, Bumped, Dims
    <2>4. Contributors(e, key)' = Contributors(e, key) \ {t}
      BY <2>1, <2>2 DEF Contributors, Bumped, Dims
    <2>5. ASSUME NEW d \in Dims, NEW k \in Keys, d # e \/ k # key
          PROVE  count'[d][k] = Cardinality(Contributors(d, k))'
      <3>1. Contributors(d, k)' = Contributors(d, k)
        BY <2>1, <2>2, <2>5 DEF Contributors, Bumped, Dims
      <3>2. count'[d][k] = count[d][k]
        BY <2>2, <2>5
      <3> QED
        BY <3>1, <3>2 DEF CountersExact
    <2>6. count'[e][key] = Cardinality(Contributors(e, key))'
      <3>1. count'[e][key] = count[e][key] - 1
        BY <2>2
      <3>2. Contributors(e, key) \in SUBSET Tasks
        BY DEF Contributors
      <3>3. Cardinality(Contributors(e, key) \ {t}) = Cardinality(Contributors(e, key)) - 1
        BY <2>3, <3>2, SizeMoves
      <3>4. count[e][key] = Cardinality(Contributors(e, key))
        BY DEF CountersExact
      <3> QED
        BY <2>4, <3>1, <3>3, <3>4
    <2> QED
      BY <2>5, <2>6 DEF CountersExact
  <1>7. CASE UNCHANGED vars
    BY <1>7, <1>a DEF vars, Contributors, Bumped
  <1> QED
    BY <1>1, <1>2, <1>3, <1>4, <1>5, <1>6, <1>7 DEF Next, Step

\* A counter only grows by a compare-and-swap from below its limit.
LEMMA LimitsStep == IInv /\ [Next]_vars => WithinLimits'
  <1> SUFFICES ASSUME IInv, [Next]_vars PROVE WithinLimits'
    OBVIOUS
  <1> USE DEF IInv, TypeOK, WalkInv
  <1>1. ASSUME UNCHANGED count PROVE WithinLimits'
    BY <1>1 DEF WithinLimits
  <1>2. ASSUME NEW t \in Tasks, CompareExchange(t)
        PROVE  WithinLimits'
    <2>1. CASE Counter(t) # cur[t]
      BY <1>1, <1>2, <2>1 DEF CompareExchange
    <2>2. CASE Counter(t) = cur[t]
      <3>1. Target(t) \in Dims /\ req[t][Target(t)] \in Keys
        BY <1>2, RequestKeys DEF CompareExchange, Target, Dims
      <3> SUFFICES ASSUME NEW e \in Dims, NEW key \in Keys,
                          e = Target(t), key = req[t][e]
                   PROVE  WithinLimits'
        BY <3>1
      <3>2. /\ count' = [count EXCEPT ![e][key] = count[e][key] + 1]
            /\ count[e][key] < Limit[e]
        BY <1>2, <2>2 DEF CompareExchange, Counter, Max
      <3>3. ASSUME NEW d \in Dims, NEW k \in Keys PROVE count'[d][k] <= Limit[d]
        <4>1. count[d][k] \in Int /\ Limit[d] \in Nat /\ count[d][k] <= Limit[d]
          BY BudgetAssumption DEF WithinLimits
        <4>2. CASE d = e /\ k = key
          BY <3>2, <4>1, <4>2
        <4>3. CASE ~(d = e /\ k = key)
          BY <3>2, <4>1, <4>3
        <4> QED
          BY <4>2, <4>3
      <3> QED
        BY <3>3 DEF WithinLimits
    <2> QED
      BY <2>1, <2>2
  <1>3. ASSUME NEW t \in Tasks, FetchSub(t)
        PROVE  WithinLimits'
    <2>1. lo[t] \in Dims /\ req[t][lo[t]] \in Keys
      BY <1>3, RequestKeys DEF FetchSub, Dims
    <2>2. ASSUME NEW d \in Dims, NEW k \in Keys PROVE count'[d][k] <= Limit[d]
      <3>1. count[d][k] \in Int /\ Limit[d] \in Nat /\ count[d][k] <= Limit[d]
        BY BudgetAssumption DEF WithinLimits
      <3>2. count'[d][k] \in {count[d][k], count[d][k] - 1}
        BY <1>3, <2>1 DEF FetchSub
      <3> QED
        BY <3>1, <3>2
    <2> QED
      BY <2>2 DEF WithinLimits
  <1> QED
    BY <1>1, <1>2, <1>3 DEF Next, Step, TryAcquire, Load, Reject, BeginDrop, vars

LEMMA StepIInv == IInv /\ [Next]_vars => IInv'
  BY TypeStep, CountersStep, LimitsStep DEF IInv

\* The whole inductive invariant holds in every reachable state: types, the
\* control points of the walks, exact counters and the caps.
THEOREM Invariance == Spec => []IInv
  BY InitIInv, StepIInv, PTL DEF Spec

\* Counters, control points and walk bounds keep their types.
THEOREM SpecTypeOK == Spec => []TypeOK
  BY Invariance, PTL DEF IInv

\* The caps of BudgetLimits are never exceeded, whatever the interleaving of
\* the walks and whatever the limits.
THEOREM SpecWithinLimits == Spec => []WithinLimits
  BY Invariance, PTL DEF IInv

\* No slot leaks and none is given back twice.
THEOREM SpecCountersExact == Spec => []CountersExact
  BY Invariance, PTL DEF IInv

-----------------------------------------------------------------------------
\* The abstract module's Cardinality is the library's.
LEMMA SameCardinality == \A S : Atomic!Cardinality(S) = Cardinality(S)
  BY Zenon DEF Atomic!Cardinality, Cardinality

\* A task whose walk has passed dimension d of its request contributes to
\* that counter, so the last bump finds every dimension below its limit.
LEMMA GrantFits ==
    ASSUME IInv, NEW t \in Tasks, NEW d \in Dims,
           CompareExchange(t), Counter(t) = cur[t], Target(t) = 4
    PROVE  Cardinality(Atomic!Holders(d, req[t][d])) < Limit[d]
  <1> USE DEF IInv, TypeOK, WalkInv
  <1> DEFINE key == req[t][d]
             H == Atomic!Holders(d, key)
             C == Contributors(d, key)
  <1>1. pc[t] = "bump" /\ hi[t] = 3 /\ lo[t] = 1 /\ req[t] \in Requests /\ key \in Keys
    BY RequestKeys DEF CompareExchange, Target
  <1>2. H \subseteq C /\ t \notin H /\ H \subseteq Tasks /\ C \subseteq Tasks
    BY <1>1 DEF Atomic!Holders, Contributors, Bumped, Dims
  <1>3. count[d][key] = Cardinality(C) /\ count[d][key] <= Limit[d] /\ Limit[d] \in Nat
    BY <1>1, RequestKeys DEF CountersExact, WithinLimits
  <1> HIDE DEF H, C, key
  <1>4. /\ IsFiniteSet(C) /\ Cardinality(C) \in Nat /\ Cardinality(H) \in Nat
        /\ Cardinality(H \cup {t}) = Cardinality(H) + 1
    BY <1>2, SizeMoves
  <1>5. ASSUME d = 4 PROVE Cardinality(H) < Limit[d]
    <2>1. count[d][key] < Limit[d]
      BY <1>1, <1>5 DEF CompareExchange, Counter, Max, key
    <2>2. Cardinality(H) <= Cardinality(C)
      BY <1>2, <1>4, FS_Subset
    <2> QED
      BY <1>3, <1>4, <2>1, <2>2
  <1>6. ASSUME d # 4 PROVE Cardinality(H) < Limit[d]
    <2>1. t \in C
      BY <1>1, <1>6 DEF C, key, Contributors, Bumped, Dims
    <2>2. H \cup {t} \subseteq C
      BY <1>2, <2>1
    <2>3. Cardinality(H \cup {t}) <= Cardinality(C)
      BY <1>4, <2>2, FS_Subset
    <2> QED
      BY <1>3, <1>4, <2>3
  <1>7. Cardinality(H) < Limit[d]
    BY <1>5, <1>6
  <1> QED
    BY <1>7 DEF H, key

\* Every step of the walk is a grant, a drop or a stutter of the atomic spec.
LEMMA RefineStep == IInv /\ [Next]_vars => [Atomic!Next]_(Atomic!vars)
  <1> SUFFICES ASSUME IInv, [Next]_vars
               PROVE  Atomic!Next \/ UNCHANGED Atomic!vars
    OBVIOUS
  <1> USE DEF IInv, TypeOK, WalkInv
  <1>1. ASSUME NEW t \in Tasks, CompareExchange(t)
        PROVE  Atomic!Next \/ UNCHANGED Atomic!vars
    <2>1. pc[t] = "bump" /\ req' = req /\ req[t] \in Requests
      BY <1>1 DEF CompareExchange
    <2>2. CASE Counter(t) = cur[t] /\ Target(t) = 4
      <3>1. pc' = [pc EXCEPT ![t] = "held"]
        BY <1>1, <2>2 DEF CompareExchange
      <3>2. \A d \in Dims : Cardinality(Atomic!Holders(d, req[t][d])) < Limit[d]
        BY <1>1, <2>2, GrantFits
      <3> SUFFICES ASSUME NEW r \in Requests, r = req[t]
                   PROVE  Atomic!Next \/ UNCHANGED Atomic!vars
        BY <2>1
      <3>3. Atomic!Grant(t, r)
        BY <2>1, <3>1, <3>2, SameCardinality DEF Atomic!Grant, Atomic!Dims, Dims
      <3> QED
        BY <3>3 DEF Atomic!Next
    <2>3. CASE ~(Counter(t) = cur[t] /\ Target(t) = 4)
      <3>1. pc' = pc
        BY <1>1, <2>1, <2>3 DEF CompareExchange
      <3> QED
        BY <2>1, <3>1 DEF Atomic!vars
    <2> QED
      BY <2>2, <2>3
  <1>2. ASSUME NEW t \in Tasks, BeginDrop(t)
        PROVE  Atomic!Next \/ UNCHANGED Atomic!vars
    <2>1. /\ pc[t] = "held" /\ pc' = [pc EXCEPT ![t] = "release"]
          /\ req' = req /\ req[t] \in Requests /\ req[t] # NoRequest
      BY <1>2, BudgetAssumption DEF BeginDrop
    <2>2. Atomic!DropGuard(t)
      BY <2>1 DEF Atomic!DropGuard
    <2> QED
      BY <2>2 DEF Atomic!Next
  <1>3. ASSUME NEW t \in Tasks, NEW r \in Requests, TryAcquire(t, r)
        PROVE  UNCHANGED Atomic!vars
    BY <1>3 DEF TryAcquire, Atomic!vars
  <1>4. ASSUME NEW t \in Tasks, Load(t) \/ Reject(t) \/ FetchSub(t)
        PROVE  UNCHANGED Atomic!vars
    BY <1>4 DEF Load, Reject, FetchSub, Atomic!vars
  <1>5. CASE UNCHANGED vars
    BY <1>5 DEF vars, Atomic!vars
  <1> QED
    BY <1>1, <1>2, <1>3, <1>4, <1>5 DEF Next, Step

\* Guards are handed out exactly as by the atomic reservation the source
\* documents: the interleaved counter walk implements AtomicBudgets.
THEOREM Refinement == Spec => GrantsAreAtomic
  <1>1. Init => Atomic!Init
    BY DEF Init, Atomic!Init
  <1> QED
    BY <1>1, RefineStep, Invariance, PTL DEF Spec, Atomic!Spec, GrantsAreAtomic
====
