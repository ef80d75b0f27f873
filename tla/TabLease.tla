---- MODULE TabLease ----
(***************************************************************************)
(* What the page pool (PagePool and PageLease, src/render/page_pool.rs)    *)
(* promises of a tab: it is opened for one context key and only ever lent  *)
(* to renders of that key, to one of them at a time and no more than       *)
(* max_uses_per_page times; between two renders it waits in the queue of   *)
(* its key, which holds max_pages_per_context tabs at most; and a tab that *)
(* was closed is never seen again.                                         *)
(***************************************************************************)
EXTENDS Integers, Sequences, FiniteSets

CONSTANTS
    Tasks,      \* renders
    Keys,       \* context keys
    MaxPages,   \* max_pages_per_context
    MaxUses     \* max_uses_per_page

VARIABLE tabs   \* tabs[p]: what has become of the p-th tab that was opened

vars == tabs

\* A tab a render drives, a tab that waits for the next one, and one that is gone.
Lent(t, k, n) == [place |-> "lent", to |-> t, key |-> k, uses |-> n]
Idle(k, n) == [place |-> "idle", key |-> k, uses |-> n]
Closed == [place |-> "closed"]

IdleOf(k) == {p \in DOMAIN tabs : tabs[p].place = "idle" /\ tabs[p].key = k}
IdleTabs == UNION {IdleOf(k) : k \in Keys}

HasNone(t) == \A p \in DOMAIN tabs : tabs[p].place = "lent" => tabs[p].to # t

AfterClosing(C) == [p \in DOMAIN tabs |-> IF p \in C THEN Closed ELSE tabs[p]]

Init == tabs = <<>>

\* register_fresh: the first use of a new tab.
Open(t, k) ==
    /\ HasNone(t)
    /\ tabs' = Append(tabs, Lent(t, k, 1))

\* try_acquire: the tabs before p in the queue turned out to be too old.
Lend(t, p) ==
    /\ HasNone(t)
    /\ p \in IdleTabs
    /\ tabs[p].uses < MaxUses
    /\ \E C \in SUBSET (IdleOf(tabs[p].key) \ {p}) :
         tabs' = [AfterClosing(C) EXCEPT ![p] = Lent(t, tabs[p].key, tabs[p].uses + 1)]

\* release of a tab the queue has room for.
Return(p) ==
    /\ tabs[p].place = "lent"
    /\ tabs[p].uses < MaxUses
    /\ Cardinality(IdleOf(tabs[p].key)) < MaxPages
    /\ tabs' = [tabs EXCEPT ![p] = Idle(tabs[p].key, tabs[p].uses)]

\* The end of a lease in any other way.
Drop(p) ==
    /\ tabs[p].place = "lent"
    /\ tabs' = AfterClosing({p})

\* drop_context, and try_acquire that finds nothing to lend: tabs that nobody
\* drives are closed.
Close(C) == tabs' = AfterClosing(C)

Next ==
    \/ \E t \in Tasks, k \in Keys : Open(t, k)
    \/ \E t \in Tasks, p \in DOMAIN tabs : Lend(t, p)
    \/ \E p \in DOMAIN tabs : Return(p) \/ Drop(p)
    \/ \E C \in SUBSET IdleTabs : Close(C)

Spec == Init /\ [][Next]_vars

\* A tab that was closed stays closed, and no tab ever changes its key or is
\* lent while another render drives it.
TabsGoOnward ==
    [][\A p \in DOMAIN tabs :
         /\ p \in DOMAIN tabs'
         /\ tabs[p].place = "closed" => tabs'[p] = tabs[p]
         /\ tabs'[p].place # "closed" => /\ tabs'[p].key = tabs[p].key
                                         /\ tabs'[p].uses >= tabs[p].uses
         /\ tabs[p].place = "lent" /\ tabs'[p].place = "lent" => tabs'[p] = tabs[p]]_vars
====
