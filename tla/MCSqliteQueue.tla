---- MODULE MCSqliteQueue ----
EXTENDS SqliteQueue, TLC
CONSTANTS u1, u2, p1, p2

\* A table of an older build: two rows of one URL, an unfinished one first.
LegacyRow(k, s) == [key |-> k, canon |-> Null, state |-> s, attempts |-> 0, prio |-> 0,
                    notBefore |-> 0, due |-> 0]
MCLegacy ==
    {(1 :> LegacyRow(u1, s)) @@ (2 :> LegacyRow(u1, t)) @@ (3 :> LegacyRow(u2, "pending")) :
        s, t \in {"pending", "in_flight", "done"}}

\* The processes are alike.
Symmetry == Permutations(Processes)
====
