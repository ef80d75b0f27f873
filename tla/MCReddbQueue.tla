---- MODULE MCReddbQueue ----
EXTENDS ReddbQueue, TLC
CONSTANTS u1, u2, t1, t2

\* A page and the one it links.
MCLinks == (u1 :> {u2}) @@ (u2 :> {})
\* A run with a failed query is not followed by another.
FaultOrRestart == runs + faults <= RUNS
Symmetry == Permutations({t1, t2})
====
