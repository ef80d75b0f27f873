---- MODULE Frontier ----
(***************************************************************************)
(* What a crawl queue promises (JobQueue, src/queue/mod.rs): a URL         *)
(* identity is admitted once, is dispatched to one task at a time, goes    *)
(* back to waiting when it is retried or when its process dies, and leaves *)
(* a terminal state only when the operator purges the queue.               *)
(***************************************************************************)
CONSTANT Keys   \* canonical URL identities

VARIABLE status

vars == status

Statuses == {"absent", "waiting", "running", "done", "failed"}

Init == status = [k \in Keys |-> "absent"]

Move(k, from, to) ==
    /\ status[k] = from
    /\ status' = [status EXCEPT ![k] = to]

Admit(k)    == Move(k, "absent", "waiting")
Dispatch(k) == Move(k, "waiting", "running")
Retry(k)    == Move(k, "running", "waiting")
Finish(k)   == Move(k, "running", "done")
GiveUp(k)   == Move(k, "running", "failed")

\* The process that ran the jobs is gone: all of them wait again.
Recover ==
    status' = [k \in Keys |-> IF status[k] = "running" THEN "waiting" ELSE status[k]]

\* The operator purges what is finished; those URLs may be admitted again.
Purge ==
    status' = [k \in Keys |-> IF status[k] \in {"done", "failed"} THEN "absent" ELSE status[k]]

Next ==
    \/ \E k \in Keys : Admit(k) \/ Dispatch(k) \/ Retry(k) \/ Finish(k) \/ GiveUp(k)
    \/ Recover
    \/ Purge

Spec == Init /\ [][Next]_vars
====
