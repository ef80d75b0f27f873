---- MODULE SqliteQueue ----
(***************************************************************************)
(* The durable job queue (src/queue/sqlite.rs).  One writer thread owns    *)
(* the connection and runs one statement per request, so every operation   *)
(* is one step on the jobs table; opening the file is four of them.  A     *)
(* process may die at any time and the file be opened again: committed     *)
(* rows survive, what the process held in memory does not.  Between any    *)
(* two statements the operator may run "queue purge" on the same file, and *)
(* another process may use it.  Time runs in ticks of a fraction of a      *)
(* second, because the queue reads its clock in whole seconds.             *)
(***************************************************************************)
EXTENDS Integers, FiniteSets

CONSTANTS
    Keys,           \* canonical URL identities
    Processes,      \* crawlers that may open the queue file
    Exclusive,      \* TRUE when the operator never runs two of them at once
    LegacyTables,   \* tables left by builds without canonical_url
    RetryMax,       \* the cap of set_retry_max
    Priorities,     \* priorities jobs are pushed and requeued with
    Delays,         \* delays of push_after and requeue_after, in ticks
    TicksPerSecond,
    MAX_ROWS,       \* bounds of the model
    MAX_TIME

States == {"pending", "in_flight", "done", "failed"}

\* The column canonical_url: NULL, the canonical key k as <<k, 0>>, or the form
\* "k#legacy-dup-i" of a row whose key an older row has, as <<k, i>>.
Null == <<>>
Canons == {Null} \cup (Keys \X Nat)

\* key is the canonical key of the column url.  due is a history field: the
\* instant before which the job was asked not to run.
Row == [key : Keys, canon : Canons, state : States, attempts : Nat, prio : Int,
        notBefore : Int, due : Int]

\* What builds without canonical_url left behind: any jobs, within the cap.
IsLegacyTable(r) ==
    /\ DOMAIN r \subseteq Nat \ {0}
    /\ r \in [DOMAIN r -> Row]
    /\ \A i \in DOMAIN r :
        /\ r[i].canon = Null
        /\ r[i].state \in {"pending", "in_flight"} => r[i].attempts <= RetryMax

ASSUME QueueAssumption ==
    /\ Exclusive \in BOOLEAN
    /\ RetryMax \in Nat \ {0}
    /\ TicksPerSecond \in Nat \ {0}
    /\ Priorities \subseteq Int
    /\ Delays \subseteq Nat
    /\ MAX_ROWS \in Nat
    /\ MAX_TIME \in Nat
    /\ \A r \in LegacyTables : IsLegacyTable(r)

VARIABLES
    rows,   \* the jobs table, by row id
    indexed,\* the unique index on canonical_url exists
    now,    \* wall clock, in ticks
    opening,\* opening[p]: what p does next to open the file
    plan,   \* plan[p]: the canonical_url its migration gives each row
    open,   \* processes that have the queue open
    held,   \* held[p]: ids of jobs p popped and has not resolved
    alone   \* history: no two processes have used the file at once

vars == <<rows, indexed, now, opening, plan, open, held, alone>>

TypeOK ==
    /\ DOMAIN rows \subseteq Nat \ {0}
    /\ rows \in [DOMAIN rows -> Row]
    /\ indexed \in BOOLEAN
    /\ now \in Nat
    /\ opening \in [Processes -> {"no", "rewrite", "index", "reclaim"}]
    /\ DOMAIN plan = Processes
    /\ \A p \in Processes : opening[p] = "rewrite" =>
         plan[p] \in [DOMAIN plan[p] -> Keys \X Nat]
    /\ open \subseteq Processes
    /\ held \in [Processes -> SUBSET (DOMAIN rows)]
    /\ alone \in BOOLEAN

Ids == DOMAIN rows

\* chrono_now: seconds since the epoch, truncated.
Seconds(t) == t \div TicksPerSecond

\* The rounding of push_after, requeue_after and duration_to_queue_secs.
CeilSeconds(d) == (d + TicksPerSecond - 1) \div TicksPerSecond

Init ==
    /\ rows \in {<<>>} \cup LegacyTables
    /\ indexed = FALSE
    /\ now = 0
    /\ opening = [p \in Processes |-> "no"]
    /\ plan = [p \in Processes |-> <<>>]
    /\ open = {}
    /\ held = [p \in Processes |-> {}]
    /\ alone = TRUE

Using == open \cup {p \in Processes : opening[p] # "no"}

\* The first row of a key, in id order, keeps it.
Plan(r) ==
    [i \in DOMAIN r |->
        <<r[i].key, IF \E j \in DOMAIN r : j < i /\ r[j].key = r[i].key THEN i ELSE 0>>]

\* migrate_canonical_urls reads every row,
ReadUrls(p) ==
    /\ p \notin Using
    /\ Exclusive => Using = {}
    /\ plan' = [plan EXCEPT ![p] = Plan(rows)]
    /\ opening' = [opening EXCEPT ![p] = "rewrite"]
    /\ alone' = (alone /\ Using = {})
    /\ UNCHANGED <<rows, indexed, now, open, held>>

\* The rewrite updates row after row, in id order.  Once the index exists, a
\* row cannot take a value that a row not yet rewritten still has.
RewriteConflicts(p) ==
    indexed /\ \E i \in Ids \cap DOMAIN plan[p] : \E j \in Ids \ {i} :
                  (j > i \/ j \notin DOMAIN plan[p]) /\ rows[j].canon = plan[p][i]

\* and updates them by id, in one transaction.  A conflict fails the opening:
\* then the process can only die.
Rewrite(p) ==
    /\ opening[p] = "rewrite"
    /\ ~RewriteConflicts(p)
    /\ rows' = [i \in Ids |-> IF i \in DOMAIN plan[p] THEN [rows[i] EXCEPT !.canon = plan[p][i]]
                             ELSE rows[i]]
    /\ plan' = [plan EXCEPT ![p] = <<>>]
    /\ opening' = [opening EXCEPT ![p] = "index"]
    /\ UNCHANGED <<indexed, now, open, held, alone>>

\* No two rows have the same canonical_url, NULL apart.
CanonsDiffer ==
    \A i, j \in Ids : rows[i].canon = rows[j].canon /\ rows[i].canon # Null => i = j

\* CREATE UNIQUE INDEX IF NOT EXISTS; it fails on a table with duplicates.
CreateIndex(p) ==
    /\ opening[p] = "index"
    /\ indexed \/ CanonsDiffer
    /\ indexed' = TRUE
    /\ opening' = [opening EXCEPT ![p] = "reclaim"]
    /\ UNCHANGED <<rows, now, plan, open, held, alone>>

\* Mutant of Reclaimed: open does not look at in_flight rows.
ReclaimNothing(r) == r

\* Reclaim jobs stuck as in_flight.
Reclaimed(r) ==
    [i \in DOMAIN r |->
        IF r[i].state = "in_flight" THEN [r[i] EXCEPT !.state = "pending"] ELSE r[i]]

Reclaim(p) ==
    /\ opening[p] = "reclaim"
    /\ rows' = Reclaimed(rows)
    /\ opening' = [opening EXCEPT ![p] = "no"]
    /\ open' = open \cup {p}
    /\ UNCHANGED <<indexed, now, plan, held, alone>>

\* The process exits, fails to open the file or is killed; the jobs it held
\* are nobody's.
Die(p) ==
    /\ p \in Using
    /\ open' = open \ {p}
    /\ opening' = [opening EXCEPT ![p] = "no"]
    /\ plan' = [plan EXCEPT ![p] = <<>>]
    /\ held' = [held EXCEPT ![p] = {}]
    /\ UNCHANGED <<rows, indexed, now, alone>>

Tick ==
    /\ now < MAX_TIME
    /\ now' = now + 1
    /\ UNCHANGED <<rows, indexed, opening, plan, open, held, alone>>

\* Mutant of Taken: only live rows hold their key.
TakenWhileLive(k) ==
    \E i \in Ids : rows[i].canon = <<k, 0>> /\ rows[i].state \in {"pending", "in_flight"}

\* The unique index on canonical_url.
Taken(k) == \E i \in Ids : rows[i].canon = <<k, 0>>

\* SQLite gives a new row the id after the largest one in the table.
IsNextId(i) ==
    /\ i \in {1} \cup {j + 1 : j \in Ids}
    /\ \A j \in Ids : j < i

\* Push and PushUnique: INSERT OR IGNORE.
Insert(p, k, prio, d) ==
    /\ p \in open
    /\ ~Taken(k)
    /\ \E i \in 1..MAX_ROWS :
        /\ IsNextId(i)
        /\ rows' = [j \in Ids \cup {i} |->
                     IF j \in Ids THEN rows[j]
                     ELSE [key |-> k, canon |-> <<k, 0>>, state |-> "pending", attempts |-> 0,
                           prio |-> prio, notBefore |-> Seconds(now) + CeilSeconds(d),
                           due |-> now + d]]
    /\ UNCHANGED <<indexed, now, opening, plan, open, held, alone>>

InsertIgnored(p, k) ==
    /\ p \in open
    /\ Taken(k)
    /\ UNCHANGED vars

\* Mutant of Purge: everything but what waits is deleted.
PurgeRunning ==
    /\ rows' = [i \in {j \in Ids : rows[j].state = "pending"} |-> rows[i]]
    /\ UNCHANGED <<indexed, now, opening, plan, open, held, alone>>

\* "crawlex queue purge": DELETE the rows in a terminal state.
Purge ==
    /\ rows' = [i \in {j \in Ids : rows[j].state \notin {"done", "failed"}} |-> rows[i]]
    /\ UNCHANGED <<indexed, now, opening, plan, open, held, alone>>

\* Mutants of Ready: the delay is not looked at; failed rows are taken too.
ReadyTooSoon(i) == rows[i].state = "pending"
ReadyAgain(i) == rows[i].state \in {"pending", "failed"} /\ rows[i].notBefore <= Seconds(now)

Ready(i) == rows[i].state = "pending" /\ rows[i].notBefore <= Seconds(now)

\* ORDER BY priority DESC, id ASC.
Before(i, j) ==
    \/ rows[i].prio > rows[j].prio
    \/ rows[i].prio = rows[j].prio /\ i < j

Pop(p, i) ==
    /\ p \in open
    /\ i \in Ids
    /\ Ready(i)
    /\ \A j \in Ids : Ready(j) /\ j # i => Before(i, j)
    /\ rows' = [rows EXCEPT ![i].state = "in_flight"]
    /\ held' = [held EXCEPT ![p] = @ \cup {i}]
    /\ UNCHANGED <<indexed, now, opening, plan, open, alone>>

\* The task that popped i hands it back; the updates go by id alone.
Resolve(p, i, row) ==
    /\ i \in held[p]
    /\ rows' = [rows EXCEPT ![i] = row]
    /\ held' = [held EXCEPT ![p] = @ \ {i}]
    /\ UNCHANGED <<indexed, now, opening, plan, open, alone>>

Complete(p, i) == Resolve(p, i, [rows[i] EXCEPT !.state = "done"])

\* The columns a retry rewrites; "delay" counts from the present second.
Rescheduled(r, s, a, delay) ==
    [r EXCEPT !.state = s, !.attempts = a,
              !.notBefore = Seconds(now) + CeilSeconds(delay), !.due = now + delay]

\* Mutant of Fail: the cap is not looked at.
FailForever(p, i, d) ==
    Resolve(p, i, Rescheduled(rows[i], "pending", rows[i].attempts + 1, d))

Fail(p, i, d) ==
    Resolve(p, i,
        Rescheduled(rows[i],
                    IF rows[i].attempts + 1 >= RetryMax THEN "failed" ELSE "pending",
                    rows[i].attempts + 1, d))

FailPermanently(p, i) ==
    Resolve(p, i, Rescheduled(rows[i], "failed", rows[i].attempts + 1, 0))

\* The URL and the attempts of the job that was popped from row i.  They are
\* the row's, since only the task rewrites a row in flight; but another process
\* on the file may have reclaimed the row, and it may be any other job's by now.
JobKeys(i) == IF alone THEN {rows[i].key} ELSE Keys
JobAttempts(i) == IF alone THEN {rows[i].attempts} ELSE 0 .. RetryMax

\* The attempts a requeued job carries: none (render escalation), as many
\* (deferral) or one more (retry after an error, within the crawler's cap).
RequeueAttempts(i) ==
    {0} \cup JobAttempts(i) \cup {n \in 1 .. RetryMax : n - 1 \in JobAttempts(i)}

\* A row other than i holds the canonical key k.
KeyHeldElsewhere(i, k) == \E j \in Ids \ {i} : rows[j].canon = <<k, 0>>

\* The update also writes back the URL of the job and its canonical key.
Requeue(p, i, k, prio, a, d) ==
    /\ ~KeyHeldElsewhere(i, k)
    /\ Resolve(p, i,
        Rescheduled([rows[i] EXCEPT !.key = k, !.canon = <<k, 0>>, !.prio = prio], "pending", a, d))

\* A legacy duplicate cannot take a key that another row has: the unique
\* index rejects the update and the error is only logged by the caller.
RequeueRejected(p, i) ==
    /\ i \in held[p]
    /\ \E k \in JobKeys(i) : KeyHeldElsewhere(i, k)
    /\ held' = [held EXCEPT ![p] = @ \ {i}]
    /\ UNCHANGED <<rows, indexed, now, opening, plan, open, alone>>

ProcessStep(p) ==
    \/ ReadUrls(p) \/ Rewrite(p) \/ CreateIndex(p) \/ Reclaim(p)
    \/ Die(p)
    \/ \E k \in Keys, prio \in Priorities, d \in Delays : Insert(p, k, prio, d)
    \/ \E k \in Keys : InsertIgnored(p, k)
    \/ \E i \in Ids : Pop(p, i)
    \/ \E i \in held[p] :
        \/ Complete(p, i)
        \/ \E d \in Delays : Fail(p, i, d)
        \/ FailPermanently(p, i)
        \/ \E k \in JobKeys(i), prio \in Priorities, a \in RequeueAttempts(i), d \in Delays :
              Requeue(p, i, k, prio, a, d)
        \/ RequeueRejected(p, i)

Next == Tick \/ Purge \/ \E p \in Processes : ProcessStep(p)

Spec == Init /\ [][Next]_vars

-----------------------------------------------------------------------------
Running == {i \in Ids : rows[i].state = "in_flight"}

\* While a process has the queue open, the rows marked in_flight are exactly
\* the jobs some task still holds: a crash, a reopen, a retry or a purge
\* leaves no row in_flight that nobody will ever resolve, and no job that
\* is being processed can be handed out again.
InFlightOwned ==
    open # {} => Running = UNION {held[p] : p \in open}

\* A live job has not used up more than the retry cap, whatever mix of
\* failures, requeues, crashes and reclaims it went through.
AttemptsWithinCap ==
    \A i \in Ids : rows[i].state \in {"pending", "in_flight"} => rows[i].attempts <= RetryMax

\* The canonical_url of a row is its own URL's, plain or in the form of its own
\* id, and no two rows have the same: so no URL is admitted twice on the
\* strength of it.  It holds from when the file was opened, whatever an older
\* build left in it and whatever a crash or a purge cut the migration short
\* with, as long as no two processes used the file at once.
KeysUnique ==
    alone /\ open # {} =>
        /\ \A i \in Ids : rows[i].canon \in {<<rows[i].key, 0>>, <<rows[i].key, i>>}
        /\ CanonsDiffer

Live(r) == r.state \in {"pending", "in_flight"}

\* No crash, reopening, migration or purge takes a URL that is still to be
\* crawled out of the queue, and only the task that popped it decides that it
\* is over.
JobsSurvive ==
    [][alone => \A i \in Ids : Live(rows[i]) =>
         /\ i \in DOMAIN rows'
         /\ rows'[i].key = rows[i].key
         /\ Live(rows'[i]) \/ \E p \in Processes : i \in held[p] \ held'[p]]_vars

\* A job is never dispatched a whole second or more before its delay is over.
AtMostASecondEarly ==
    [][\A i \in Ids :
         i \in DOMAIN rows' /\ rows[i].state = "pending" /\ rows'[i].state = "in_flight"
            => now > rows[i].due - TicksPerSecond]_vars

\* How a row's state reads in the abstract frontier.
AbstractState(s) ==
    CASE s = "pending"   -> "waiting"
      [] s = "in_flight" -> "running"
      [] s = "done"      -> "done"
      [] s = "failed"    -> "failed"

StatusIn(r, k) ==
    IF \E i \in DOMAIN r : r[i].key = k
    THEN AbstractState(r[CHOOSE i \in DOMAIN r : r[i].key = k].state)
    ELSE "absent"

\* A table that starts empty implements the abstract frontier.
Abstract == INSTANCE Frontier WITH status <- [k \in Keys |-> StatusIn(rows, k)]
ImplementsFrontier == Abstract!Spec
====
