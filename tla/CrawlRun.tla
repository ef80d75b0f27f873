---- MODULE CrawlRun ----
(***************************************************************************)
(* One crawl of a queue file (src/crawler.rs): the run loop that pops jobs *)
(* and spawns a task for each, the tasks that fetch a page, admit the      *)
(* links it yields and hand the job back, and the operator who runs the    *)
(* crawl again after a crash, a page limit or an end.  The queue is the    *)
(* abstract one; "recent" is the in-memory set in front of it              *)
(* (src/frontier/dedupe.rs), which a restart loses.                        *)
(***************************************************************************)
EXTENDS Integers, FiniteSets

CONSTANTS
    Urls,        \* canonical URL identities
    Seeds,
    Links,       \* Links[u]: the URLs page u yields that pass the filters
    Scripts,     \* JavaScript resources, mined for endpoints
    NoLimit,
    MaxDepth,    \* max_depth, or NoLimit
    MaxPages,    \* max_pages, or NoLimit
    MaxTasks,    \* max_concurrent_http
    MaxRetries,  \* the policy's max_retries
    RetryMax,    \* the queue's retry cap
    RenderModes, \* may a run have max_concurrent_render > 0: {TRUE}, {FALSE} or both
    ExactCap,    \* capacity of the recent set
    RUNS,        \* bounds of the model: process starts,
    DEFERS,      \* requeues that count no attempt,
    ERRORS       \* queue writes that fail

ASSUME CrawlAssumption ==
    /\ IsFiniteSet(Urls)
    /\ Seeds \subseteq Urls
    /\ Links \in [Urls -> SUBSET Urls]
    /\ Scripts \subseteq Urls
    /\ NoLimit \notin Nat
    /\ MaxDepth \in Nat \cup {NoLimit}
    /\ MaxPages \in Nat \cup {NoLimit}
    /\ MaxTasks \in Nat \ {0}
    /\ MaxRetries \in Nat /\ RetryMax \in Nat \ {0} /\ MaxRetries <= RetryMax
    /\ RenderModes \subseteq BOOLEAN
    /\ ExactCap \in Nat \ {0}
    /\ RUNS \in Nat /\ DEFERS \in Nat /\ ERRORS \in Nat

VARIABLES
    status,   \* the queue: status of each URL's job
    depth,    \* depth the job was admitted with
    attempts, \* attempts recorded in the job
    method,   \* its fetch method: "auto" until escalated to "render"
    delayed,  \* jobs whose not_before lies ahead
    recent,   \* URLs in the exact recent set
    main,     \* control point of the run loop
    seeding,  \* seeds not admitted yet
    current,  \* {u} while the loop has popped u and not spawned its task
    pc,       \* control point of u's task
    todo,     \* links of u still to be admitted
    child,    \* {v} while v is between insertion and mark_seen
    verdict,  \* the disposition the task decided on
    finished, \* tasks of the JoinSet that have ended and are not joined
    pages,    \* pages_admitted
    canRender,\* this run was started with max_concurrent_render > 0
    runs, defers, errors,
    saved,    \* history: pages whose job was completed with its links admitted
    stranded  \* history: jobs of this run whose disposition write failed

queue == <<status, depth, attempts, method, delayed>>
tasks == <<pc, todo, child, verdict>>
vars == <<status, depth, attempts, method, delayed, recent, main, seeding, current, pc,
          todo, child, verdict, finished, pages, canRender, runs, defers, errors, saved, stranded>>

Queue == INSTANCE Frontier WITH Keys <- Urls

MainStates == {"down", "seeding", "check", "pop", "pending", "permit", "backpressure",
               "drain", "ended"}
TaskStates == {"none", "fetch", "admit", "insert", "mark", "apply"}
Verdicts == {"complete", "drop", "retry", "fail", "render", "defer", "permanent"}

TypeOK ==
    /\ status \in [Urls -> Queue!Statuses]
    /\ depth \in [Urls -> Nat]
    /\ attempts \in [Urls -> Nat]
    /\ method \in [Urls -> {"auto", "render"}]
    /\ delayed \subseteq Urls
    /\ recent \subseteq Urls
    /\ main \in MainStates
    /\ seeding \subseteq Seeds
    /\ current \subseteq Urls
    /\ pc \in [Urls -> TaskStates]
    /\ todo \in [Urls -> SUBSET Urls]
    /\ child \in [Urls -> SUBSET Urls]
    /\ verdict \in [Urls -> Verdicts]
    /\ finished \in Nat
    /\ pages \in Nat
    /\ canRender \in BOOLEAN
    /\ runs \in Nat /\ defers \in Nat /\ errors \in Nat
    /\ saved \subseteq Urls
    /\ stranded \subseteq Urls

Init ==
    /\ Queue!Init
    /\ depth = [u \in Urls |-> 0]
    /\ attempts = [u \in Urls |-> 0]
    /\ method = [u \in Urls |-> "auto"]
    /\ delayed = {}
    /\ recent = {}
    /\ main = "down"
    /\ seeding = {}
    /\ current = {}
    /\ pc = [u \in Urls |-> "none"]
    /\ todo = [u \in Urls |-> {}]
    /\ child = [u \in Urls |-> {}]
    /\ verdict = [u \in Urls |-> "drop"]
    /\ finished = 0
    /\ pages = 0
    /\ canRender = TRUE
    /\ runs = 0 /\ defers = 0 /\ errors = 0
    /\ saved = {}
    /\ stranded = {}

-----------------------------------------------------------------------------
Limited == MaxPages # NoLimit

\* Running tasks, each with a semaphore permit.
Active == {u \in Urls : pc[u] # "none"}

\* tasks.len(): a finished task counts until it is joined.
JoinSetLen == Cardinality(Active) + finished

Waiting == {u \in Urls : status[u] = "waiting"}

\* Everything the process keeps in memory is gone.
Forget ==
    /\ recent' = {}
    /\ current' = {}
    /\ pc' = [u \in Urls |-> "none"]
    /\ todo' = [u \in Urls |-> {}]
    /\ child' = [u \in Urls |-> {}]
    /\ verdict' = [u \in Urls |-> "drop"]
    /\ finished' = 0

\* Mutant of Start: what the dead process was running is not reclaimed.
StartNoReclaim ==
    /\ main \in {"down", "ended"}
    /\ runs < RUNS
    /\ runs' = runs + 1
    /\ Forget
    /\ main' = "seeding"
    /\ seeding' = Seeds
    /\ pages' = 0
    /\ stranded' = {}
    /\ canRender' \in RenderModes
    /\ UNCHANGED <<queue, defers, errors, saved>>

\* The operator starts a crawl of the queue file: open reclaims what an
\* earlier process left running, then the seeds are admitted.
Start ==
    /\ main \in {"down", "ended"}
    /\ runs < RUNS
    /\ runs' = runs + 1
    /\ Queue!Recover
    /\ Forget
    /\ main' = "seeding"
    /\ seeding' = Seeds
    /\ pages' = 0
    /\ stranded' = {}
    /\ canRender' \in RenderModes
    /\ UNCHANGED <<depth, attempts, method, delayed, defers, errors, saved>>

\* The process dies, or pop fails and run returns with the JoinSet dropped.
Crash ==
    /\ main \notin {"down", "ended"}
    /\ runs < RUNS
    /\ main' = "down"
    /\ seeding' = {}
    /\ Forget
    /\ UNCHANGED <<queue, pages, canRender, runs, defers, errors, saved, stranded>>

\* Dedupe::mark_seen.
Seen(v) == recent' = IF Cardinality(recent) >= ExactCap THEN {v} ELSE recent \cup {v}

\* push_unique: a second insertion of a key is ignored, whatever its depth
\* and its method.
PushUnique(v, d, m) ==
    \/ /\ Queue!Admit(v)
       /\ depth' = [depth EXCEPT ![v] = d]
       /\ method' = [method EXCEPT ![v] = m]
    \/ status[v] # "absent" /\ UNCHANGED <<status, depth, method>>

\* seed_with: each seed is probed, inserted and marked in turn.
AdmitSeed(v) ==
    /\ main = "seeding"
    /\ v \in seeding
    /\ seeding' = seeding \ {v}
    /\ IF v \in recent
       THEN UNCHANGED <<status, depth, method, recent>>
       ELSE PushUnique(v, 0, "auto") /\ Seen(v)
    /\ UNCHANGED <<attempts, delayed, main, current, tasks, finished, pages,
                   canRender, runs, defers, errors, saved, stranded>>

Goto(from, to) ==
    /\ main = from
    /\ main' = to
    /\ UNCHANGED <<queue, recent, seeding, canRender, runs, defers, errors, saved, stranded>>

Seeded ==
    /\ seeding = {}
    /\ Goto("seeding", "check")
    /\ UNCHANGED <<current, tasks, finished, pages>>

LimitReached == Limited /\ pages >= MaxPages

\* Top of the loop.
CheckLimit ==
    /\ Goto("check", IF LimitReached THEN "drain" ELSE "pop")
    /\ UNCHANGED <<current, tasks, finished, pages>>

\* pop takes a ready job; pages_admitted counts it.  There is one run loop,
\* so the count cannot exceed max_pages here and the drop branch is dead.
Pop(u) ==
    /\ main = "pop"
    /\ u \notin delayed
    /\ Queue!Dispatch(u)
    /\ current' = {u}
    /\ pages' = IF Limited THEN pages + 1 ELSE pages
    /\ main' = "permit"
    /\ UNCHANGED <<depth, attempts, method, delayed, recent, seeding, tasks, finished,
                   canRender, runs, defers, errors, saved, stranded>>

\* pop finds no ready job.
PopNone ==
    /\ Waiting \subseteq delayed
    /\ Goto("pop", "pending")
    /\ UNCHANGED <<current, tasks, finished, pages>>

\* Mutant of Exhausted: running tasks are not waited for.
ExhaustedEarly ==
    /\ Waiting = {}
    /\ Goto("pending", "drain")
    /\ UNCHANGED <<current, tasks, finished, pages>>

\* The task set is empty and nothing is pending, delayed or not: done.
Exhausted ==
    /\ JoinSetLen = 0
    /\ Waiting = {}
    /\ Goto("pending", "drain")
    /\ UNCHANGED <<current, tasks, finished, pages>>

Join == finished > 0 /\ finished' = finished - 1

\* Otherwise join a finished task if there is one, or sleep, and look again.
Idle ==
    /\ ~(JoinSetLen = 0 /\ Waiting = {})
    /\ Goto("pending", "check")
    /\ IF finished > 0 THEN Join ELSE UNCHANGED finished
    /\ UNCHANGED <<current, tasks, pages>>

\* A permit is free: the task of the popped job starts.
Spawn(u) ==
    /\ u \in current
    /\ Cardinality(Active) < MaxTasks
    /\ Goto("permit", "backpressure")
    /\ current' = {}
    /\ pc' = [pc EXCEPT ![u] = "fetch"]
    /\ UNCHANGED <<todo, child, verdict, finished, pages>>

\* At the concurrency cap the loop joins one finished task.
Backpressure ==
    /\ Goto("backpressure", "check")
    /\ IF JoinSetLen >= MaxTasks THEN Join ELSE UNCHANGED finished
    /\ UNCHANGED <<current, tasks, pages>>

\* Mutant of Drained: the tasks in flight are aborted.
DrainedAborting ==
    /\ Goto("drain", "ended")
    /\ finished' = 0
    /\ pc' = [u \in Urls |-> "none"]
    /\ UNCHANGED <<current, todo, child, verdict, pages>>

\* After the loop: join everything still in flight.
Drained ==
    /\ Active = {}
    /\ Goto("drain", "ended")
    /\ finished' = 0
    /\ UNCHANGED <<current, tasks, pages>>

-----------------------------------------------------------------------------
TaskGoto(u, from, to) ==
    /\ pc[u] = from
    /\ pc' = [pc EXCEPT ![u] = to]
    /\ UNCHANGED <<main, seeding, current, pages, canRender, runs>>

Decide(u, v) ==
    /\ verdict' = [verdict EXCEPT ![u] = v]
    /\ todo' = [todo EXCEPT ![u] = {}]
    /\ child' = [child EXCEPT ![u] = {}]

RetriesLeft(u) == attempts[u] + 1 < MaxRetries

\* A render job cannot run in a crawl started without a browser.
CanFetch(u) == method[u] = "auto" \/ canRender

\* What may come of a fetch other than a page: a skip or a hopeless error, an
\* error worth a retry, a bad status or proxy, an escalation.
Outcomes(u) ==
    {"drop"}
    \cup (IF RetriesLeft(u) THEN {"retry"} ELSE {})
    \cup (IF method[u] = "auto" THEN {"fail"} ELSE {})
    \cup (IF method[u] = "auto" /\ canRender THEN {"render"} ELSE {})

Refused(u) ==
    /\ TaskGoto(u, "fetch", "apply")
    /\ IF CanFetch(u) THEN \E v \in Outcomes(u) : Decide(u, v) ELSE Decide(u, "permanent")
    /\ UNCHANGED <<queue, recent, finished, defers, errors, saved, stranded>>

\* A render budget or the session depth is used up: not now.
Deferred(u) ==
    /\ CanFetch(u)
    /\ defers < DEFERS
    /\ defers' = defers + 1
    /\ TaskGoto(u, "fetch", "apply")
    /\ Decide(u, "defer")
    /\ UNCHANGED <<queue, recent, finished, errors, saved, stranded>>

\* The links that are followed: max_depth binds those of HTML pages only.
Followed(u) ==
    IF u \in Scripts \/ MaxDepth = NoLimit \/ depth[u] < MaxDepth THEN Links[u] ELSE {}

\* The page is here; its links are admitted one after another.
Fetched(u) ==
    /\ CanFetch(u)
    /\ TaskGoto(u, "fetch", "admit")
    /\ todo' = [todo EXCEPT ![u] = Followed(u)]
    /\ UNCHANGED <<queue, recent, child, verdict, finished, defers, errors, saved, stranded>>

\* Mutant of Probe: a URL is marked seen when it is probed.
ProbeAndMark(u, v) ==
    /\ v \in todo[u]
    /\ todo' = [todo EXCEPT ![u] = @ \ {v}]
    /\ IF v \in recent
       THEN TaskGoto(u, "admit", "admit") /\ UNCHANGED <<child, recent>>
       ELSE TaskGoto(u, "admit", "insert") /\ child' = [child EXCEPT ![u] = {v}] /\ Seen(v)
    /\ UNCHANGED <<queue, verdict, finished, defers, errors, saved, stranded>>

\* admit_frontier_url, up to the queue: a recent duplicate goes no further.
Probe(u, v) ==
    /\ v \in todo[u]
    /\ todo' = [todo EXCEPT ![u] = @ \ {v}]
    /\ IF v \in recent
       THEN TaskGoto(u, "admit", "admit") /\ UNCHANGED child
       ELSE TaskGoto(u, "admit", "insert") /\ child' = [child EXCEPT ![u] = {v}]
    /\ UNCHANGED <<queue, recent, verdict, finished, defers, errors, saved, stranded>>

\* The new job inherits the fetch method of the page it was found on.
InsertChild(u, v) ==
    /\ v \in child[u]
    /\ TaskGoto(u, "insert", "mark")
    /\ PushUnique(v, depth[u] + 1, method[u])
    /\ UNCHANGED <<attempts, delayed, recent, todo, child, verdict, finished,
                   defers, errors, saved, stranded>>

\* A failed insertion of a page's link fails the page's job with an error that
\* the policy does not retry; that of a script's endpoint is ignored.
InsertFails(u) ==
    /\ errors < ERRORS
    /\ errors' = errors + 1
    /\ IF u \in Scripts
       THEN /\ TaskGoto(u, "insert", "admit")
            /\ child' = [child EXCEPT ![u] = {}]
            /\ UNCHANGED <<todo, verdict>>
       ELSE TaskGoto(u, "insert", "apply") /\ Decide(u, "drop")
    /\ UNCHANGED <<queue, recent, finished, defers, saved, stranded>>

MarkSeen(u, v) ==
    /\ v \in child[u]
    /\ TaskGoto(u, "mark", "admit")
    /\ Seen(v)
    /\ child' = [child EXCEPT ![u] = {}]
    /\ UNCHANGED <<queue, todo, verdict, finished, defers, errors, saved, stranded>>

AllAdmitted(u) ==
    /\ todo[u] = {}
    /\ TaskGoto(u, "admit", "apply")
    /\ Decide(u, "complete")
    /\ UNCHANGED <<queue, recent, finished, defers, errors, saved, stranded>>

\* job_max_runtime_secs cancels the job at one of its await points.
TimeOut(u) ==
    /\ pc[u] \in {"fetch", "admit", "insert", "mark"}
    /\ TaskGoto(u, pc[u], "apply")
    /\ Decide(u, IF RetriesLeft(u) THEN "retry" ELSE "drop")
    /\ UNCHANGED <<queue, recent, finished, defers, errors, saved, stranded>>

\* Mutant of Requeue: the attempt is not counted.
RequeueUncounted(u, a, m) ==
    /\ Queue!Retry(u)
    /\ method' = [method EXCEPT ![u] = m]
    /\ delayed' \in {delayed, delayed \cup {u}}
    /\ UNCHANGED attempts

\* The queue operation of each disposition; a job that goes back may have
\* to wait for its delay.
Requeue(u, a, m) ==
    /\ Queue!Retry(u)
    /\ attempts' = [attempts EXCEPT ![u] = a]
    /\ method' = [method EXCEPT ![u] = m]
    /\ delayed' \in {delayed, delayed \cup {u}}

Resolve(u) ==
    \/ /\ verdict[u] \in {"complete", "drop"}
       /\ Queue!Finish(u)
       /\ UNCHANGED <<attempts, method, delayed>>
    \/ /\ verdict[u] = "permanent"
       /\ Queue!GiveUp(u)
       /\ attempts' = [attempts EXCEPT ![u] = @ + 1]
       /\ UNCHANGED <<method, delayed>>
    \/ /\ verdict[u] = "fail"
       /\ attempts[u] + 1 >= RetryMax
       /\ Queue!GiveUp(u)
       /\ attempts' = [attempts EXCEPT ![u] = @ + 1]
       /\ UNCHANGED <<method, delayed>>
    \/ verdict[u] = "fail" /\ attempts[u] + 1 < RetryMax /\ Requeue(u, attempts[u] + 1, method[u])
    \/ verdict[u] = "retry" /\ Requeue(u, attempts[u] + 1, method[u])
    \/ verdict[u] = "defer" /\ Requeue(u, attempts[u], method[u])
    \/ verdict[u] = "render" /\ Requeue(u, 0, "render")

\* The task ends; its place in the JoinSet stays taken until it is joined.
End(u) ==
    /\ TaskGoto(u, "apply", "none")
    /\ verdict' = [verdict EXCEPT ![u] = "drop"]
    /\ finished' = finished + 1

\* apply_job_disposition.
Apply(u) ==
    /\ End(u)
    /\ Resolve(u)
    /\ saved' = IF verdict[u] = "complete" THEN saved \cup {u} ELSE saved
    /\ UNCHANGED <<depth, recent, todo, child, defers, errors, stranded>>

\* The write fails: a warning is logged and the row stays in flight.
ApplyFails(u) ==
    /\ End(u)
    /\ errors < ERRORS
    /\ errors' = errors + 1
    /\ stranded' = stranded \cup {u}
    /\ UNCHANGED <<queue, recent, todo, child, defers, saved>>

\* A delay elapses.
Ripen(u) ==
    /\ u \in delayed
    /\ delayed' = delayed \ {u}
    /\ UNCHANGED <<status, depth, attempts, method, recent, main, seeding, current, tasks,
                   finished, pages, canRender, runs, defers, errors, saved, stranded>>

LoopStep ==
    \/ \E v \in Seeds : AdmitSeed(v)
    \/ Seeded \/ CheckLimit \/ PopNone \/ Exhausted \/ Idle \/ Backpressure \/ Drained
    \/ \E u \in Urls : Pop(u) \/ Spawn(u)

TaskStep(u) ==
    \/ Refused(u) \/ Deferred(u) \/ Fetched(u) \/ AllAdmitted(u) \/ InsertFails(u) \/ TimeOut(u)
    \/ Apply(u) \/ ApplyFails(u)
    \/ \E v \in Urls : Probe(u, v) \/ InsertChild(u, v) \/ MarkSeen(u, v)

Next == Start \/ Crash \/ LoopStep \/ \E u \in Urls : TaskStep(u) \/ Ripen(u)

Spec == Init /\ [][Next]_vars

\* The runtime polls the loop and every task, and time passes.  Nobody has
\* to start a crawl.
Fairness ==
    /\ WF_vars(LoopStep)
    /\ \A u \in Urls : WF_vars(TaskStep(u)) /\ WF_vars(Ripen(u))

FairSpec == Spec /\ Fairness

-----------------------------------------------------------------------------
\* A URL the recent set would drop is in the queue: the short cut in front
\* of the queue never loses a URL, whichever task is cancelled or fails
\* between the two, and whatever the capacity of the set makes it forget.
SeenIsAdmitted == \A u \in recent : status[u] # "absent"

\* The rows marked running are those of the popped job, of the running tasks,
\* and those whose last write failed: no task works on a job the queue could
\* hand out again, and no job waits for a task that does not exist.
TaskOwnsJob ==
    main # "down" =>
        /\ {u \in Urls : status[u] = "running"} = current \cup Active \cup stranded
        /\ current \cap Active = {}
        /\ stranded \cap (current \cup Active) = {}

\* The JoinSet never outgrows the concurrency cap.
JoinSetBounded == JoinSetLen <= MaxTasks

\* The loop dispatches at most max_pages jobs.
LimitHolds == Limited => pages <= MaxPages

\* A run that stops, at the page limit or with an empty queue, has handed
\* back every job it popped, but for those whose last write failed.
StopsClean == main = "ended" => {u \in Urls : status[u] = "running"} = stranded

\* A crawl that ran out of jobs left nothing behind: every seed and every
\* link to follow of every saved HTML page, of this run or of one that
\* crashed, has been processed to a final state, but for jobs whose last
\* write failed.
NothingLeftBehind ==
    main = "ended" /\ ~LimitReached =>
        \A u \in Seeds \cup UNION {Followed(s) : s \in saved \ Scripts} :
            status[u] \in {"done", "failed"} \/ u \in stranded

\* What is done stays followed: whatever was saved, all its links are admitted.
LosslessAdmission == \A s \in saved : \A u \in Followed(s) : status[u] # "absent"

\* A job runs no more often than the retry caps allow: what it has used up
\* stays within them while it is live.
AttemptsWithinCap ==
    \A u \in Urls : status[u] \in {"waiting", "running"} => attempts[u] < RetryMax

\* A crawl that is started ends, or its process dies.
RunEnds == main = "seeding" ~> main \in {"down", "ended"}
====
