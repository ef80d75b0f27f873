# crawlex: a TLA+ model of the crawl engine

crawlex is a web crawler with two fetch paths (an impersonating HTTP client and
a driven browser), a persistent frontier and a policy engine that retries,
escalates and defers jobs. This directory holds TLA+ models of the parts whose
correctness depends on the order in which things happen, TLC configurations
that check them on small instances, and proofs that TLAPS checks for every
value of the constants. Paths are relative to the repository (`src/` is the
crate).

## 1. Inventory

| component | state | operations | hard behaviour | what makes it correct |
|---|---|---|---|---|
| Run loop and jobs (`src/crawler.rs`) | JoinSet, semaphore, `pages_admitted`, one task per job | seed, pop, spawn, join, apply a disposition, time out, stop | tasks admit links while the loop decides whether the queue is exhausted; cancellation at any await; failed queue writes; restart | no URL is lost, a job has one owner, limits hold, a run ends and stops clean |
| Frontier dedupe (`src/frontier/dedupe.rs`) | recent set, bloom filter | probe, mark | cleared when full, empty after a restart, marked after the insertion | it never hides a URL the queue does not have |
| Queue contract (`src/queue/mod.rs`) | a status per canonical URL | push, pop, complete, fail, requeue | what every backend promises the loop | admitted once, dispatched to one task, never forgotten |
| SQLite queue (`src/queue/sqlite.rs`) | `jobs` table, unique index, writer thread | open with migration and reclaim, push, pop, complete, fail, requeue, purge | crashes, legacy tables, whole-second clock, id reuse, a second process | implements the contract; caps hold; no job leaves it unfinished |
| In-memory queue (`src/queue/inmemory.rs`) | ready heap, delayed heap, in-flight map under separate locks | same | operations interleave between locks; `fail` has no cap | same contract, without durability |
| RedDB queue (`src/queue/reddb.rs`), the default backend | a job table, a work queue of ids, a collection of seen URLs, two maps in memory | same | every operation is several queries without a transaction; ids start again in every process | a message finds its job, a URL is admitted once, nothing is lost |
| Render budgets (`src/scheduler.rs`) | four maps of atomic counters | `try_acquire`, drop of the guard | lock-free walks with an undo | caps at every instant, no leak, no underflow |
| Crawl pacing (`src/scheduler.rs`, `src/frontier/rate_limit.rs`) | last dispatch per site, depth per session, tokens per host | delay, observe, reset, acquire | read-modify-write per key from many tasks | spacing and caps per key |
| Policy engine (`src/policy/`) | none | pre-fetch, post-fetch, post-error, post-challenge decisions | boundaries of retry counts, precedence of rules | bounded retries, no escalation loop |
| Sessions and challenges (`src/identity/session_registry.rs`, `src/crawler.rs`) | a state per session in two maps, archive, render scope | register, promote, handle a challenge, sweep, flush at the end | three tasks evict, stale write-back after an await, cancellation while Chrome disposes | a blocked session goes, each entry is archived once, states only rise |
| Proxy router (`src/proxy/`) | score and quarantine per proxy, pins per host, marks of what is unsaved | pick, record outcome, drain, hydrate, health check | one lock at a time with a clock read before; lost writes; restart in whole seconds | no dead proxy is returned, what memory knows reaches the rows, a quarantine survives |
| Robots cache (`src/robots.rs`) | parsed file per host | fetch once, check | two tasks miss at once | a disallowed URL is not fetched |
| Storage (`src/storage/`) | SQLite tables, blob files | batched writer, reaper, queries | batches against flush and shutdown | an acknowledged write is there |
| Render and page pool (`src/render/`) | browsers and contexts by key, their locks, idle tabs and counters, an MRU list | find or launch, find or create, acquire, release, evict, drop a session | eviction and drops under running renders, locks that are removed while held, cancellation, dead Chromes | a tab has one user and its session's context; every browser can be evicted |
| Hooks bridge (`src/hooks/`, `sdk/`) | pending replies by id, two pipes, the SDK's loop | invoke, pump, time out, dispatch | late, missing or malformed replies, a full pipe, cancelled jobs, dead SDK | a reply reaches the call that asked, the map does not leak, an invocation ends |
| Script runner (`src/script/`) | step index, exports | run a spec | failure policy per step | order of steps and assertions |
| Spider (`src/scraping/`) | scheduler, checkpoint file | run, checkpoint, resume | crash between two checkpoints | resume repeats nothing it must not |
| Discovery, parsing, extraction | none | text to links and facts | - | pure functions |
| HTTP client, fingerprints, DevTools client, CLI, MCP, events, SDK | connections, tables | I/O | external systems | - |

How they interact: the run loop owns the process. It pops from the queue
(a request over a channel to the writer thread, or a lock), spawns a task per
job; a task calls the limiter, the robots cache, the session and pacing
registries and the budgets, fetches through the HTTP client or the page pool,
asks the policy engine, admits links through dedupe and queue, writes to
storage and hands the job back to the queue. Tasks share all of these; the
loop and the tasks share only the queue, the JoinSet and the semaphore.

## 2. Modules

| module | models | composed with |
|---|---|---|
| `Frontier` | the queue contract: the status of each canonical URL, one action per change | used by `CrawlRun`, implemented by `SqliteQueue` |
| `SqliteQueue` | the jobs table, its index, the processes that have it open | refines `Frontier` |
| `CrawlRun` | the run loop, its tasks, dedupe and restarts over a queue that is a `Frontier` | INSTANCE of `Frontier` |
| `ReddbQueue` | the three collections in RedDB, the loop and the tasks as far as they use the queue | - |
| `AtomicBudgets` | a budget grant as one step | - |
| `RenderBudgets` | `try_acquire` and the guard, one step per atomic access | refines `AtomicBudgets` |
| `PagePool` | idle tabs and counters of `render/page_pool.rs`, one step per lock or atomic access | extended by `RenderPool` |
| `RenderPool` | renders, eviction, `drop_session` over shared browsers | extends `PagePool`, refines `TabLease` |
| `TabLease` | what the page pool promises of a tab: opened for a key, lent, idle, closed | implemented by `RenderPool` |
| `Sessions` | both maps of session states, the sweep, the end of the run | - |
| `SqliteWriter` | the channel and the batches of the storage writer | extended by `ProxyRouter` |
| `ProxyRouter` | scores, picks, the flush loop, the rows, hydration | extends `SqliteWriter` |
| `HooksBridge` | the adapter, its pump, both pipes and the SDK | - |
| `*Proofs` | theorems of the module they are named after | - |
| `MC*` | the instances TLC checks | - |

### RenderBudgets

`count[d][k]` is the `AtomicUsize` of key k in dimension d (host, origin,
proxy, session). A task is in `try_acquire` (`pc = "bump"`), holds a guard
(`held`), or gives counters back (`release`, both for an undo and for the
guard's Drop). `lo..hi` are the dimensions it has bumped and not given back.
`Load` and `CompareExchange` are the load and the compare-and-swap of
`try_bump`; the weak form may also fail spuriously, which reloads the same
value and is a stutter. The rejection tallies feed metrics only and are left
out. Dimensions use different keys even when names coincide, as the code has
a map for each.

### SqliteQueue

`rows` is the table, a function from row ids to records. The writer thread
runs one statement (or one transaction) per request, so each operation is one
step. `canon` is the column canonical_url: NULL, the plain key, or the form with
the id that the migration gives a later row of the same URL. Opening takes four
steps, one per statement or transaction: `ReadUrls` (the SELECT, which leaves the
process with a `plan`), `Rewrite` (the UPDATEs by id), `CreateIndex` and
`Reclaim`; `opening[p]` says which is next. A conflict with the index, or
duplicates it cannot be made over, leave the process where it is: it can only die. A
process may `Die` at any time, which also stands for a regular exit and for a task that
is gone with its job in hand. `alone` is the history that no two processes ever used the
file at once, opening included. `Purge` is the CLI command, run by another
process. The answer of a statement may be lost when the caller is cancelled;
the statement is executed all the same, so this adds no behaviour of the table.
Ids are those of `INTEGER PRIMARY KEY`: one more than the largest in the table,
so an id is used again after a purge. Push batches commit together; the channel
is first in first out, so a batch is a sequence of inserts nobody sees the
middle of. `due` is a history field, the instant the caller asked for. A requeue
writes back the URL and the attempts of the job that was popped. With one process
these are the row's; with several (`Exclusive = FALSE`) the row may have been
reclaimed, purged and its id used again, and `JobKeys` and `JobAttempts` let the
job be any.

### ReddbQueue

`rows` is the job table, `waiting` and `delivered` are the messages of the work
queue that nobody read, and that were read and not acknowledged; `seen` is the
key/value collection. `in_flight` and `in_flight_messages` are the two maps of
`ReddbQueue`. A worker is between two queries of an operation: an admission goes
from `work` over `insert_new` and `push_new` to `mark`, a retry or a requeue
over `insert_again` and `push_again`, a job given up over `insert_dead` and
`push_dead`; `writing` is the row on its way. `Stop` forgets everything that is
not in the database and can come at any of these points; `Interrupted` is a
query that fails, or the job timeout in the middle of an admission.

RedDB is external and only assumed to be a store and a queue: any waiting
message may be read (so delays change nothing and are left out), a lookup with
`LIMIT 1` returns some row with that id, and each unacknowledged message
may or may not come back at the next start. Redelivery within one process and the
server's own dead-lettering after three attempts are not modelled. `complete` changes the two maps and then
acknowledges; these are one step, since nobody else looks at that message or at
that entry. The exact recent set in front of the queue and the page limit belong
to `CrawlRun`; without the set, an admission that it would
suppress is one that finds the URL marked. `pushed`, `resolved` and `lost` are history,
and so are the fields of a message other than its number and its id.

### CrawlRun

The queue is the contract, `status` and the columns the loop looks at. `main`
is the position of the run loop; `pc[u]` that of the task working on u, from
`fetch` over the admission of its links one by one (`admit`, `insert`, `mark`:
probe, push, mark_seen, with awaits between them) to `apply`. What a fetch
yields is nondeterministic: a page, a skip, an error worth a retry, a response
the policy retries through `fail`, an escalation to the browser, a deferral.
`TimeOut` is `job_max_runtime_secs`. `InsertFails` and `ApplyFails` are failed
queue writes, at most ERRORS of them. `Crash` is a kill of the process, or the
`?` after `pop`; `Start` opens the queue again, which reclaims, and seeds
again. `delayed` holds the jobs whose `not_before` lies ahead.

The bloom filter is absent: both of its answers lead to the same branch of
`admit_frontier_url` (only the exact set suppresses an insertion).
A child inherits the fetch method of its page and gets its depth plus one; a
key that is already in the queue keeps what it was admitted with.

### PagePool and RenderPool

A key is a pair of a browser (one per proxy) and a session. `idle[k]` and
`inFlight[k]` are the queue and the counter of `page_pool.rs`. `counters_for` clones
the `Arc` of a counter under the lock of the map, and the caller bumps it after that lock is
free: the lookup (`CountersFor`) and the bump (`Bump`) are two steps, and `arc[t]` is
the counter t refers to in between. `drop_context` empties the queue in one step and
takes the counter off the map in the next; references to it become `Detached` and a bump
through one changes no counter anybody will see. `try_acquire` keeps the lock of the queues from
its lookup to its bump, which `IdleFree` holds the other users of a queue to. An eviction
(`sweep`) and a `drop_session` go through these steps for each context. The stash of
`release` follows its decrement under another lock. Whether a tab is older than its time to live is left open at every look.
A render goes from `browser` over the launch lock, the launch, `book` (the MRU
list and the eviction, whose locks on other maps are the steps `forget` and
`prune`), `context` and its lock to the acquisition of a tab, which it resets or
opens and prepares (`install`) before a lease holds it. An instance of Chrome is a number;
`watched` are those a shim watcher holds, `live` the contexts Chrome still has.
`browserGen` and `contextGen` number the locks of the lock maps: a removed lock
is another one from then on, although somebody may hold the old. A `drop` is a
call of `drop_session`: by the sweep or by the handling of a block. Where a job
is cancelled at a later await, the failing step does the same.

`TabLease` is the abstract pool: `tabs[p]` says of the p-th tab ever opened whether it is lent (to
whom, for which key, for which time), idle for a key, or closed. `TabOf` reads this off the renders and
the queues; the two steps in which a lease ends (counter, then queue) are one `Return` or `Drop`,
at the step that lets the tab go. The locks, contexts, browsers and counters are not visible there.

### Sessions

`states` is `session_states` of the crawler, `registry` the state an entry of the
session registry has. A job of the run is a render that came back (`Rendered`) or
a challenge met over HTTP, whose sessions all share one id (`Fetched`). `read`,
`record`, `register`, `mark`, `scope`, `narrow`, `drop`, `evict` and `archive`
are the operations of `handle_challenge` and `evict_session` in their order. The
sweep lists what has expired and takes one entry after the other; `FlushStarts`
needs all jobs joined, as `run` does, and `RunReturns` aborts the sweep. Histories:
`created`, `archived` and `lost` count entries, `shared` and `cut` are the sessions
two jobs had in hand together, and whose eviction was cancelled.

### ProxyRouter and SqliteWriter

Time is in ticks, `Second` to a second, and is one for both clocks: the code
anchors the one in the other on each conversion. A score is the number of outcomes
folded into it (`folded`), so which live proxy is best is a free choice.
`record_outcome` reads the clock, then folds under the lock of the score, then
marks; `pick` reads the pin, then each proxy, then pins and pushes under two locks.
The flush loop takes a mark off and reads the score after it. `channel` and `batch`
are what the writer was handed and what its transaction contains; `OperationFails` ends
one operation of a batch in the middle, or the whole transaction. `scoreRows` and
`pinRows` are the tables; `exact` is the history of what was rounded. `Restart` is
any end of the process: nothing is flushed at an exit either. A task's `sick` are
the proxies that were dead from the start of its pick on.

### HooksBridge

`at[j]` is where `invoke` is in job j: writing the line, waiting under the
timeout, or between the timeout and the removal of its entry. `out` and `inp` are
stdout and stdin of the crawler; stdout also carries the events, and the SDK's
generator stops at each until its consumer asks for the next. A handler runs apart from the
reading loop, so replies come in any order. `HandlerMisreplies` is a patch the
crawler cannot parse, which ends the pump; `SdkEnds` closes both pipes.

Mutants (`...Late`, `...NoReclaim` and so on) stand next to the definition they
are a plausible bug of; no specification uses them.

## 3. Runs

| run | question | bounds |
|---|---|---|
| `budgets` | caps, exact counters, atomic grants | 3 tasks, 3 requests that share keys in different dimensions, limits of 1 and 2, symmetry of the tasks |
| `queue_fresh` | ownership, delays, refinement of `Frontier` | 2 URLs, 3 row ids, 3 ticks at 2 ticks a second, 2 priorities |
| `queue_legacy` | each row its own key and no job lost through openings cut short anywhere, caps with two processes at once | 2 URLs, 3 row ids, 2 processes, a cap of 1, every table with two rows of one URL in three states and a third row, symmetry of the processes |
| `reddb` | ids, acknowledgements and losses; row before message before mark | one URL with a link, 2 tasks, 2 starts, 2 ids each, 3 messages, 1 restart or 1 failed read or write of the collection |
| `reddb_requeue` | disagreement 1 of section 6 | one task, two starts |
| `page_pool` | one user and the right context per tab, counters, eviction, one launch per key | 2 permits, 3 renders, 2 browsers of which 1 may stay, 1 session, queues of 1, tabs of 2 uses, 1 dropped session or dead Chrome at any time, which counts as a render not begun, symmetry of tasks and browsers |
| `pool_eviction` | disagreement 2 of section 6 | the same |
| `sessions` | entries archived once, blocked ones gone, no job stuck, states and scope one way, both maps agree | 1 render session and the HTTP one, 5 kinds of signal, 2 jobs at a time and in all, 1 sweep, 1 fault |
| `proxy_router` | scores in memory reach their rows, no dead proxy returned, rows, quarantines and pins over a restart | 1 job, 1 checker, 2 proxies, 1 host, 3 calls, 1 tick of half a second, 1 fault or restart, a channel and batches of 1 |
| `hooks_bridge` | replies, the map of pending ones, invocations end | 2 jobs, 3 invocations, 2 events of which one is handled, a pipe of 2 lines, 2 events of the run, 2 faults |
| `crawl_safety` | nothing lost, one owner, the page limit, clean stop | 3 URLs of which one is a script, depth limit 1, page limit 4, 2 tasks, 2 starts, 1 failed write, a recent set of 2 |
| `crawl_live` | the crawl ends | a cycle of 2 pages, 3 attempts, 2 starts, 1 uncounted deferral |

Why the bounds suffice. Two tasks are enough for one to admit what another
processes, and with a cap of two tasks the loop has to wait for a permit and to
join; three URLs give a link that is reached from two pages at two depths; a
recent set smaller than the number of URLs is cleared in mid-crawl. Two starts
give a crash with a recovery. A page limit of 4 is reached by a crawl that retries,
and is not by one that does not, so that both ends of a run occur. In the queue,
three rows are a duplicate and a newcomer, an id is free for a newcomer after each purge of the
last row, and three ticks
at two a second put a delay on both sides of a second. In the RedDB run three
messages are two jobs and a retry, and two ids in each of two processes let both
ids be used twice. In the page pool the third render meets what the first two
left: an evicted browser, a tab in the queue; a dropped session is met by the render it interrupts
and by the next; two browsers with
room for one make every second launch an eviction. In the router two proxies give
a choice and an alternative, three calls two failures (a quarantine) and a pick,
and a restart meets rows with a quarantine that is not whole seconds away. Two jobs
are what it takes to race on a session, a scope or a reply. For most invariants the
proofs remove the bounds.

Deadlock checking is off in the crawl and RedDB runs only: a crawl that ended, or a
process that stopped, and may not start again has stopped for good. The other
models have a step `Done` (`Ended`) that is enabled only when everything that was begun is
over, so that a task that waits for ever would still be found.

## 4. Fairness

`FairSpec` of `CrawlRun` assumes that the run loop, each task and the clock keep
going: the tokio runtime polls every woken task, a fetch is bounded by the
client's and the job's timeout, and a `not_before` passes. It does not assume
that anybody starts a crawl, and not that a process crashes or a write fails.
`RunEnds` then says that a crawl ends; that deferrals (`DEFERS`) are finitely
many is part of it: a render budget or a session depth that refuses a job for
ever would keep it from ending. Crash is not needed for progress and ends the
run when it happens.

`FairSpec` of `Sessions` assumes that jobs, the sweep once it has started and the end
of the run once it has started go on. Neither needs a lock the other holds; Chrome and the storage answer or
fail, and nothing makes a sweep begin. `BlockedIsEvicted` excludes a job that is cancelled
while Chrome disposes of its contexts (`cut`): its entry waits for the next sweep. Weak fairness
gets a job on only if its next step is enabled at all; `JobsGoOn` says that it always
is, also when the sweep or the end of the run took the entry away before it.

`FairSpec` of `HooksBridge` assumes that jobs are polled (so a timeout fires), that
the SDK's loop reads and that its consumer keeps asking for events. Handlers and the pump owe nothing:
`InvocationEnds` holds with a handler that hangs and a pump that has stopped. The
assumption about the consumer is needed, since the write to stdout is outside the
timeout (section 6).

## 5. Proofs

Assumptions are those of the modules (`BudgetAssumption`, `QueueAssumption`,
`CrawlAssumption`, `ReddbAssumption`, `BridgeAssumption`,
`SessionsAssumption`, `PoolAssumption`, `RenderAssumption`,
`WriterAssumption`, `RouterAssumption`). They come from the code: at least one slot in the JoinSet,
and the policy's `max_retries` no larger than the queue's cap, which
`Crawler::new` and `with_policy_profile` enforce (`src/crawler.rs:293`, `:377`).

`RenderBudgetsProofs`. The inductive invariant says of each task at which
point of the walk `lo..hi` may be, and that each counter is the number of walks
that contribute to it. `WithinLimits` alone is not inductive: a compare-and-swap
needs to know that the value it compares with is below the limit. The refinement
maps a step of the walk to a grant exactly when the last dimension is bumped; that
every dimension has a free slot then follows from the exact counters.

`SqliteQueueProofs`. As long as processes took turns (`alone`), the invariant says that held
rows are in_flight rows, that only one process holds any, and that what a process read of the
table (`plan`) is still true of every row there is when it writes: a purge may have taken
rows, nobody added one (`Migrating`). So a `Rewrite` gives each row a form of its own key,
whatever the forms were before, and `KeysUnique` follows for any table of an older build.
`JobsSurvive` follows too: a purge leaves live rows alone, opening keeps the key of every
row, and what a task writes back is the URL it popped. Both theorems let any number of
processes use the file and say `alone` in the property; without it the stale plan of section 6 is
a counterexample. For a file that starts empty and `Exclusive`, no row is ever renamed, so key
and row determine each other, which gives ownership and the refinement;
`FinishedStays` is then a fact about `Frontier` alone. These theorems state their
premises as assumptions: without them the cases of section 6 are counterexamples.
Two theorems need none of it: `AttemptsWithinCap` and `AtMostASecondEarly` hold for
any number of processes on one file at once, since `TableInv` says of each row, whoever
wrote it and by whatever plan, that its attempts are within the
cap while it is live and that its `not_before` was rounded by less than a second.
For the delays of rows an older build left the same is the assumption
`LegacyTimely`; without legacy rows it is true.

`CrawlRunProofs`. The invariant has a part for the loop (what it holds at each
position, and that room is left in the JoinSet), one for the tasks (a link
being marked is in the queue; the links a task still owes), one for retry
counts and one for the links of saved pages. `NothingLeftBehind` follows at the
end of the run from the last one and from the empty queue. `LosslessAdmission`
is proved without scripts, for which it is false. `SpecQueue` maps every step to one of `Frontier`
or a stutter, and `ProcessedOnce` follows for every URL and all
runs. That a crawl ends stays with TLC, but what bounds it is proved:
`Fuel` adds up the tries a job has left, those of a render it may still be escalated to
included; `FuelBurns` says that every return to the queue uses one up, unless the job was
deferred or its run crashed, and `FuelLeft` that nobody runs without.

`ReddbQueueProofs`. The invariant has seven parts next to `TypeOK`: `Equipped` (a worker has a job or a
row to write exactly at the points that need one), `Ordered` (the row of a message exists,
also while the push is under way, and what is marked was pushed), `Numbered`
(messages have distinct numbers), `OneUrlPerId` (in the first process everything
that carries one id, in the database or in memory, is of one URL and the id
below `next_id`), `NoneForgotten` (each marked URL is carried by something), `Alone` (in the
first process an id is in one place only: a message still to be answered, a worker's job, or
a row on its way into the queue) and `Newest` (what the process has in hand is the
youngest message of its id). A failed job is pushed again under its id, while its message
stays unacknowledged; `AnswersItsOwn` follows since only the one who holds an id can push it
again, and a push takes a number above all others.
`OnlyRequeueLoses` needs `OneUrlPerId`: that an
acknowledgement takes the message of its own URL away follows from nothing
less. `MessageHasRow` and `MarkedIsPushed` hold for any number of restarts; the
others are stated for `runs = 1` because a restart refutes them (section 6).
`FailFindsItsOwn` adds to the invariant that whoever has a job is entered under its id
in `in_flight` with that very job, which `Alone` keeps. `AcknowledgedIsGone`
holds over any restart, since a push numbers its message anew.

`HooksBridgeProofs`. The invariant has a part for calls (every call that is in a
pipe, a handler or a job has an id below `next_id`, and one id belongs to one job), one
for entries (an entry of the map is under the id of its job's call, or of one that was
cancelled or not sent) and one for lines (an id is in one place only: the pipe out, a
handler, the pipe in, or done). `AnswersItsOwn` needs that the entry a reply finds
was made by the call the reply names; `OnlyLateDropped` needs that a reply on its
way still has its entry unless the invocation timed out, and so that no second reply
of one id exists. `CallsGoOnward` numbers these places (`Stage`) and says that no step takes a
call back: each step moves calls from one place to the next or drops them (`Moves`).

`SessionsProofs`. `MapsAgree` speaks of sessions that nobody has in hand, so the
invariant adds what the maps say in the middle of `handle_challenge` (`MapsFollow`), what a job
has read of a session (`ReadIsFresh`: no other job changes it unless both have it in
hand, which `SharedKnown` records) and `MarkedIsRegistered`. `ArchivedOnce` follows from `Balanced`: the
entries created are those registered, in the hands of one of the three that archive, archived or lost. `BlockedIsTaken` (a blocked entry is in the hands of a job that will evict it, or
that job was cut) is the invariant under the liveness property; `FlushFollows` holds the
end of the run back until the jobs are joined. `BlockedLeaves` proves that property: a
job that owes an eviction (`Owes`) is at `scope`, `narrow`, `drop` or `evict`, stays there
until it moves to a later one, and weak fairness of its own steps makes it move
(`OneJobEvicts`); fairness of the sweep and of the end of the run is not used. Its premise `[]JobsGoOn` is
about `ENABLED`, which the prover cannot expand; the run `sessions` checks it.

`RenderPoolProofs`. `OncePerKey` (one launch per browser, one creation per
context) is not inductive: a lock that was removed from its map while somebody holds it excludes
nobody. `LaunchFresh` says that whoever waits for or holds the launch lock of a browser that
is not evicted has the lock the map has, `LaunchExcl` that one lock has one holder, and
`LaunchPending`, `VictimEvicted`, `NoneLaunched` what an eviction in progress has done so far;
`ContextInv` repeats this for contexts with `drop_session` in the place of the eviction.
`CountsBalance` speaks of leases, but the bump of a counter may go where the map has another by then.
`ArcOwn` says that a counter somebody looked up is that of the task's own key, or detached, and then the
key's browser was evicted or its session dropped; `SweepEvicted` and `DropIsDropped` say the same of
the contexts an eviction or a drop is about to take. `Balanced` is the inequality (and, for keys to
which none of this happened, the equation) for the leases whose release does not hold a detached
counter (`Held`): a release that does takes nothing from the map, and one whose counter was dropped
under it takes one too many.
`PageHeldOnce` needs `TabsKnown` (new tabs have new numbers), `OwnContext` needs
`TabsOwned` (the context in which each tab in a queue or in hand was opened). `OwnProxy` follows
the instances of Chrome instead (`ProxyInv`): those registered, those held by a render and those
a context was created in are numbers in `home`, which remembers the proxy of each launch.
`TabsAreLeased` is the refinement of `TabLease`: `LeaseSteps` sorts the steps of all actors by what
they do to tabs (none, queues emptied, a lease that ends, a tab opened, stashed or taken), and for each sort a lemma
compares the mapping before and after (`TabsRead`: one holder or one place in one queue per tab, from
`PageHeldOnce` and `TabsKnown`). The room for a `Return` is counted in
tabs, of which a key has no more idle ones than places in its queue (`IdleCounted`). `TabsMoveOnward` is then a fact about
`TabLease`. `RegistryIsBounded` counts what `RegisteredIsTracked` says: the mru list without
repetitions, and the renders at `book`.

`ProxyRouterProofs`. The first half is about `After`, what a list of operations leaves in a
row: operations in turn (`AfterConcat`), rows in turn (`RowsJoined`, `RowAdded`), the part of
an operation before a row that fails (`AfterCut`). With it each step of the flush loop and of the writer leaves what
a row will hold in the end (`Due`, `PinDue`) as it was, unless a row of the key is
lost. `ScoresReachTheirRows` needs `Shape` (what the loop has in hand at which point), `Quiet` (before the
hydration is over nothing is on its way and nobody picks) and `Early` (what the checker
folded before it is marked). `PinsReachTheirRows` needs `PushIsPin`: who is about to push
pushes the pin the table has. `RowsNeverGoBack` needs that the counts on their way rise
from the row to the score (`Rising`), since a transaction may end after any of them.
`QuarantinesSurvive` and `QuarantinesKept` need `Windows`: wherever the end of a quarantine is, in
memory, in the loop, in the channel or in a row, it was no later than `ChallengeQuarantine` from the
clock when it was set or packed, and rounding to seconds and back never makes it longer (`Rounding`).

Only model-checked: the liveness properties `RunEnds` and `InvocationEnds`, whose
proof is an induction over what is left to do (the fuel of all jobs, the lines ahead in the pipe) that
no installed prover can do, and `JobsGoOn`, which is about `ENABLED`. All other
properties of the passing runs are theorems.

Only proved, since the theorem says more than another run would: the type invariants,
`LimitHolds`, `JoinSetBounded`, `LosslessAdmission`, `AttemptsWithinCap`, `EscalatesOnce`,
`FuelLeft`, `FuelBurns`, `ProcessedOnce` and the use of `Frontier` by `CrawlRun`, `FinishedStays` of
`SqliteQueue`, `FailFindsItsOwn` and `AcknowledgedIsGone` of `ReddbQueue`,
`BlockedIsTaken` of `Sessions`, `IdleReusable` of `PagePool`, `OwnProxy`, `BrowsersBounded` and
`ImplementsTabLease` of `RenderPool` (TLC finds the mapping to hold
on the instance of `page_pool`, where it would quadruple the time of the run), `TabsGoOnward` of `TabLease`,
`CallsGoOnward` and `InOnePlace` of `HooksBridge`.

## 6. Where code and documentation disagree

Two of these have a run of their own:

1. `reddb_requeue`: a crash inside a requeue loses the URL (`src/queue/reddb.rs:140`).
2. `pool_eviction`: the shim watcher of a browser holds it, so eviction does not
   release its Chrome process (`src/render/pool.rs:1600`, against the comment at 1654).

The models behave like the code in these as well, and the properties leave the case out
or the text tells it:

- `max_pages` counts dispatched jobs, not pages saved (`src/crawler.rs:1333`, against
  `src/config.rs:325`); a failed insertion of an endpoint mined from a script is
  ignored (`src/crawler.rs:2903`), so `LosslessAdmission` is proved without scripts.
- RedDB: two tasks may admit one URL (`src/queue/reddb.rs:127`, against
  `docs/adr/0005`), and after a restart an id may lead to the job of another URL
  (`src/queue/reddb.rs:277`, against the comment at 77); a lookup may return a
  retried job with its old attempt count, so `Load` takes any row of the id.
- SQLite queue: a legacy duplicate whose requeue the unique index rejects keeps its
  row in_flight (`RequeueRejected`); after a purge and a new admission its file cannot
  be opened (`RewriteConflicts`: the older duplicate is to get the plain key, which the newer
  row still has); a delay may end up to a second early
  (`src/tests/queue_delay.rs:57` expects more), which `AtMostASecondEarly` allows. A
  second process on one file takes over live jobs (`Exclusive = FALSE`), and whoever lost one
  may requeue it over a row that has become another URL's. If two open the file at once, one may
  write the canonical_url it planned for a row to another URL's that got the id after a purge
  (`src/queue/sqlite.rs:184`), so that the other URL's key is free and the wrong one is refused. Delays are
  kept and no row is past the retry cap, which is proved; who owns a row, which key it has,
  and that no URL is lost, is not kept.
- Page pool: `drop_context` removes a counter under running renders, and between the lookup
  of a counter and its bump, although `src/render/page_pool.rs:19-22` says that "in-flight never
  races with drop". The tab's release then takes the next counter of the key below
  zero, modulo 2^64. `CountsBalance` therefore bounds the counters from above everywhere, by
  what is out and what an error between registration and lease leaked, and is exact only where nothing was
  evicted or dropped. Their sum is read for a metric only.
- Sessions: `decide_post_challenge` does for a challenge page on a clean session what
  its documentation says of a warm one (`src/policy/engine.rs:279`, and `ReopenBrowser` at
  313), and gives up where it says reopen (318); the registry is not the single source of
  truth its header claims, since eviction leaves `session_states` alone.
- Proxy router: `unix_to_instant` does not clamp a past time to now, as its comment
  says (`src/proxy/router.rs:507`); a time that is over has the same effect on `is_alive`.
  `last_success_at`, for which it matters, is not modelled.
- Hooks bridge: an invocation also blocks while the pipe is full, which no timeout
  bounds (`src/hooks/bridge.rs:300`, against 117-118); `with_hooks` replaces the
  registry that the comment above it wants to augment (`src/cli/mod.rs:1418`).

## 7. Left out, and the plan

Left out of `CrawlRun`: seeding from crt.sh, robots files, sitemaps and host
probes (more admissions through the same function), a failed `pending_count`,
which counts as an empty queue, a panic in a task (its row stays in_flight until
the next start), and a purge during the crawl (it is in `SqliteQueue`). A
cancelled insertion that was already sent to the writer is executed before
anything the loop sends later, as if it had preceded the cancellation.

Left out of the other models: what a render does with its tab, persisted session
state and external CDP (`RenderPool`); counters, proxy history, cookie pins and bypass levels
(`Sessions`); the formula of the composite score, `evict` and `reinstate`, which
nothing calls (`ProxyRouter`); the Lua host, the order in which `fire_all` asks the kinds of
hooks, and half a line left by a cancelled write (`HooksBridge`). A second `run` of one `Crawler`
would start a second flush loop; the command line never does.

Not modelled: discovery, parsing and extraction are functions of text; the HTTP
client, fingerprints, the DevTools client and its generated protocol (more than half of
the lines of the crate) are wire formats and tables; the CLI, configuration, MCP and
events are argument mapping and output. There is no state there whose order matters.

Hazards the code has and no property covers: the owners of rows that two processes
on one SQLite file both hold, and the URLs one overwrites; a failed `pending_count`, taken for an empty queue; in RedDB the redelivery of messages, the lookup of an
older row of an id and priorities that are not sent; a Chrome that died and stays registered; two
`drop_session` calls for one session at once; a session the sweep listed and a
job has used since; the registry forgetting that a session was blocked; rows of the last
interval that no flush writes at the end; what the health checker folded before the hydration, which overwrites it; a 404 that counts as a failure of the
proxy and renews its quarantine; events before the SDK subscribes.

For later work, in this order:

1. `InMemoryQueue`: the locks of `src/queue/inmemory.rs`, against `Frontier`; the
   missing retry cap.
2. Ownership with two processes on one SQLite file (jobs held by both), if the
   code is to allow it.
3. The composition of `Sessions` with `RenderPool`: both maps and the contexts.
4. `Pacing`: inter-arrival jitter, session depth, rate limiter.
5. `SpiderCheckpoint` and `RobotsCache`.
