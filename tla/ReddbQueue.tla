---- MODULE ReddbQueue ----
(***************************************************************************)
(* The job queue over RedDB (src/queue/reddb.rs), the default backend, and *)
(* the crawler that uses it.  A job is three things in the database: a row *)
(* of a table, a message that holds its id, and a mark of its URL in a     *)
(* key/value collection.  No transaction ties them together, so every      *)
(* query is a step of its own; the process, or the task that makes the     *)
(* query, may be gone before the next one.  RedDB itself is external: it   *)
(* may deliver any waiting message, a lookup by id may return any row of   *)
(* that id, and what was read and not acknowledged may or may not be       *)
(* delivered again to the next process.                                    *)
(***************************************************************************)
EXTENDS Integers

CONSTANTS
    Keys,       \* canonical URL identities
    Seeds,      \* those the crawl is started with
    Links,      \* Links[k]: the URLs page k yields
    Main,       \* the run loop
    Tasks,      \* the tasks it spawns
    NoJob,
    RetryMax,   \* retries the policy grants (and a bound: a proxy switch has no cap)
    RUNS,       \* bounds of the model: process starts,
    MAX_IDS,    \* job ids of one process,
    MAX_MESSAGES,
    FAULTS      \* failed reads of the key/value collection

ASSUME ReddbAssumption ==
    /\ Seeds \subseteq Keys
    /\ Links \in [Keys -> SUBSET Keys]
    /\ Main \notin Tasks
    /\ NoJob \notin [id : Nat, key : Keys, attempts : Nat]
    /\ RetryMax \in Nat
    /\ RUNS \in Nat /\ MAX_IDS \in Nat /\ MAX_MESSAGES \in Nat /\ FAULTS \in Nat

VARIABLES
    rows,       \* crawlex_frontier_jobs
    waiting,    \* messages of crawlex_frontier nobody has read
    delivered,  \* messages that were read and not acknowledged
    dead,       \* ids in crawlex_dead_letter
    seen,       \* crawlex_frontier_seen
    next_id,    \* memory of the process: its job ids,
    in_flight,  \* jobs by id,
    in_flight_messages, \* the message each was read from, by id,
    pc,         \* where each worker is,
    job,        \* the job it works on,
    owes,       \* the URLs it still has to admit,
    writing,    \* the row it is putting in the queue,
    reading,    \* {m} while pop has read m and not looked up its row;
    runs, faults,
    pushed,     \* history: the messages ever pushed,
    resolved,   \* URLs whose job was completed or given up,
    lost        \* and those of jobs whose requeue was cut short

store   == <<rows, waiting, delivered, dead, seen>>
memory  == <<next_id, in_flight, in_flight_messages, pc, job, owes, writing, reading>>
history == <<pushed, resolved, lost>>
vars == <<rows, waiting, delivered, dead, seen, next_id, in_flight, in_flight_messages,
          pc, job, owes, writing, reading, runs, faults, pushed, resolved, lost>>

Workers == Tasks \cup {Main}

\* PersistedJob, without what the queue does not look at.
Job == [id : Nat, key : Keys, attempts : Nat]

\* In the database a message is its number and an id.  The other fields are
\* history: the job it was pushed for, and whether by an admission.
Message == [number : Nat, id : Nat, key : Keys, attempts : Nat, new : BOOLEAN]

\* A worker that is up is idle, at work on a page (the loop: on its seeds),
\* or between two queries of a queue operation.
Admitting == {"insert_new", "push_new", "mark"}
HandingBack == {"insert_again", "push_again", "insert_dead", "push_dead"}
Places == {"down", "idle", "work", "load", "permit"} \cup Admitting \cup HandingBack

TypeOK ==
    /\ rows \subseteq Job
    /\ waiting \subseteq Message
    /\ delivered \subseteq Message
    /\ dead \subseteq Nat
    /\ seen \subseteq Keys
    /\ next_id \in Nat
    /\ DOMAIN in_flight \subseteq Nat
    /\ in_flight \in [DOMAIN in_flight -> Job]
    /\ \A i \in DOMAIN in_flight : in_flight[i].id = i
    /\ DOMAIN in_flight_messages \subseteq Nat
    /\ in_flight_messages \in [DOMAIN in_flight_messages -> Nat]
    /\ pc \in [Workers -> Places]
    /\ job \in [Workers -> Job \cup {NoJob}]
    /\ owes \in [Workers -> SUBSET Keys]
    /\ writing \in [Workers -> Job \cup {NoJob}]
    /\ reading \subseteq Message
    /\ runs \in Nat /\ faults \in Nat
    /\ pushed \subseteq Message
    /\ resolved \subseteq Keys
    /\ lost \subseteq Keys

-----------------------------------------------------------------------------
Empty == [i \in {} |-> NoJob]
Put(f, i, v) == [j \in DOMAIN f \cup {i} |-> IF j = i THEN v ELSE f[j]]
Without(f, i) == [j \in DOMAIN f \ {i} |-> f[j]]

Nowhere == [w \in Workers |-> NoJob]

Init ==
    /\ rows = {} /\ waiting = {} /\ delivered = {} /\ dead = {} /\ seen = {}
    /\ next_id = 1
    /\ in_flight = Empty /\ in_flight_messages = Empty
    /\ pc = [w \in Workers |-> "down"]
    /\ job = Nowhere /\ writing = Nowhere
    /\ owes = [w \in Workers |-> {}]
    /\ reading = {}
    /\ runs = 0 /\ faults = 0
    /\ pushed = {} /\ resolved = {} /\ lost = {}

\* A crawler opens the queue.  Job ids start at 1 in every process.
Start ==
    /\ pc[Main] = "down"
    /\ runs < RUNS
    /\ runs' = runs + 1
    /\ \E back \in SUBSET delivered :
          waiting' = waiting \cup back /\ delivered' = delivered \ back
    /\ next_id' = 1
    /\ pc' = [w \in Workers |-> IF w = Main THEN "work" ELSE "idle"]
    /\ owes' = [w \in Workers |-> IF w = Main THEN Seeds ELSE {}]
    /\ UNCHANGED <<rows, dead, seen, in_flight, in_flight_messages, job, writing, reading,
                   faults, history>>

\* The requeues that have acknowledged the old message and not pushed the new.
CutShort(W) == {writing[w].key : w \in {v \in W : pc[v] \in {"insert_again", "push_again"}}}

\* The process exits or dies.
Stop ==
    /\ pc[Main] # "down"
    /\ next_id' = 1
    /\ in_flight' = Empty /\ in_flight_messages' = Empty
    /\ pc' = [w \in Workers |-> "down"]
    /\ job' = Nowhere /\ writing' = Nowhere
    /\ owes' = [w \in Workers |-> {}]
    /\ reading' = {}
    /\ lost' = lost \cup CutShort(Workers)
    /\ UNCHANGED <<store, runs, faults, pushed, resolved>>

Fault == faults < FAULTS /\ faults' = faults + 1

Goto(w, from, to) == pc[w] = from /\ pc' = [pc EXCEPT ![w] = to]

\* Mutant of TakeId: the counter is read and not advanced.
TakeIdTwice == next_id <= MAX_IDS /\ UNCHANGED next_id

TakeId == next_id <= MAX_IDS /\ next_id' = next_id + 1

-----------------------------------------------------------------------------
\* Mutant of Probe: a URL is marked as soon as it is known to be new.
ProbeAndMark(w, k) ==
    /\ k \in owes[w] \ seen
    /\ owes' = [owes EXCEPT ![w] = @ \ {k}]
    /\ TakeId
    /\ Goto(w, "work", "insert_new")
    /\ writing' = [writing EXCEPT ![w] = [id |-> next_id, key |-> k, attempts |-> 0]]
    /\ seen' = seen \cup {k}
    /\ UNCHANGED <<rows, waiting, delivered, dead, in_flight, in_flight_messages, job, reading,
                   runs, faults, history>>

\* push_unique, up to its first query: what the collection has is a
\* duplicate; a read that fails counts as a miss.
Probe(w, k) ==
    /\ k \in owes[w]
    /\ owes' = [owes EXCEPT ![w] = @ \ {k}]
    /\ TakeId
    /\ \/ /\ k \in seen
          /\ Goto(w, "work", "work")
          /\ UNCHANGED <<writing, faults>>
       \/ /\ IF k \in seen THEN Fault ELSE UNCHANGED faults
          /\ Goto(w, "work", "insert_new")
          /\ writing' = [writing EXCEPT ![w] = [id |-> next_id, key |-> k, attempts |-> 0]]
    /\ UNCHANGED <<store, in_flight, in_flight_messages, job, reading, runs, history>>

\* Mutant of Insert: the row is left for later.
InsertLater(w) ==
    /\ Goto(w, "insert_new", "push_new") \/ Goto(w, "insert_again", "push_again")
    /\ UNCHANGED <<store, next_id, in_flight, in_flight_messages, job, owes, writing, reading,
                   runs, faults, history>>

\* push_with_delay: the row, then the message with its id.
Insert(w) ==
    /\ \/ Goto(w, "insert_new", "push_new")
       \/ Goto(w, "insert_again", "push_again")
       \/ Goto(w, "insert_dead", "push_dead")
    /\ rows' = rows \cup {writing[w]}
    /\ UNCHANGED <<waiting, delivered, dead, seen, next_id, in_flight, in_flight_messages,
                   job, owes, writing, reading, runs, faults, history>>

IsNextNumber(n) ==
    /\ n \in {1} \cup {m.number + 1 : m \in pushed}
    /\ \A m \in pushed : m.number < n

Push(w) ==
    /\ \/ Goto(w, "push_new", "mark") /\ UNCHANGED writing
       \/ Goto(w, "push_again", "idle") /\ writing' = [writing EXCEPT ![w] = NoJob]
    /\ \E n \in 1..MAX_MESSAGES :
        /\ IsNextNumber(n)
        /\ LET m == [number |-> n, id |-> writing[w].id, key |-> writing[w].key,
                     attempts |-> writing[w].attempts, new |-> pc[w] = "push_new"]
           IN  waiting' = waiting \cup {m} /\ pushed' = pushed \cup {m}
    /\ UNCHANGED <<rows, delivered, dead, seen, next_id, in_flight, in_flight_messages,
                   job, owes, reading, runs, faults, resolved, lost>>

\* The end of push_unique; a write that fails is ignored.
Mark(w) ==
    /\ Goto(w, "mark", "work")
    /\ writing' = [writing EXCEPT ![w] = NoJob]
    /\ \/ seen' = seen \cup {writing[w].key} /\ UNCHANGED faults
       \/ Fault /\ UNCHANGED seen
    /\ UNCHANGED <<rows, waiting, delivered, dead, next_id, in_flight, in_flight_messages,
                   job, owes, reading, runs, history>>

-----------------------------------------------------------------------------
\* The seeds are in: the loop pops.
Seeded ==
    /\ owes[Main] = {}
    /\ Goto(Main, "work", "idle")
    /\ UNCHANGED <<store, next_id, in_flight, in_flight_messages, job, owes, writing, reading,
                   runs, faults, history>>

\* Mutant of Read: the message is taken from the queue for good.
ReadAndForget(m) ==
    /\ m \in waiting
    /\ Goto(Main, "idle", "load")
    /\ waiting' = waiting \ {m}
    /\ reading' = {m}
    /\ UNCHANGED <<rows, delivered, dead, seen, next_id, in_flight, in_flight_messages, job, owes,
                   writing, runs, faults, history>>

\* pop: QUEUE READ, any message that is due.
Read(m) ==
    /\ m \in waiting
    /\ Goto(Main, "idle", "load")
    /\ waiting' = waiting \ {m}
    /\ delivered' = delivered \cup {m}
    /\ reading' = {m}
    /\ UNCHANGED <<rows, dead, seen, next_id, in_flight, in_flight_messages, job, owes, writing,
                   runs, faults, history>>

\* Mutant of Load: a message already noted for that id stays.
LoadKeepsMessage(r) ==
    /\ Goto(Main, "load", "permit")
    /\ r \in rows
    /\ \E m \in reading :
        /\ r.id = m.id
        /\ in_flight' = Put(in_flight, r.id, r)
        /\ in_flight_messages' = IF r.id \in DOMAIN in_flight_messages THEN in_flight_messages
                                 ELSE Put(in_flight_messages, r.id, m.number)
    /\ job' = [job EXCEPT ![Main] = r]
    /\ reading' = {}
    /\ UNCHANGED <<store, next_id, owes, writing, runs, faults, history>>

\* load_job, LIMIT 1: a row of that id.
Load(r) ==
    /\ Goto(Main, "load", "permit")
    /\ r \in rows
    /\ \E m \in reading :
        /\ r.id = m.id
        /\ in_flight' = Put(in_flight, r.id, r)
        /\ in_flight_messages' = Put(in_flight_messages, r.id, m.number)
    /\ job' = [job EXCEPT ![Main] = r]
    /\ reading' = {}
    /\ UNCHANGED <<store, next_id, owes, writing, runs, faults, history>>

\* The popped job gets a task, which fetches the page and has links to admit.
Spawn(t) ==
    /\ pc[Main] = "permit"
    /\ pc[t] = "idle"
    /\ pc' = [pc EXCEPT ![Main] = "idle", ![t] = "work"]
    /\ job' = [job EXCEPT ![Main] = NoJob, ![t] = job[Main]]
    /\ owes' = [owes EXCEPT ![t] = Links[job[Main].key]]
    /\ UNCHANGED <<store, next_id, in_flight, in_flight_messages, writing, reading,
                   runs, faults, history>>

-----------------------------------------------------------------------------
\* Task t hands its job back; links of the page that it has not admitted
\* by then it never will.
Leave(t, to, row) ==
    /\ Goto(t, "work", to)
    /\ job' = [job EXCEPT ![t] = NoJob]
    /\ owes' = [owes EXCEPT ![t] = {}]
    /\ writing' = [writing EXCEPT ![t] = row]
    /\ UNCHANGED <<rows, waiting, dead, seen, reading, runs, faults, pushed, lost>>

Removed(id) ==
    /\ in_flight' = Without(in_flight, id)
    /\ in_flight_messages' = Without(in_flight_messages, id)

\* The message that complete acknowledges.
Answered(id) ==
    {m \in delivered : id \in DOMAIN in_flight_messages /\ m.number = in_flight_messages[id]}

Acknowledge(id) ==
    /\ Removed(id)
    /\ delivered' = delivered \ Answered(id)

AcknowledgeFails(id) == Removed(id) /\ UNCHANGED delivered

Complete(t) ==
    /\ Leave(t, "idle", NoJob)
    /\ Acknowledge(job[t].id) \/ AcknowledgeFails(job[t].id)
    /\ resolved' = resolved \cup {job[t].key}
    /\ UNCHANGED next_id

\* requeue_after: complete, then push.  Another attempt keeps the id of the
\* job; an escalation to the browser and a deferral take a new one.
Requeue(t) ==
    /\ UNCHANGED resolved
    /\ \/ /\ job[t].attempts < RetryMax
          /\ Leave(t, "insert_again", [job[t] EXCEPT !.attempts = @ + 1])
          /\ Acknowledge(job[t].id)
          /\ UNCHANGED next_id
       \/ /\ TakeId
          /\ \E a \in {0, job[t].attempts} :
                Leave(t, "insert_again", [job[t] EXCEPT !.id = next_id, !.attempts = a])
          /\ Acknowledge(job[t].id)
       \/ /\ Leave(t, "idle", NoJob)
          /\ AcknowledgeFails(job[t].id)
          /\ UNCHANGED next_id

\* fail and fail_permanently know the job from in_flight, and do nothing
\* when it is not there.  Neither acknowledges the message.
Forgotten(t) ==
    /\ job[t].id \notin DOMAIN in_flight
    /\ Leave(t, "idle", NoJob)
    /\ UNCHANGED <<delivered, next_id, in_flight, in_flight_messages, resolved>>

TakeOut(t) ==
    /\ job[t].id \in DOMAIN in_flight
    /\ in_flight' = Without(in_flight, job[t].id)
    /\ UNCHANGED <<delivered, next_id, in_flight_messages>>

Fail(t) ==
    /\ job[t].attempts < RetryMax
    /\ TakeOut(t)
    /\ Leave(t, "insert_again", [in_flight[job[t].id] EXCEPT !.attempts = @ + 1])
    /\ UNCHANGED resolved

FailPermanently(t) ==
    /\ TakeOut(t)
    /\ Leave(t, "insert_dead", in_flight[job[t].id])
    /\ resolved' = resolved \cup {job[t].key}

PushDead(t) ==
    /\ Goto(t, "push_dead", "idle")
    /\ dead' = dead \cup {writing[t].id}
    /\ writing' = [writing EXCEPT ![t] = NoJob]
    /\ UNCHANGED <<rows, waiting, delivered, seen, next_id, in_flight, in_flight_messages, job,
                   owes, reading, runs, faults, history>>

\* A query fails, or the job is cancelled while it admits a link: the
\* operation ends there.
Interrupted(t) ==
    /\ IF pc[t] \in Admitting THEN Goto(t, pc[t], "work")
       ELSE pc[t] \in HandingBack /\ Goto(t, pc[t], "idle")
    /\ writing' = [writing EXCEPT ![t] = NoJob]
    /\ owes' = [owes EXCEPT ![t] = {}]
    /\ lost' = lost \cup CutShort({t})
    /\ UNCHANGED <<store, next_id, in_flight, in_flight_messages, job, reading, runs, faults,
                   pushed, resolved>>

LoopStep ==
    \/ Seeded
    \/ \E m \in waiting : Read(m)
    \/ \E r \in rows : Load(r)
    \/ \E t \in Tasks : Spawn(t)

WorkerStep(w) ==
    \/ \E k \in owes[w] : Probe(w, k)
    \/ Insert(w) \/ Push(w) \/ Mark(w)

TaskStep(t) ==
    \/ pc[t] = "work" /\ (Complete(t) \/ Requeue(t) \/ Forgotten(t) \/ Fail(t) \/ FailPermanently(t))
    \/ PushDead(t) \/ Interrupted(t)

Next ==
    \/ Start \/ Stop \/ LoopStep
    \/ \E w \in Workers : WorkerStep(w)
    \/ \E t \in Tasks : TaskStep(t)

Spec == Init /\ [][Next]_vars

-----------------------------------------------------------------------------
Messages == waiting \cup delivered

\* The row a message was pushed for.
RowOf(m) == [id |-> m.id, key |-> m.key, attempts |-> m.attempts]

\* The row of a job is there before its message and stays: whatever is cut
\* short between the two, and whenever a process is restarted, the pop that
\* reads the message finds the job that was pushed (an error would end the
\* run).
MessageHasRow == \A m \in Messages : RowOf(m) \in rows

\* A URL is marked only after its message was pushed, so that no URL is
\* refused for ever that was never in the queue.
MarkedIsPushed == seen \subseteq {m.key : m \in pushed}

\* As long as the queue is used by one process only, an id belongs to one
\* URL: whatever row a lookup returns, it is of the URL the message is for.
IdsNameUrls ==
    runs = 1 => \A m \in Messages : \A r \in rows : r.id = m.id => r.key = m.key

\* In the first process, what a task acknowledges is the message its own job
\* came with: not that of another URL, and not the one left over from an
\* attempt that failed and was pushed again under the same id.
AnswersItsOwn ==
    runs = 1 =>
        \A t \in Tasks : pc[t] = "work" =>
            /\ Answered(job[t].id) # {}
            /\ \A m \in Answered(job[t].id) :
                /\ m.key = job[t].key
                /\ \A n \in delivered : n.id = m.id => n.number <= m.number

\* A marked URL still has a message, or is done with, or is on its way back
\* into the queue; in the first process only a requeue that was cut short
\* loses one.
Carried(k) ==
    \/ \E m \in Messages : m.key = k
    \/ \E w \in Workers : pc[w] \in {"insert_again", "push_again"} /\ writing[w].key = k

OnlyRequeueLoses ==
    runs = 1 => \A k \in seen : k \in resolved \cup lost \/ Carried(k)

\* What the documentation says of the queue, and the code does not do.

\* A URL that is marked as seen and not done with is in the queue when the
\* next process opens it.
NothingLost ==
    pc[Main] = "down" => \A k \in seen \ resolved : \E m \in Messages : m.key = k
====
