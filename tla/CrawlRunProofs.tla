---- MODULE CrawlRunProofs ----
(***************************************************************************)
(* Proofs about a crawl for any link graph, any finite set of URLs, any    *)
(* concurrency, retry caps and page limit, and any number of crashes,      *)
(* timeouts and failed writes.                                             *)
(***************************************************************************)
EXTENDS CrawlRun, FiniteSetTheorems, TLAPS

Admitted(v) == status[v] # "absent"

\* The loop's control point against what it holds and what is left to do.
LoopInv ==
    /\ main = "permit" => \E u \in Urls : current = {u}
    /\ main # "permit" => current = {}
    /\ main \in {"down", "ended"} => Active = {}
    /\ main \notin {"down", "seeding"} => seeding = {}
    /\ main # "down" => \A v \in Seeds : v \in seeding \/ Admitted(v)
    /\ main = "pop" => ~LimitReached
    /\ main \in {"drain", "ended"} /\ ~LimitReached => Active = {} /\ Waiting = {}

\* The links of u that cannot be lost: a script's can.
Owed(u) == IF u \in Scripts THEN {} ELSE Followed(u)

\* A page's links are on their way: still to do, being inserted or admitted.
LinksUnderWay(u) ==
    /\ \A v \in child[u], w \in child[u] : v = w
    /\ pc[u] \notin {"insert", "mark"} => child[u] = {}
    /\ pc[u] \in {"admit", "insert", "mark"} =>
          \A v \in Owed(u) : v \in todo[u] \/ v \in child[u] \/ Admitted(v)
    /\ pc[u] = "mark" => \A v \in child[u] : Admitted(v)
    /\ pc[u] = "apply" /\ verdict[u] = "complete" => \A v \in Owed(u) : Admitted(v)

SavedLinks == \A u \in saved : Admitted(u) /\ \A v \in Owed(u) : Admitted(v)

TasksInv == \A u \in Urls : LinksUnderWay(u)

\* The JoinSet has room whenever the loop is about to spawn.
RoomInv ==
    JoinSetLen <= IF main \in {"backpressure", "drain", "ended"} THEN MaxTasks ELSE MaxTasks - 1

\* A retry is only decided while the policy has attempts left.
AttemptsOf(u) ==
    /\ status[u] = "absent" => attempts[u] = 0
    /\ status[u] \in {"waiting", "running"} => attempts[u] < RetryMax
    /\ pc[u] = "apply" /\ verdict[u] = "retry" => RetriesLeft(u)

AttemptsInv == \A u \in Urls : AttemptsOf(u)

IInv ==
    /\ TypeOK
    /\ LoopInv
    /\ TaskOwnsJob
    /\ SeenIsAdmitted
    /\ TasksInv
    /\ SavedLinks
    /\ LimitHolds
    /\ RoomInv
    /\ AttemptsInv

-----------------------------------------------------------------------------
LEMMA Moved ==
  ASSUME TypeOK, NEW u \in Urls, NEW from, NEW to \in Queue!Statuses, Queue!Move(u, from, to)
  PROVE  /\ status[u] = from
         /\ status' \in [Urls -> Queue!Statuses]
         /\ status'[u] = to
         /\ \A v \in Urls \ {u} : status'[v] = status[v]
  BY DEF TypeOK, Queue!Move

\* What a disposition does to the queue.
LEMMA ResolveEffect ==
  ASSUME TypeOK, NEW u \in Urls, Resolve(u)
  PROVE  /\ status[u] = "running"
         /\ status' \in [Urls -> Queue!Statuses]
         /\ status'[u] \in {"waiting", "done", "failed"}
         /\ \A v \in Urls \ {u} : status'[v] = status[v]
         /\ attempts' \in [Urls -> Nat]
         /\ method' \in [Urls -> {"auto", "render"}]
         /\ delayed' \subseteq Urls
  <1>0. {"waiting", "done", "failed"} \subseteq Queue!Statuses
    BY DEF Queue!Statuses
  <1>1. ASSUME NEW a \in Nat, NEW m \in {"auto", "render"}, Requeue(u, a, m)
        PROVE  /\ Queue!Move(u, "running", "waiting")
               /\ attempts' \in [Urls -> Nat]
               /\ method' \in [Urls -> {"auto", "render"}]
               /\ delayed' \subseteq Urls
    BY <1>1 DEF Requeue, Queue!Retry, TypeOK
  <1>2. \/ Queue!Move(u, "running", "done")
        \/ Queue!Move(u, "running", "failed")
        \/ Queue!Move(u, "running", "waiting")
    BY DEF Resolve, Requeue, Queue!Finish, Queue!GiveUp, Queue!Retry
  <1>3. /\ attempts' \in [Urls -> Nat]
        /\ method' \in [Urls -> {"auto", "render"}]
        /\ delayed' \subseteq Urls
    <2>1. attempts[u] \in Nat /\ method[u] \in {"auto", "render"}
      BY DEF TypeOK
    <2> QED
      BY <1>1, <2>1 DEF Resolve, TypeOK
  <1>4. CASE Queue!Move(u, "running", "done")
    BY <1>0, <1>3, <1>4, Moved
  <1>5. CASE Queue!Move(u, "running", "failed")
    BY <1>0, <1>3, <1>5, Moved
  <1>6. CASE Queue!Move(u, "running", "waiting")
    BY <1>0, <1>3, <1>6, Moved
  <1> QED
    BY <1>2, <1>4, <1>5, <1>6

LEMMA PushEffect ==
  ASSUME TypeOK, NEW v \in Urls, NEW d \in Nat, NEW m \in {"auto", "render"}, PushUnique(v, d, m)
  PROVE  /\ status' \in [Urls -> Queue!Statuses]
         /\ depth' \in [Urls -> Nat]
         /\ method' \in [Urls -> {"auto", "render"}]
         /\ \A w \in Urls : status[w] # "absent" => depth'[w] = depth[w]
         /\ status'[v] # "absent"
         /\ status[v] = "running" <=> status'[v] = "running"
         /\ \A w \in Urls \ {v} : status'[w] = status[w]
         /\ status[v] # "absent" => status' = status
  <1>1. CASE status[v] # "absent" /\ UNCHANGED <<status, depth, method>>
    BY <1>1 DEF TypeOK
  <1>2. ASSUME Queue!Admit(v)
        PROVE  /\ status' \in [Urls -> Queue!Statuses]
               /\ status'[v] # "absent"
               /\ status[v] = "running" <=> status'[v] = "running"
               /\ \A w \in Urls \ {v} : status'[w] = status[w]
               /\ status[v] # "absent" => status' = status
    <2>1. "waiting" \in Queue!Statuses
      BY DEF Queue!Statuses
    <2>2. Queue!Move(v, "absent", "waiting")
      BY <1>2 DEF Queue!Admit
    <2> QED
      BY <1>2, <2>1, <2>2, Moved DEF TypeOK
  <1>3. CASE Queue!Admit(v) /\ depth' = [depth EXCEPT ![v] = d] /\ method' = [method EXCEPT ![v] = m]
    <2>1. /\ depth' \in [Urls -> Nat]
          /\ method' \in [Urls -> {"auto", "render"}]
          /\ \A w \in Urls : status[w] # "absent" => depth'[w] = depth[w]
      BY <1>3 DEF TypeOK, Queue!Admit, Queue!Move
    <2> QED
      BY <1>2, <1>3, <2>1
  <1> QED
    BY <1>1, <1>3 DEF PushUnique

LEMMA RecoverEffect ==
  ASSUME TypeOK, Queue!Recover
  PROVE  /\ status' \in [Urls -> Queue!Statuses]
         /\ \A v \in Urls : status'[v] = IF status[v] = "running" THEN "waiting" ELSE status[v]
  BY DEF TypeOK, Queue!Recover, Queue!Statuses

LEMMA InitIInv == Init => IInv
  <1> SUFFICES ASSUME Init PROVE IInv
    OBVIOUS
  <1>1. TypeOK
    BY DEF Init, TypeOK, Queue!Init, Queue!Statuses, MainStates, TaskStates, Verdicts
  <1>2. Active = {}
    BY DEF Init, Active
  <1>3. JoinSetLen = 0
    BY <1>2, FS_EmptySet DEF JoinSetLen, Init
  <1> QED
    BY <1>1, <1>2, <1>3, CrawlAssumption
    DEF Init, IInv, LoopInv, TaskOwnsJob, SeenIsAdmitted, TasksInv, LinksUnderWay,
        SavedLinks, LimitHolds, RoomInv, AttemptsInv, AttemptsOf, Limited, Queue!Init

-----------------------------------------------------------------------------
LEMMA LoopType == ASSUME TypeOK, LoopStep PROVE TypeOK'
  <1>1. ASSUME NEW v \in Seeds, AdmitSeed(v) PROVE TypeOK'
    <2>1. /\ status' \in [Urls -> Queue!Statuses]
          /\ depth' \in [Urls -> Nat]
          /\ method' \in [Urls -> {"auto", "render"}]
          /\ recent' \subseteq Urls
      BY <1>1, PushEffect, CrawlAssumption DEF AdmitSeed, Seen, TypeOK
    <2> QED
      BY <1>1, <2>1 DEF AdmitSeed, TypeOK, tasks
  <1>2. CASE Seeded \/ CheckLimit \/ PopNone \/ Exhausted \/ Idle \/ Backpressure \/ Drained
    BY <1>2 DEF Seeded, CheckLimit, PopNone, Exhausted, Idle, Backpressure, Drained, Goto,
                Join, TypeOK, MainStates, queue, tasks
  <1>3. ASSUME NEW u \in Urls, Pop(u) PROVE TypeOK'
    <2>1. status' \in [Urls -> Queue!Statuses]
      BY <1>3, Moved DEF Pop, Queue!Dispatch, Queue!Statuses
    <2> QED
      BY <1>3, <2>1 DEF Pop, TypeOK, MainStates, tasks
  <1>4. ASSUME NEW u \in Urls, Spawn(u) PROVE TypeOK'
    BY <1>4 DEF Spawn, Goto, TypeOK, MainStates, TaskStates, queue
  <1> QED
    BY <1>1, <1>2, <1>3, <1>4 DEF LoopStep

LEMMA DecideType ==
  ASSUME TypeOK, NEW u \in Urls, NEW v \in Verdicts, Decide(u, v)
  PROVE  /\ verdict' \in [Urls -> Verdicts] /\ todo' \in [Urls -> SUBSET Urls]
         /\ child' \in [Urls -> SUBSET Urls]
  BY DEF TypeOK, Decide

LEMMA TaskType == ASSUME TypeOK, NEW u \in Urls, TaskStep(u) PROVE TypeOK'
  <1> USE DEF TaskGoto, queue, TaskStates
  <1>1. CASE Refused(u)
    <2>1. \E v \in Verdicts : Decide(u, v)
      BY <1>1 DEF Refused, Outcomes, Verdicts
    <2> QED
      BY <1>1, <2>1, DecideType DEF Refused, TypeOK
  <1>2. CASE Deferred(u)
    <2>1. \E v \in Verdicts : Decide(u, v)
      BY <1>2 DEF Deferred, Verdicts
    <2> QED
      BY <1>2, <2>1, DecideType DEF Deferred, TypeOK
  <1>3. CASE Fetched(u)
    BY <1>3, CrawlAssumption DEF Fetched, Followed, TypeOK
  <1>4. CASE AllAdmitted(u)
    <2>1. \E v \in Verdicts : Decide(u, v)
      BY <1>4 DEF AllAdmitted, Verdicts
    <2> QED
      BY <1>4, <2>1, DecideType DEF AllAdmitted, TypeOK
  <1>5. CASE InsertFails(u)
    <2>1. CASE u \in Scripts
      BY <1>5, <2>1 DEF InsertFails, TypeOK
    <2>2. CASE u \notin Scripts
      <3>1. \E v \in Verdicts : Decide(u, v)
        BY <1>5, <2>2 DEF InsertFails, Verdicts
      <3> QED
        BY <1>5, <2>2, <3>1, DecideType DEF InsertFails, TypeOK
    <2> QED
      BY <2>1, <2>2
  <1>6. CASE TimeOut(u)
    <2>1. \E v \in Verdicts : Decide(u, v)
      BY <1>6 DEF TimeOut, Verdicts
    <2> QED
      BY <1>6, <2>1, DecideType DEF TimeOut, TypeOK
  <1>7. CASE Apply(u)
    BY <1>7, ResolveEffect DEF Apply, End, TypeOK, Verdicts
  <1>8. CASE ApplyFails(u)
    BY <1>8 DEF ApplyFails, End, TypeOK, Verdicts
  <1>9. ASSUME NEW v \in Urls, Probe(u, v) PROVE TypeOK'
    BY <1>9 DEF Probe, TypeOK
  <1>10. ASSUME NEW v \in Urls, InsertChild(u, v) PROVE TypeOK'
    <2>1. depth[u] + 1 \in Nat /\ method[u] \in {"auto", "render"}
      BY DEF TypeOK
    <2> QED
      BY <1>10, <2>1, PushEffect DEF InsertChild, TypeOK
  <1>11. ASSUME NEW v \in Urls, MarkSeen(u, v) PROVE TypeOK'
    BY <1>11 DEF MarkSeen, Seen, TypeOK
  <1> QED
    BY <1>1, <1>2, <1>3, <1>4, <1>5, <1>6, <1>7, <1>8, <1>9, <1>10, <1>11 DEF TaskStep

LEMMA TypeStep == ASSUME TypeOK, [Next]_vars PROVE TypeOK'
  <1>1. CASE Start
    BY <1>1, RecoverEffect, CrawlAssumption DEF Start, Forget, TypeOK, MainStates, TaskStates, Verdicts
  <1>2. CASE Crash
    BY <1>2 DEF Crash, Forget, TypeOK, MainStates, TaskStates, Verdicts, queue
  <1>3. ASSUME NEW u \in Urls, Ripen(u) PROVE TypeOK'
    BY <1>3 DEF Ripen, TypeOK, tasks
  <1>4. CASE UNCHANGED vars
    BY <1>4 DEF vars, TypeOK
  <1> QED
    BY <1>1, <1>2, <1>3, <1>4, LoopType, TaskType DEF Next

-----------------------------------------------------------------------------
\* Which part of the state a step of the loop or of a task can touch.
LEMMA TaskFrame ==
  ASSUME TypeOK, NEW u \in Urls, TaskStep(u)
  PROVE  /\ pc[u] # "none" /\ pc' \in [Urls -> TaskStates]
         /\ UNCHANGED <<main, seeding, current, pages, canRender, runs>>
         /\ \A w \in Urls \ {u} : /\ pc'[w] = pc[w] /\ todo'[w] = todo[w]
                                  /\ child'[w] = child[w] /\ verdict'[w] = verdict[w]
  <1> USE DEF TaskGoto, TypeOK, TaskStates, Decide
  <1>1. CASE Refused(u)
    BY <1>1 DEF Refused
  <1>2. CASE Deferred(u) \/ Fetched(u) \/ AllAdmitted(u) \/ InsertFails(u) \/ TimeOut(u)
    BY <1>2 DEF Deferred, Fetched, AllAdmitted, InsertFails, TimeOut
  <1>3. CASE Apply(u) \/ ApplyFails(u)
    BY <1>3 DEF Apply, ApplyFails, End
  <1>4. ASSUME NEW v \in Urls, Probe(u, v) \/ InsertChild(u, v) \/ MarkSeen(u, v)
        PROVE  /\ pc[u] # "none" /\ pc' \in [Urls -> TaskStates]
               /\ UNCHANGED <<main, seeding, current, pages, canRender, runs>>
               /\ \A w \in Urls \ {u} : /\ pc'[w] = pc[w] /\ todo'[w] = todo[w]
                                        /\ child'[w] = child[w] /\ verdict'[w] = verdict[w]
    BY <1>4 DEF Probe, InsertChild, MarkSeen
  <1> QED
    BY <1>1, <1>2, <1>3, <1>4 DEF TaskStep

\* The statuses a task can change: its own job's, and a link's admission.
LEMMA TaskStatus ==
  ASSUME TypeOK, NEW u \in Urls, TaskStep(u)
  PROVE  \/ Apply(u)
         \/ status' = status
         \/ \E v \in Urls : InsertChild(u, v)
  BY DEF TaskStep, Refused, Deferred, Fetched, AllAdmitted, InsertFails, TimeOut, ApplyFails,
         Probe, MarkSeen, queue

LEMMA AdmittedStays ==
  ASSUME TypeOK, [Next]_vars, NEW v \in Urls, Admitted(v)
  PROVE  Admitted(v)'
  <1> USE DEF Admitted
  <1>1. CASE Start
    BY <1>1, RecoverEffect DEF Start
  <1>2. CASE Crash \/ UNCHANGED vars
    BY <1>2 DEF Crash, queue, vars
  <1>3. ASSUME NEW w \in Seeds, AdmitSeed(w) PROVE Admitted(v)'
    BY <1>3, PushEffect, CrawlAssumption DEF AdmitSeed
  <1>4. CASE Seeded \/ CheckLimit \/ PopNone \/ Exhausted \/ Idle \/ Backpressure \/ Drained
    BY <1>4 DEF Seeded, CheckLimit, PopNone, Exhausted, Idle, Backpressure, Drained, Goto, queue
  <1>5. ASSUME NEW u \in Urls, Pop(u) PROVE Admitted(v)'
    BY <1>5, Moved DEF Pop, Queue!Dispatch, Queue!Statuses
  <1>6. ASSUME NEW u \in Urls, Spawn(u) PROVE Admitted(v)'
    BY <1>6 DEF Spawn, Goto, queue
  <1>7. ASSUME NEW u \in Urls, TaskStep(u) PROVE Admitted(v)'
    <2>1. CASE Apply(u)
      BY <2>1, ResolveEffect DEF Apply
    <2>2. ASSUME NEW w \in Urls, InsertChild(u, w) PROVE Admitted(v)'
      <3>1. depth[u] + 1 \in Nat /\ method[u] \in {"auto", "render"}
        BY DEF TypeOK
      <3> QED
        BY <2>2, <3>1, PushEffect DEF InsertChild
    <2> QED
      BY <1>7, <2>1, <2>2, TaskStatus
  <1>8. ASSUME NEW u \in Urls, Ripen(u) PROVE Admitted(v)'
    BY <1>8 DEF Ripen
  <1> QED
    BY <1>1, <1>2, <1>3, <1>4, <1>5, <1>6, <1>7, <1>8 DEF Next, LoopStep

\* The depth of an admitted URL, and so the links it owes, is settled.
LEMMA DepthStays ==
  ASSUME TypeOK, [Next]_vars, NEW v \in Urls, Admitted(v)
  PROVE  depth'[v] = depth[v]
  <1> USE DEF Admitted
  <1>1. ASSUME NEW w \in Seeds, AdmitSeed(w) PROVE depth'[v] = depth[v]
    BY <1>1, PushEffect, CrawlAssumption DEF AdmitSeed
  <1>2. ASSUME NEW u \in Urls, NEW w \in Urls, InsertChild(u, w) PROVE depth'[v] = depth[v]
    <2>1. depth[u] + 1 \in Nat /\ method[u] \in {"auto", "render"}
      BY DEF TypeOK
    <2> QED
      BY <1>2, <2>1, PushEffect DEF InsertChild
  <1>3. CASE depth' = depth
    BY <1>3
  <1>4. ASSUME NEW u \in Urls, TaskStep(u), ~\E w \in Urls : InsertChild(u, w) PROVE depth' = depth
    BY <1>4 DEF TaskStep, Refused, Deferred, Fetched, AllAdmitted, InsertFails, TimeOut, Apply,
                ApplyFails, Probe, MarkSeen, queue
  <1> QED
    BY <1>1, <1>2, <1>3, <1>4
    DEF Next, Start, Crash, LoopStep, Seeded, CheckLimit, PopNone, Exhausted, Idle,
        Backpressure, Drained, Goto, Pop, Spawn, Ripen, vars, queue

LEMMA OwedStays ==
  ASSUME TypeOK, [Next]_vars, NEW v \in Urls, Admitted(v)
  PROVE  Owed(v)' = Owed(v)
  BY DepthStays DEF Owed, Followed

LEMMA OwedType == ASSUME NEW u \in Urls PROVE Owed(u) \subseteq Urls
  BY CrawlAssumption DEF Owed, Followed

\* Nothing enters the recent set before the queue has it.
LEMMA SeenStep ==
  ASSUME TypeOK, TasksInv, SeenIsAdmitted, [Next]_vars
  PROVE  SeenIsAdmitted'
  <1> SUFFICES ASSUME NEW x \in recent' PROVE Admitted(x)'
    BY DEF SeenIsAdmitted, Admitted
  <1>0. ASSUME NEW y \in recent PROVE y \in Urls /\ Admitted(y)'
    BY <1>0, AdmittedStays DEF SeenIsAdmitted, Admitted, TypeOK
  <1>1. CASE Start \/ Crash
    BY <1>1 DEF Start, Crash, Forget
  <1>2. ASSUME NEW w \in Seeds, AdmitSeed(w) PROVE Admitted(x)'
    <2>1. CASE recent' = recent
      BY <1>0, <2>1
    <2>2. CASE PushUnique(w, 0, "auto") /\ Seen(w)
      BY <1>0, <2>2, PushEffect, CrawlAssumption DEF Seen, Admitted
    <2> QED
      BY <1>2, <2>1, <2>2 DEF AdmitSeed
  <1>3. ASSUME NEW u \in Urls, NEW w \in Urls, MarkSeen(u, w) PROVE Admitted(x)'
    <2>1. Admitted(w)'
      BY <1>3 DEF MarkSeen, TaskGoto, TasksInv, LinksUnderWay, Admitted, queue
    <2> QED
      BY <1>0, <1>3, <2>1 DEF MarkSeen, Seen
  <1>4. CASE recent' = recent
    BY <1>0, <1>4
  <1>5. ASSUME NEW u \in Urls, TaskStep(u), ~\E w \in Urls : MarkSeen(u, w) PROVE recent' = recent
    BY <1>5 DEF TaskStep, Refused, Deferred, Fetched, AllAdmitted, InsertFails, TimeOut, Apply,
                ApplyFails, Probe, InsertChild
  <1> QED
    BY <1>1, <1>2, <1>3, <1>4, <1>5
    DEF Next, LoopStep, Seeded, CheckLimit, PopNone, Exhausted, Idle, Backpressure, Drained,
        Goto, Pop, Spawn, Ripen, vars

\* A task whose own variables do not change keeps its links under way.
LEMMA TaskKeeps ==
  ASSUME TypeOK, [Next]_vars, NEW u \in Urls, LinksUnderWay(u),
         pc[u] # "none" => Admitted(u),
         pc'[u] = pc[u], todo'[u] = todo[u], child'[u] = child[u], verdict'[u] = verdict[u]
  PROVE  LinksUnderWay(u)'
  <1>1. Owed(u) \subseteq Urls /\ child[u] \subseteq Urls
    BY OwedType DEF TypeOK
  <1>2. \A v \in Urls : Admitted(v) => Admitted(v)'
    BY AdmittedStays
  <1>3. CASE pc[u] = "none"
    BY <1>3 DEF LinksUnderWay
  <1>4. CASE pc[u] # "none"
    <2>1. Owed(u)' = Owed(u)
      BY <1>4, OwedStays
    <2> QED
      BY <1>1, <1>2, <2>1 DEF LinksUnderWay
  <1> QED
    BY <1>3, <1>4

LEMMA OwnTaskStep ==
  ASSUME TypeOK, SeenIsAdmitted, NEW u \in Urls, LinksUnderWay(u), Admitted(u), TaskStep(u)
  PROVE  LinksUnderWay(u)'
  <1>0. [Next]_vars
    BY DEF Next
  <1>1. \A v \in Urls : Admitted(v) => Admitted(v)'
    BY <1>0, AdmittedStays
  <1>2. Owed(u) \subseteq Urls /\ child[u] \subseteq Urls /\ Owed(u)' = Owed(u)
    BY <1>0, OwedType, OwedStays DEF TypeOK
  <1> USE DEF TaskGoto, TypeOK
  <1>3. CASE Refused(u) \/ Deferred(u) \/ (InsertFails(u) /\ u \notin Scripts) \/ TimeOut(u)
    <2>1. PICK v \in Verdicts \ {"complete"} : Decide(u, v)
      BY <1>3 DEF Refused, Deferred, InsertFails, TimeOut, Outcomes, Verdicts
    <2>2. pc'[u] = "apply"
      BY <1>3 DEF Refused, Deferred, InsertFails, TimeOut
    <2> QED
      BY <2>1, <2>2 DEF Decide, LinksUnderWay
  <1>4. CASE Fetched(u)
    BY <1>2, <1>4 DEF Fetched, LinksUnderWay, Owed
  <1>5. CASE AllAdmitted(u)
    BY <1>1, <1>2, <1>5 DEF AllAdmitted, Decide, LinksUnderWay
  <1>6. CASE Apply(u) \/ ApplyFails(u)
    BY <1>6 DEF Apply, ApplyFails, End, LinksUnderWay
  <1>7. ASSUME NEW v \in Urls, Probe(u, v) PROVE LinksUnderWay(u)'
    <2>1. child[u] = {} /\ \A w \in Owed(u) : w \in todo[u] \/ Admitted(w)
      BY <1>7 DEF Probe, LinksUnderWay
    <2>2. CASE v \in recent
      BY <1>1, <1>2, <1>7, <2>1, <2>2 DEF Probe, LinksUnderWay, SeenIsAdmitted, Admitted
    <2>3. CASE v \notin recent
      BY <1>1, <1>2, <1>7, <2>1, <2>3 DEF Probe, LinksUnderWay
    <2> QED
      BY <2>2, <2>3
  <1>8. ASSUME NEW v \in Urls, InsertChild(u, v) PROVE LinksUnderWay(u)'
    <2>0. depth[u] + 1 \in Nat
      OBVIOUS
    <2>1. Admitted(v)'
      BY <1>8, <2>0, PushEffect DEF InsertChild, Admitted
    <2>2. pc[u] = "insert" /\ pc'[u] = "mark" /\ todo' = todo /\ child' = child /\ v \in child[u]
      BY <1>8 DEF InsertChild
    <2> QED
      BY <1>1, <1>2, <2>1, <2>2 DEF LinksUnderWay
  <1>9. ASSUME NEW v \in Urls, MarkSeen(u, v) PROVE LinksUnderWay(u)'
    <2>1. pc[u] = "mark" /\ pc'[u] = "admit" /\ todo' = todo /\ child'[u] = {}
      BY <1>9 DEF MarkSeen
    <2> QED
      BY <1>1, <1>2, <2>1 DEF LinksUnderWay
  <1>10. CASE InsertFails(u) /\ u \in Scripts
    <2>1. pc'[u] = "admit" /\ child'[u] = {} /\ Owed(u)' = {}
      BY <1>10 DEF InsertFails, Owed
    <2> QED
      BY <2>1 DEF LinksUnderWay
  <1> QED
    BY <1>10, <1>3, <1>4, <1>5, <1>6, <1>7, <1>8, <1>9 DEF TaskStep

LEMMA TasksStep ==
  ASSUME TypeOK, LoopInv, TaskOwnsJob, SeenIsAdmitted, TasksInv, [Next]_vars
  PROVE  TasksInv'
  <1> SUFFICES ASSUME NEW u \in Urls PROVE LinksUnderWay(u)'
    BY DEF TasksInv
  <1>0. LinksUnderWay(u) /\ (pc[u] # "none" => Admitted(u))
    BY DEF TasksInv, LoopInv, TaskOwnsJob, Active, Admitted
  <1>1. CASE Start \/ Crash
    BY <1>1 DEF Start, Crash, Forget, LinksUnderWay
  <1>2. CASE UNCHANGED tasks
    BY <1>0, <1>2, TaskKeeps DEF tasks
  <1>3. ASSUME NEW w \in Urls, Spawn(w) PROVE LinksUnderWay(u)'
    <2>1. CASE w = u
      <3>1. pc[u] = "none" /\ pc'[u] = "fetch" /\ child' = child
        BY <1>3, <2>1 DEF Spawn, Goto, TaskOwnsJob, Active, TypeOK
      <3> QED
        BY <1>0, <3>1 DEF LinksUnderWay
    <2>2. CASE w # u
      BY <1>0, <1>3, <2>2, TaskKeeps DEF Spawn, TypeOK
    <2> QED
      BY <2>1, <2>2
  <1>4. ASSUME NEW w \in Urls, TaskStep(w) PROVE LinksUnderWay(u)'
    <2>1. CASE w = u
      BY <1>0, <1>4, <2>1, OwnTaskStep, TaskFrame
    <2>2. CASE w # u
      BY <1>0, <1>4, <2>2, TaskFrame, TaskKeeps
    <2> QED
      BY <2>1, <2>2
  <1> QED
    BY <1>1, <1>2, <1>3, <1>4
    DEF Next, LoopStep, AdmitSeed, Seeded, CheckLimit, PopNone, Exhausted, Idle, Backpressure,
        Drained, Pop, Ripen, vars, tasks

LEMMA SavedStep ==
  ASSUME TypeOK, TasksInv, SavedLinks, [Next]_vars
  PROVE  SavedLinks'
  <1>1. \A u \in Urls : Owed(u) \subseteq Urls
    BY OwedType
  <1>2. \A v \in Urls : Admitted(v) => Admitted(v)' /\ Owed(v)' = Owed(v)
    BY AdmittedStays, OwedStays
  <1>3. CASE saved' = saved
    BY <1>1, <1>2, <1>3 DEF SavedLinks, TypeOK
  <1>4. ASSUME NEW u \in Urls, Apply(u) PROVE SavedLinks'
    <2>1. Admitted(u)
      BY <1>4, ResolveEffect DEF Apply, Admitted
    <2>2. verdict[u] = "complete" => \A v \in Owed(u) : Admitted(v)
      BY <1>4 DEF Apply, End, TaskGoto, TasksInv, LinksUnderWay
    <2>3. \A w \in saved' : w \in Urls /\ Admitted(w) /\ \A v \in Owed(w) : Admitted(v)
      BY <1>4, <2>1, <2>2 DEF Apply, SavedLinks, TypeOK
    <2> QED
      BY <1>1, <1>2, <2>3 DEF SavedLinks
  <1>5. ASSUME NEW u \in Urls, TaskStep(u), ~Apply(u) PROVE saved' = saved
    BY <1>5 DEF TaskStep, Refused, Deferred, Fetched, AllAdmitted, InsertFails, TimeOut,
                ApplyFails, Probe, InsertChild, MarkSeen
  <1> QED
    BY <1>3, <1>4, <1>5
    DEF Next, Start, Crash, LoopStep, AdmitSeed, Seeded, CheckLimit, PopNone, Exhausted, Idle,
        Backpressure, Drained, Goto, Pop, Spawn, Ripen, vars

-----------------------------------------------------------------------------
\* Steps of the loop other than Pop, Spawn and the seeds leave tasks and
\* queue alone.
Quiet == Seeded \/ CheckLimit \/ PopNone \/ Exhausted \/ Idle \/ Backpressure \/ Drained

LEMMA QuietFrame ==
  ASSUME Quiet
  PROVE  /\ UNCHANGED <<status, recent, seeding, current, pc, pages, stranded>>
         /\ Active' = Active /\ Waiting' = Waiting
         /\ main # "down" /\ main' # "down" /\ main' # "permit" /\ main # "permit"
  BY DEF Quiet, Seeded, CheckLimit, PopNone, Exhausted, Idle, Backpressure, Drained, Goto,
         queue, tasks, Active, Waiting

LEMMA OwnsStep ==
  ASSUME TypeOK, LoopInv, TaskOwnsJob, [Next]_vars
  PROVE  TaskOwnsJob'
  <1> USE DEF TypeOK
  <1> DEFINE Running == {u \in Urls : status[u] = "running"}
  <1>1. CASE Start
    <2>1. \A u \in Urls : status'[u] # "running"
      BY <1>1, RecoverEffect DEF Start
    <2>2. current' = {} /\ stranded' = {} /\ Active' = {}
      BY <1>1 DEF Start, Forget, Active
    <2> QED
      BY <2>1, <2>2 DEF TaskOwnsJob
  <1>2. CASE Crash
    BY <1>2 DEF Crash, TaskOwnsJob
  <1>3. ASSUME NEW v \in Seeds, AdmitSeed(v) PROVE TaskOwnsJob'
    <2>1. Running' = Running
      BY <1>3, PushEffect, CrawlAssumption DEF AdmitSeed
    <2> QED
      BY <1>3, <2>1 DEF AdmitSeed, TaskOwnsJob, tasks, Active
  <1>4. CASE Quiet
    BY <1>4, QuietFrame DEF TaskOwnsJob
  <1>5. ASSUME NEW u \in Urls, Pop(u) PROVE TaskOwnsJob'
    <2>1. /\ status[u] = "waiting" /\ status'[u] = "running"
          /\ \A v \in Urls \ {u} : status'[v] = status[v]
      BY <1>5, Moved DEF Pop, Queue!Dispatch, Queue!Statuses
    <2>2. current = {} /\ current' = {u} /\ Active' = Active /\ stranded' = stranded
          /\ main # "down"
      BY <1>5 DEF Pop, LoopInv, tasks, Active
    <2>3. Running' = Running \cup {u} /\ u \notin Running
      BY <2>1
    <2> QED
      BY <2>2, <2>3 DEF TaskOwnsJob
  <1>6. ASSUME NEW u \in Urls, Spawn(u) PROVE TaskOwnsJob'
    <2>1. current = {u} /\ current' = {} /\ status' = status /\ stranded' = stranded
          /\ main # "down"
      BY <1>6 DEF Spawn, Goto, LoopInv, queue
    <2>2. Active' = Active \cup {u}
      BY <1>6 DEF Spawn, Active
    <2> QED
      BY <2>1, <2>2 DEF TaskOwnsJob
  <1>7. ASSUME NEW u \in Urls, TaskStep(u) PROVE TaskOwnsJob'
    <2>1. /\ UNCHANGED <<main, current>> /\ u \in Active
          /\ main # "down"
      BY <1>7, TaskFrame DEF LoopInv, Active
    <2>2. CASE Apply(u)
      <3>1. status[u] = "running" /\ status'[u] # "running" /\ stranded' = stranded
            /\ \A v \in Urls \ {u} : status'[v] = status[v]
        BY <2>2, ResolveEffect DEF Apply
      <3>2. Active' = Active \ {u} /\ u \notin current
        BY <2>1, <2>2, TaskFrame DEF Apply, End, TaskGoto, Active, TaskOwnsJob
      <3>3. Running' = Running \ {u}
        BY <3>1
      <3>4. u \notin stranded
        BY <2>1 DEF TaskOwnsJob
      <3> QED
        BY <2>1, <3>1, <3>2, <3>3, <3>4 DEF TaskOwnsJob
    <2>3. CASE ApplyFails(u)
      <3>1. Active' = Active \ {u} /\ stranded' = stranded \cup {u} /\ status' = status
        BY <2>1, <2>3 DEF ApplyFails, End, TaskGoto, Active, queue
      <3> QED
        BY <2>1, <3>1 DEF TaskOwnsJob
    <2>4. CASE ~Apply(u) /\ ~ApplyFails(u)
      <3>1. stranded' = stranded /\ pc'[u] # "none"
        BY <1>7, <2>4 DEF TaskStep, Refused, Deferred, Fetched, AllAdmitted, InsertFails,
                          TimeOut, Probe, InsertChild, MarkSeen, TaskGoto
      <3>2. Active' = Active
        BY <2>1, <3>1, <1>7, TaskFrame DEF Active
      <3>3. Running' = Running
        <4>1. CASE status' = status
          BY <4>1
        <4>2. ASSUME NEW v \in Urls, InsertChild(u, v) PROVE Running' = Running
          BY <4>2, PushEffect DEF InsertChild
        <4> QED
          BY <1>7, <2>4, <4>1, <4>2, TaskStatus
      <3> QED
        BY <2>1, <3>1, <3>2, <3>3 DEF TaskOwnsJob
    <2> QED
      BY <2>2, <2>3, <2>4
  <1>8. ASSUME NEW u \in Urls, Ripen(u) PROVE TaskOwnsJob'
    BY <1>8 DEF Ripen, TaskOwnsJob, tasks, Active
  <1>9. CASE UNCHANGED vars
    BY <1>9 DEF vars, TaskOwnsJob, Active
  <1> QED
    BY <1>1, <1>2, <1>3, <1>4, <1>5, <1>6, <1>7, <1>8, <1>9 DEF Next, LoopStep, Quiet

LEMMA LoopStepInv ==
  ASSUME TypeOK, LoopInv, SeenIsAdmitted, [Next]_vars
  PROVE  LoopInv'
  <1> USE DEF TypeOK
  <1>0. \A v \in Seeds : v \in Urls /\ (Admitted(v) => Admitted(v)')
    BY AdmittedStays, CrawlAssumption
  <1>1. CASE Start
    BY <1>1 DEF Start, Forget, LoopInv, Active
  <1>2. CASE Crash
    BY <1>2 DEF Crash, Forget, LoopInv, Active
  <1>3. ASSUME NEW v \in Seeds, AdmitSeed(v) PROVE LoopInv'
    <2>1. Admitted(v)'
      BY <1>0, <1>3, PushEffect DEF AdmitSeed, SeenIsAdmitted, Admitted
    <2>2. UNCHANGED <<main, current, pages>> /\ Active' = Active /\ main = "seeding"
          /\ seeding' = seeding \ {v}
      BY <1>3 DEF AdmitSeed, tasks, Active
    <2> QED
      BY <1>0, <2>1, <2>2 DEF LoopInv
  <1>4. CASE Quiet
    <2>1. /\ UNCHANGED <<status, seeding, current, pages>> /\ Active' = Active /\ Waiting' = Waiting
          /\ main # "down" /\ main' # "down" /\ main' # "permit" /\ main # "permit"
      BY <1>4, QuietFrame
    <2>2. LimitReached' = LimitReached
      BY <2>1 DEF LimitReached, Limited
    <2>3. \A v \in Seeds : v \in seeding' \/ Admitted(v)'
      BY <2>1 DEF LoopInv, Admitted
    <2>4. main' \notin {"down", "seeding"} => seeding' = {}
      BY <1>4, <2>1 DEF LoopInv, Quiet, Seeded, CheckLimit, PopNone, Exhausted, Idle,
                        Backpressure, Drained, Goto
    <2>5. main' = "ended" => Active = {}
      BY <1>4 DEF Quiet, Seeded, CheckLimit, PopNone, Exhausted, Idle, Backpressure, Drained, Goto
    <2>6. main' = "pop" => ~LimitReached
      BY <1>4 DEF Quiet, Seeded, CheckLimit, PopNone, Exhausted, Idle, Backpressure, Drained, Goto
    <2>7. main' \in {"drain", "ended"} /\ ~LimitReached => Active = {} /\ Waiting = {}
      <3>1. CASE Exhausted
        <4>1. IsFiniteSet(Active)
          BY CrawlAssumption, FS_Subset DEF Active
        <4>2. Cardinality(Active) \in Nat
          BY <4>1, FS_CardinalityType
        <4>3. Cardinality(Active) = 0
          BY <3>1, <4>2 DEF Exhausted, JoinSetLen
        <4> QED
          BY <3>1, <4>1, <4>3, FS_EmptySet DEF Exhausted
      <3>2. CASE ~Exhausted
        BY <1>4, <3>2 DEF Quiet, Seeded, CheckLimit, PopNone, Idle, Backpressure, Drained,
                          Goto, LoopInv
      <3> QED
        BY <3>1, <3>2
    <2> QED
      BY <2>1, <2>2, <2>3, <2>4, <2>5, <2>6, <2>7 DEF LoopInv
  <1>5. ASSUME NEW u \in Urls, Pop(u) PROVE LoopInv'
    BY <1>0, <1>5 DEF Pop, LoopInv
  <1>6. ASSUME NEW u \in Urls, Spawn(u) PROVE LoopInv'
    BY <1>0, <1>6 DEF Spawn, Goto, LoopInv
  <1>7. ASSUME NEW u \in Urls, TaskStep(u) PROVE LoopInv'
    <2>1. /\ UNCHANGED <<main, seeding, current, pages>> /\ u \in Active
      BY <1>7, TaskFrame DEF Active
    <2>2. main \notin {"down", "ended"} /\ (main = "drain" => LimitReached)
      BY <2>1 DEF LoopInv
    <2>3. LimitReached' = LimitReached
      BY <2>1 DEF LimitReached, Limited
    <2> QED
      BY <1>0, <2>1, <2>2, <2>3 DEF LoopInv
  <1>8. CASE UNCHANGED vars \/ \E u \in Urls : Ripen(u)
    <2>1. UNCHANGED <<main, seeding, current, pages, status, pc>>
      BY <1>8 DEF vars, Ripen, tasks
    <2> QED
      BY <1>0, <2>1 DEF LoopInv, Active, Waiting, LimitReached, Limited
  <1> QED
    BY <1>1, <1>2, <1>3, <1>4, <1>5, <1>6, <1>7, <1>8 DEF Next, LoopStep, Quiet

LEMMA LimitStep ==
  ASSUME TypeOK, LoopInv, LimitHolds, [Next]_vars
  PROVE  LimitHolds'
  <1> USE CrawlAssumption DEF TypeOK, LimitHolds, Limited
  <1>1. CASE Start
    BY <1>1 DEF Start
  <1>2. ASSUME NEW u \in Urls, Pop(u) PROVE LimitHolds'
    BY <1>2 DEF Pop, LoopInv, LimitReached
  <1>3. CASE pages' = pages
    BY <1>3
  <1>4. ASSUME NEW u \in Urls, TaskStep(u) PROVE pages' = pages
    BY <1>4, TaskFrame
  <1> QED
    BY <1>1, <1>2, <1>3, <1>4
    DEF Next, Crash, LoopStep, AdmitSeed, Seeded, CheckLimit, PopNone, Exhausted, Idle,
        Backpressure, Drained, Goto, Spawn, Ripen, vars

\* Tasks and their places: the size of the JoinSet from one step to the next.
LEMMA ActiveSize ==
  ASSUME TypeOK
  PROVE  IsFiniteSet(Active) /\ Cardinality(Active) \in Nat
  BY CrawlAssumption, FS_Subset, FS_CardinalityType DEF Active

LEMMA RoomStep ==
  ASSUME TypeOK, LoopInv, TaskOwnsJob, RoomInv, [Next]_vars
  PROVE  RoomInv'
  <1> USE CrawlAssumption DEF TypeOK
  <1>0. IsFiniteSet(Active) /\ Cardinality(Active) \in Nat
    BY ActiveSize
  <1>1. CASE Start \/ Crash
    <2>1. Active' = {} /\ finished' = 0
      BY <1>1 DEF Start, Crash, Forget, Active
    <2>2. JoinSetLen' = 0
      BY <2>1, FS_EmptySet DEF JoinSetLen
    <2>3. main' \in {"seeding", "down"}
      BY <1>1 DEF Start, Crash
    <2> QED
      BY <2>2, <2>3 DEF RoomInv
  <1>2. ASSUME NEW v \in Seeds, AdmitSeed(v) PROVE RoomInv'
    BY <1>2 DEF AdmitSeed, tasks, RoomInv, JoinSetLen, Active
  <1>3. CASE Quiet
    <2>1. Active' = Active
      BY <1>3, QuietFrame
    <2> HIDE DEF TypeOK
    <2>2. finished \in Nat
      BY DEF TypeOK
    <2>3. Cardinality(Active') = Cardinality(Active)
      BY <2>1
    <2>4. CASE Backpressure
      BY <1>0, <2>2, <2>3, <2>4 DEF Backpressure, Goto, Join, RoomInv, JoinSetLen
    <2>5. CASE Drained
      <3>1. Cardinality(Active) = 0
        BY <2>5, FS_EmptySet DEF Drained
      <3> QED
        BY <2>2, <2>3, <2>5, <3>1 DEF Drained, Goto, RoomInv, JoinSetLen
    <2>6. CASE Idle
      BY <1>0, <2>2, <2>3, <2>6 DEF Idle, Goto, Join, RoomInv, JoinSetLen
    <2>7. CASE Seeded \/ CheckLimit \/ PopNone \/ Exhausted
      BY <1>0, <2>2, <2>3, <2>7 DEF Seeded, CheckLimit, PopNone, Exhausted, Goto, RoomInv, JoinSetLen
    <2> QED
      BY <1>3, <2>4, <2>5, <2>6, <2>7 DEF Quiet
  <1>4. ASSUME NEW u \in Urls, Pop(u) PROVE RoomInv'
    <2>1. Active' = Active /\ finished' = finished
      BY <1>4 DEF Pop, tasks, Active
    <2> QED
      BY <1>4, <2>1 DEF Pop, RoomInv, JoinSetLen
  <1>5. ASSUME NEW u \in Urls, Spawn(u) PROVE RoomInv'
    <2>1. Active' = Active \cup {u} /\ u \notin Active
      BY <1>5 DEF Spawn, Goto, Active, TaskOwnsJob
    <2>2. Cardinality(Active') = Cardinality(Active) + 1
      BY <1>0, <2>1, FS_AddElement
    <2>3. main = "permit" /\ main' = "backpressure" /\ finished' = finished
      BY <1>5 DEF Spawn, Goto
    <2> QED
      BY <1>0, <2>2, <2>3 DEF RoomInv, JoinSetLen
  <1>6. ASSUME NEW u \in Urls, TaskStep(u) PROVE RoomInv'
    <2>1. main' = main /\ u \in Active
      BY <1>6, TaskFrame DEF Active
    <2>2. CASE Apply(u) \/ ApplyFails(u)
      <3>1. Active' = Active \ {u} /\ finished' = finished + 1
        BY <2>2 DEF Apply, ApplyFails, End, TaskGoto, Active
      <3>2. Cardinality(Active') = Cardinality(Active) - 1
        BY <1>0, <2>1, <3>1, FS_RemoveElement
      <3> QED
        BY <1>0, <2>1, <3>1, <3>2 DEF RoomInv, JoinSetLen
    <2>3. CASE ~Apply(u) /\ ~ApplyFails(u)
      <3>1. finished' = finished /\ pc'[u] # "none"
        BY <1>6, <2>3 DEF TaskStep, Refused, Deferred, Fetched, AllAdmitted, InsertFails,
                          TimeOut, Probe, InsertChild, MarkSeen, TaskGoto
      <3>2. Active' = Active
        BY <2>1, <3>1, <1>6, TaskFrame DEF Active
      <3> QED
        BY <2>1, <3>1, <3>2 DEF RoomInv, JoinSetLen
    <2> QED
      BY <2>2, <2>3
  <1>7. CASE UNCHANGED vars \/ \E u \in Urls : Ripen(u)
    <2>1. UNCHANGED <<main, finished, pc>>
      BY <1>7 DEF vars, Ripen, tasks
    <2> QED
      BY <2>1 DEF RoomInv, JoinSetLen, Active
  <1> QED
    BY <1>1, <1>2, <1>3, <1>4, <1>5, <1>6, <1>7 DEF Next, LoopStep, Quiet

\* What is left of a job's attempts when its task hands it back.
LEMMA ResolveAttempts ==
  ASSUME TypeOK, NEW u \in Urls, AttemptsOf(u), pc[u] = "apply", Resolve(u)
  PROVE  /\ status'[u] = "waiting" => attempts'[u] < RetryMax
         /\ \A v \in Urls \ {u} : attempts'[v] = attempts[v]
  <1> USE CrawlAssumption DEF TypeOK
  <1>1. status[u] = "running" /\ attempts[u] < RetryMax
    BY ResolveEffect DEF AttemptsOf
  <1>2. ASSUME NEW a \in Nat, NEW m, Requeue(u, a, m), a < RetryMax
        PROVE  /\ attempts'[u] < RetryMax
               /\ \A v \in Urls \ {u} : attempts'[v] = attempts[v]
    BY <1>2 DEF Requeue
  <1>3. CASE verdict[u] \in {"complete", "drop", "permanent"}
             \/ (verdict[u] = "fail" /\ attempts[u] + 1 >= RetryMax)
    <2>1. Queue!Finish(u) \/ Queue!GiveUp(u)
      BY <1>3 DEF Resolve
    <2>2. status'[u] # "waiting"
      BY <2>1, Moved DEF Queue!Finish, Queue!GiveUp, Queue!Move
    <2>3. \A v \in Urls \ {u} : attempts'[v] = attempts[v]
      BY <1>3 DEF Resolve
    <2> QED
      BY <2>2, <2>3
  <1>4. CASE verdict[u] = "fail" /\ attempts[u] + 1 < RetryMax
    BY <1>2, <1>4 DEF Resolve
  <1>5. CASE verdict[u] = "retry"
    BY <1>2, <1>5 DEF Resolve, AttemptsOf, RetriesLeft
  <1>6. CASE verdict[u] = "defer"
    BY <1>1, <1>2, <1>6 DEF Resolve
  <1>7. CASE verdict[u] = "render"
    BY <1>2, <1>7 DEF Resolve
  <1> QED
    BY <1>3, <1>4, <1>5, <1>6, <1>7 DEF Verdicts

\* A job whose row and verdict do not change keeps its account.
LEMMA AttemptsKeep ==
  ASSUME TypeOK, NEW u \in Urls, AttemptsOf(u), attempts'[u] = attempts[u],
         \/ status'[u] = status[u]
         \/ status[u] \in {"absent", "waiting", "running"} /\ status'[u] \in {"waiting", "running"},
         \/ pc'[u] = pc[u] /\ verdict'[u] = verdict[u]
         \/ pc'[u] # "apply"
         \/ verdict'[u] # "retry"
         \/ RetriesLeft(u)
  PROVE  AttemptsOf(u)'
  BY CrawlAssumption DEF AttemptsOf, RetriesLeft, TypeOK

LEMMA AttemptsStep ==
  ASSUME TypeOK, AttemptsInv, [Next]_vars
  PROVE  AttemptsInv'
  <1> SUFFICES ASSUME NEW u \in Urls PROVE AttemptsOf(u)'
    BY DEF AttemptsInv
  <1>0. AttemptsOf(u)
    BY DEF AttemptsInv
  <1> USE DEF TypeOK
  <1>1. CASE Start
    <2>1. status'[u] = status[u] \/ (status[u] = "running" /\ status'[u] = "waiting")
      BY <1>1, RecoverEffect DEF Start
    <2>2. attempts' = attempts /\ pc'[u] = "none"
      BY <1>1 DEF Start, Forget
    <2> QED
      BY <1>0, <2>1, <2>2, AttemptsKeep
  <1>2. CASE Crash
    BY <1>0, <1>2, AttemptsKeep DEF Crash, Forget, queue
  <1>3. ASSUME NEW v \in Seeds, AdmitSeed(v) PROVE AttemptsOf(u)'
    <2>1. status'[u] = status[u] \/ (status[u] = "absent" /\ status'[u] = "waiting")
      BY <1>3, CrawlAssumption DEF AdmitSeed, PushUnique, Queue!Admit, Queue!Move
    <2> QED
      BY <1>0, <1>3, <2>1, AttemptsKeep DEF AdmitSeed, tasks
  <1>4. CASE Quiet
    BY <1>0, <1>4, AttemptsKeep DEF Quiet, Seeded, CheckLimit, PopNone, Exhausted, Idle,
                                    Backpressure, Drained, Goto, queue, tasks
  <1>5. ASSUME NEW v \in Urls, Pop(v) PROVE AttemptsOf(u)'
    <2>1. status'[u] = status[u] \/ (status[u] = "waiting" /\ status'[u] = "running")
      BY <1>5 DEF Pop, Queue!Dispatch, Queue!Move
    <2> QED
      BY <1>0, <1>5, <2>1, AttemptsKeep DEF Pop, tasks
  <1>6. ASSUME NEW v \in Urls, Spawn(v) PROVE AttemptsOf(u)'
    <2>1. pc'[u] = pc[u] \/ pc'[u] = "fetch"
      BY <1>6 DEF Spawn
    <2> QED
      BY <1>0, <1>6, <2>1, AttemptsKeep DEF Spawn, Goto, queue
  <1>7. ASSUME NEW v \in Urls, TaskStep(v) PROVE AttemptsOf(u)'
    <2>1. CASE Apply(v)
      <3>1. CASE v = u
        <4>1. pc[u] = "apply" /\ pc'[u] = "none"
          BY <2>1, <3>1 DEF Apply, End, TaskGoto
        <4>2. status'[u] \in {"waiting", "done", "failed"}
              /\ (status'[u] = "waiting" => attempts'[u] < RetryMax)
          BY <1>0, <2>1, <3>1, <4>1, ResolveEffect, ResolveAttempts DEF Apply
        <4> QED
          BY <4>1, <4>2 DEF AttemptsOf
      <3>2. CASE v # u
        <4>1. AttemptsOf(v) /\ pc[v] = "apply"
          BY <2>1 DEF AttemptsInv, Apply, End, TaskGoto
        <4>2. status'[u] = status[u] /\ attempts'[u] = attempts[u]
          BY <2>1, <3>2, <4>1, ResolveEffect, ResolveAttempts DEF Apply
        <4> QED
          BY <1>0, <1>7, <3>2, <4>2, TaskFrame, AttemptsKeep
      <3> QED
        BY <3>1, <3>2
    <2>2. CASE ~Apply(v)
      <3>1. attempts' = attempts
        BY <1>7, <2>2 DEF TaskStep, Refused, Deferred, Fetched, AllAdmitted, InsertFails, TimeOut,
                          ApplyFails, Probe, InsertChild, MarkSeen, queue
      <3>2. status'[u] = status[u] \/ (status[u] = "absent" /\ status'[u] = "waiting")
        <4>1. ASSUME NEW w \in Urls, InsertChild(v, w)
              PROVE  status'[u] = status[u] \/ (status[u] = "absent" /\ status'[u] = "waiting")
          BY <4>1 DEF InsertChild, PushUnique, Queue!Admit, Queue!Move
        <4> QED
          BY <1>7, <2>2, <4>1, TaskStatus
      <3>3. CASE v # u
        BY <1>0, <1>7, <3>1, <3>2, <3>3, TaskFrame, AttemptsKeep
      <3>4. CASE v = u
        <4>1. \/ pc'[u] = pc[u] /\ verdict'[u] = verdict[u]
              \/ pc'[u] # "apply"
              \/ verdict'[u] # "retry"
              \/ RetriesLeft(u)
          <5>1. CASE Refused(u)
            <6>1. PICK x \in Outcomes(u) \cup {"permanent"} : Decide(u, x)
              BY <5>1 DEF Refused
            <6>2. x = "retry" => RetriesLeft(u)
              BY <6>1 DEF Outcomes
            <6> QED
              BY <6>1, <6>2 DEF Decide
          <5>2. CASE Deferred(u) \/ AllAdmitted(u) \/ TimeOut(u)
            BY <5>2 DEF Deferred, AllAdmitted, TimeOut, Decide
          <5>3. CASE InsertFails(u)
            BY <5>3 DEF InsertFails, Decide, TaskGoto
          <5>4. CASE Fetched(u) \/ ApplyFails(u)
                     \/ \E w \in Urls : Probe(u, w) \/ InsertChild(u, w) \/ MarkSeen(u, w)
            BY <5>4 DEF Fetched, ApplyFails, End, Probe, InsertChild, MarkSeen, TaskGoto
          <5> QED
            BY <1>7, <2>2, <3>4, <5>1, <5>2, <5>3, <5>4 DEF TaskStep
        <4> QED
          BY <1>0, <3>1, <3>2, <4>1, AttemptsKeep
      <3> QED
        BY <3>3, <3>4
    <2> QED
      BY <2>1, <2>2
  <1>8. CASE UNCHANGED vars \/ \E v \in Urls : Ripen(v)
    <2>1. UNCHANGED <<status, attempts, pc, verdict>>
      BY <1>8 DEF vars, Ripen, tasks
    <2> QED
      BY <1>0, <2>1, AttemptsKeep
  <1> QED
    BY <1>1, <1>2, <1>3, <1>4, <1>5, <1>6, <1>7, <1>8 DEF Next, LoopStep, Quiet

\* The invariant of every crawl.
THEOREM Invariance == Spec => []IInv
  <1>1. Init => IInv
    BY InitIInv
  <1>2. IInv /\ [Next]_vars => IInv'
    <2> SUFFICES ASSUME IInv, [Next]_vars PROVE IInv'
      OBVIOUS
    <2>1. TypeOK /\ LoopInv /\ TaskOwnsJob /\ SeenIsAdmitted /\ TasksInv /\ SavedLinks
          /\ LimitHolds /\ RoomInv /\ AttemptsInv
      BY DEF IInv
    <2>2. TypeOK'
      BY <2>1, TypeStep
    <2>3. LoopInv'
      BY <2>1, LoopStepInv
    <2>4. TaskOwnsJob'
      BY <2>1, OwnsStep
    <2>5. SeenIsAdmitted'
      BY <2>1, SeenStep
    <2>6. TasksInv' /\ SavedLinks'
      BY <2>1, TasksStep, SavedStep
    <2>7. LimitHolds' /\ RoomInv' /\ AttemptsInv'
      BY <2>1, LimitStep, RoomStep, AttemptsStep
    <2> QED
      BY <2>2, <2>3, <2>4, <2>5, <2>6, <2>7 DEF IInv
  <1> QED
    BY <1>1, <1>2, PTL DEF Spec

\* Every variable keeps its type.
THEOREM SpecTypeOK == Spec => []TypeOK
  BY Invariance, PTL DEF IInv

\* The recent set never drops a URL the queue does not have.
THEOREM SpecSeenIsAdmitted == Spec => []SeenIsAdmitted
  BY Invariance, PTL DEF IInv

\* A row is marked running exactly while the loop or a task holds its job,
\* or its last write failed.
THEOREM SpecTaskOwnsJob == Spec => []TaskOwnsJob
  BY Invariance, PTL DEF IInv

\* The run loop never dispatches more than max_pages jobs.
THEOREM SpecLimitHolds == Spec => []LimitHolds
  BY Invariance, PTL DEF IInv

\* The JoinSet stays within the concurrency cap.
THEOREM SpecJoinSetBounded == Spec => []JoinSetBounded
  <1>1. IInv => JoinSetBounded
    <2> SUFFICES ASSUME IInv PROVE JoinSetBounded
      OBVIOUS
    <2>1. JoinSetLen \in Int
      BY ActiveSize DEF IInv, TypeOK, JoinSetLen
    <2> QED
      BY <2>1, CrawlAssumption DEF IInv, RoomInv, JoinSetBounded
  <1> QED
    BY <1>1, Invariance, PTL

\* No live job has used up its retries.
THEOREM SpecAttemptsWithinCap == Spec => []AttemptsWithinCap
  <1>1. IInv => AttemptsWithinCap
    BY DEF IInv, AttemptsInv, AttemptsOf, AttemptsWithinCap
  <1> QED
    BY <1>1, Invariance, PTL

\* Where no page is a script, everything that was saved has had all its
\* links admitted.
THEOREM SpecLosslessAdmission == ASSUME Scripts = {} PROVE Spec => []LosslessAdmission
  <1>1. IInv => LosslessAdmission
    BY DEF IInv, TypeOK, SavedLinks, Owed, Admitted, LosslessAdmission
  <1> QED
    BY <1>1, Invariance, PTL

\* A run that stops has handed back every job it popped.
THEOREM SpecStopsClean == Spec => []StopsClean
  <1>1. IInv => StopsClean
    BY DEF IInv, LoopInv, TaskOwnsJob, StopsClean
  <1> QED
    BY <1>1, Invariance, PTL

\* A crawl that ran out of jobs has processed its seeds and the links of
\* every page it completed, whatever crashed, timed out or was retried.
THEOREM SpecNothingLeftBehind == Spec => []NothingLeftBehind
  <1>1. IInv => NothingLeftBehind
    <2> SUFFICES ASSUME IInv, main = "ended", ~LimitReached,
                        NEW v \in Seeds \cup UNION {Followed(s) : s \in saved \ Scripts}
                 PROVE  status[v] \in {"done", "failed"} \/ v \in stranded
      BY DEF NothingLeftBehind
    <2>1. v \in Urls /\ status[v] \in Queue!Statuses
      BY CrawlAssumption DEF IInv, TypeOK, Followed
    <2>2. status[v] # "absent"
      BY DEF IInv, LoopInv, SavedLinks, Admitted, Owed, TypeOK
    <2>3. status[v] # "waiting"
      BY <2>1 DEF IInv, LoopInv, Waiting
    <2>4. status[v] = "running" => v \in stranded
      BY <2>1 DEF IInv, LoopInv, TaskOwnsJob
    <2> QED
      BY <2>1, <2>2, <2>3, <2>4 DEF Queue!Statuses
  <1> QED
    BY <1>1, Invariance, PTL

-----------------------------------------------------------------------------
LEMMA QueueStep ==
  ASSUME TypeOK, [Next]_vars
  PROVE  [Queue!Next]_(Queue!vars)
  <1> USE DEF Queue!vars
  <1>1. CASE Start
    BY <1>1 DEF Start, Queue!Next
  <1>2. CASE Crash \/ UNCHANGED vars
    BY <1>2 DEF Crash, queue, vars
  <1>3. ASSUME NEW v \in Urls, NEW d, NEW m, PushUnique(v, d, m) PROVE [Queue!Next]_(Queue!vars)
    BY <1>3 DEF PushUnique, Queue!Next
  <1>4. ASSUME NEW v \in Seeds, AdmitSeed(v) PROVE [Queue!Next]_(Queue!vars)
    BY <1>3, <1>4, CrawlAssumption DEF AdmitSeed
  <1>5. CASE Quiet
    BY <1>5, QuietFrame DEF queue
  <1>6. ASSUME NEW u \in Urls, Pop(u) PROVE [Queue!Next]_(Queue!vars)
    BY <1>6 DEF Pop, Queue!Next
  <1>7. ASSUME NEW u \in Urls, Spawn(u) \/ Ripen(u) PROVE [Queue!Next]_(Queue!vars)
    BY <1>7 DEF Spawn, Goto, Ripen, queue
  <1>8. ASSUME NEW u \in Urls, TaskStep(u) PROVE [Queue!Next]_(Queue!vars)
    <2>1. CASE Apply(u)
      <3>1. Queue!Finish(u) \/ Queue!GiveUp(u) \/ Queue!Retry(u)
        BY <2>1 DEF Apply, Resolve, Requeue
      <3> QED
        BY <3>1 DEF Queue!Next
    <2>2. ASSUME NEW v \in Urls, InsertChild(u, v) PROVE [Queue!Next]_(Queue!vars)
      BY <1>3, <2>2 DEF InsertChild
    <2> QED
      BY <1>8, <2>1, <2>2, TaskStatus
  <1> QED
    BY <1>1, <1>2, <1>4, <1>5, <1>6, <1>7, <1>8 DEF Next, LoopStep, Quiet

\* Every step of a crawl is a step of the abstract queue or leaves it alone:
\* the loop, its tasks and every path that hands a job back use it as the
\* trait JobQueue promises, and what is proved of a durable queue holds here.
THEOREM SpecQueue == Spec => Queue!Spec
  <1>1. Init => Queue!Init
    BY DEF Init
  <1>2. TypeOK /\ [Next]_vars => [Queue!Next]_(Queue!vars)
    BY QueueStep
  <1> QED
    BY <1>1, <1>2, SpecTypeOK, PTL DEF Spec, Queue!Spec

\* A job that is done or has failed stays so: no later run, no seed, no link
\* that names it again and no crash makes the crawl fetch it a second time.
ProcessedOnce ==
    [][\A u \in Urls : status[u] \in {"done", "failed"} => status'[u] = status[u]]_vars

\* A URL that is done is done for all runs on this queue (push_unique, pop).
THEOREM SpecProcessedOnce == Spec => ProcessedOnce
  <1>1. ASSUME TypeOK, [Next]_vars, NEW u \in Urls, status[u] \in {"done", "failed"}
        PROVE  status'[u] = status[u]
    <2>1. CASE Start
      BY <1>1, <2>1, RecoverEffect DEF Start
    <2>2. CASE Crash \/ UNCHANGED vars
      BY <2>2 DEF Crash, queue, vars
    <2>3. ASSUME NEW v \in Seeds, AdmitSeed(v) PROVE status'[u] = status[u]
      BY <1>1, <2>3, PushEffect, CrawlAssumption DEF AdmitSeed
    <2>4. CASE Quiet
      BY <2>4, QuietFrame DEF queue
    <2>5. ASSUME NEW v \in Urls, Pop(v) PROVE status'[u] = status[u]
      BY <1>1, <2>5 DEF Pop, Queue!Dispatch, Queue!Move, TypeOK
    <2>6. ASSUME NEW v \in Urls, Spawn(v) \/ Ripen(v) PROVE status'[u] = status[u]
      BY <2>6 DEF Spawn, Goto, Ripen, queue
    <2>7. ASSUME NEW v \in Urls, TaskStep(v) PROVE status'[u] = status[u]
      <3>1. CASE Apply(v)
        BY <1>1, <3>1, ResolveEffect DEF Apply
      <3>2. ASSUME NEW w \in Urls, InsertChild(v, w) PROVE status'[u] = status[u]
        <4>1. depth[v] + 1 \in Nat /\ method[v] \in {"auto", "render"}
          BY <1>1 DEF TypeOK
        <4> QED
          BY <1>1, <3>2, <4>1, PushEffect DEF InsertChild
      <3> QED
        BY <1>1, <2>7, <3>1, <3>2, TaskStatus
    <2> QED
      BY <1>1, <2>1, <2>2, <2>3, <2>4, <2>5, <2>6, <2>7 DEF Next, LoopStep, Quiet
  <1>2. TypeOK /\ [Next]_vars =>
          [\A u \in Urls : status[u] \in {"done", "failed"} => status'[u] = status[u]]_vars
    BY <1>1
  <1> QED
    BY <1>2, SpecTypeOK, PTL DEF Spec, ProcessedOnce

-----------------------------------------------------------------------------
\* How often a job may still go back to the queue of its own: its remaining
\* attempts, and once more all of them when it is escalated to a render.
Fuel(u) == (IF method[u] = "auto" THEN RetryMax + 1 ELSE 0) + (RetryMax - attempts[u])

\* A task escalates a job only from a plain fetch.
EscalatesOnce ==
    \A u \in Urls : pc[u] = "apply" /\ verdict[u] = "render" => method[u] = "auto"

\* Every return of a job to the queue burns fuel, unless a new
\* run reclaims it or the job is deferred; and nothing ever adds fuel to a job
\* that was admitted.  So a job is fetched at most 2 * RetryMax + 1 times next to its
\* deferrals and the crashes it was in.
FuelBurns ==
    [][\A u \in Urls :
         /\ status[u] # "absent" => Fuel(u)' <= Fuel(u)
         /\ status[u] = "running" /\ status'[u] = "waiting" =>
               main \in {"down", "ended"} \/ verdict[u] = "defer" \/ Fuel(u)' < Fuel(u)]_vars

\* There is always fuel left for a job that may run.
FuelLeft ==
    \A u \in Urls : status[u] \in {"waiting", "running"} => Fuel(u) \in 1 .. 2 * RetryMax + 1

LEMMA MethodStays ==
  ASSUME TypeOK, [Next]_vars, NEW u \in Urls, status[u] # "absent", ~Apply(u)
  PROVE  method'[u] = method[u] /\ attempts'[u] = attempts[u]
  <1>1. ASSUME NEW v \in Urls, NEW d, NEW m, PushUnique(v, d, m), attempts' = attempts
        PROVE  method'[u] = method[u] /\ attempts'[u] = attempts[u]
    BY <1>1 DEF PushUnique, Queue!Admit, Queue!Move, TypeOK
  <1>2. ASSUME NEW v \in Seeds, AdmitSeed(v)
        PROVE  method'[u] = method[u] /\ attempts'[u] = attempts[u]
    BY <1>1, <1>2, CrawlAssumption DEF AdmitSeed
  <1>3. ASSUME NEW v \in Urls, NEW w \in Urls, InsertChild(v, w)
        PROVE  method'[u] = method[u] /\ attempts'[u] = attempts[u]
    BY <1>1, <1>3 DEF InsertChild
  <1>4. ASSUME NEW v \in Urls, v # u, Apply(v)
        PROVE  method'[u] = method[u] /\ attempts'[u] = attempts[u]
    BY <1>4 DEF Apply, Resolve, Requeue, TypeOK
  <1>5. ASSUME NEW v \in Urls, TaskStep(v), ~Apply(v), ~\E w \in Urls : InsertChild(v, w)
        PROVE  method' = method /\ attempts' = attempts
    BY <1>5 DEF TaskStep, Refused, Deferred, Fetched, AllAdmitted, InsertFails, TimeOut,
                ApplyFails, Probe, MarkSeen, queue
  <1>6. ASSUME NEW v \in Urls, TaskStep(v)
        PROVE  method'[u] = method[u] /\ attempts'[u] = attempts[u]
    BY <1>3, <1>4, <1>5, <1>6
  <1>7. CASE Start \/ Crash \/ UNCHANGED vars \/ \E v \in Urls : Pop(v) \/ Spawn(v) \/ Ripen(v)
    BY <1>7 DEF Start, Crash, vars, queue, Pop, Spawn, Goto, Ripen
  <1>8. CASE Quiet
    BY <1>8 DEF Quiet, Seeded, CheckLimit, PopNone, Exhausted, Idle, Backpressure, Drained, Goto,
                queue
  <1> QED
    BY <1>2, <1>6, <1>7, <1>8 DEF Next, LoopStep, Quiet

LEMMA EscalatesStep ==
  ASSUME IInv, EscalatesOnce, [Next]_vars
  PROVE  EscalatesOnce'
  <1>0. TypeOK /\ TypeOK'
    BY TypeStep DEF IInv
  <1> SUFFICES ASSUME NEW u \in Urls, pc'[u] = "apply", verdict'[u] = "render"
               PROVE  method'[u] = "auto"
    BY DEF EscalatesOnce
  <1>1. CASE pc[u] = "apply" /\ verdict[u] = "render"
    <2>1. method[u] = "auto"
      BY <1>1 DEF EscalatesOnce
    <2>2. status[u] = "running"
      BY <1>1 DEF IInv, LoopInv, TaskOwnsJob, Active
    <2>3. ~Apply(u)
      BY <1>0 DEF Apply, End, TaskGoto, TypeOK
    <2> QED
      BY <1>0, <2>1, <2>2, <2>3, MethodStays
  <1>2. ASSUME ~(pc[u] = "apply" /\ verdict[u] = "render")
        PROVE  method'[u] = "auto"
    <2>1. \E v \in Urls : TaskStep(v)
      <3>1. CASE Start \/ Crash
        BY <3>1 DEF Start, Crash, Forget
      <3>2. CASE Quiet
        BY <1>2, <3>2 DEF Quiet, Seeded, CheckLimit, PopNone, Exhausted, Idle, Backpressure,
                          Drained, Goto, tasks
      <3>3. CASE \E v \in Seeds : AdmitSeed(v)
        BY <1>2, <3>3 DEF AdmitSeed, tasks
      <3>4. ASSUME NEW v \in Urls, Spawn(v) PROVE FALSE
        BY <1>0, <1>2, <3>4 DEF Spawn, TypeOK
      <3>5. CASE UNCHANGED vars \/ \E v \in Urls : Pop(v) \/ Ripen(v)
        BY <1>2, <3>5 DEF vars, Pop, Ripen, tasks
      <3> QED
        BY <3>1, <3>2, <3>3, <3>4, <3>5 DEF Next, LoopStep, Quiet
    <2>2. TaskStep(u)
      BY <1>0, <1>2, <2>1, TaskFrame
    <2>3. Refused(u)
      <3>1. CASE Deferred(u) \/ AllAdmitted(u) \/ TimeOut(u)
        BY <1>0, <3>1 DEF Deferred, AllAdmitted, TimeOut, Decide, TypeOK
      <3>2. CASE InsertFails(u)
        BY <1>0, <3>2 DEF InsertFails, Decide, TaskGoto, TypeOK
      <3>3. CASE Fetched(u) \/ Apply(u) \/ ApplyFails(u)
                 \/ \E w \in Urls : Probe(u, w) \/ InsertChild(u, w) \/ MarkSeen(u, w)
        BY <1>0, <3>3 DEF Fetched, Apply, ApplyFails, End, Probe, InsertChild, MarkSeen, TaskGoto,
                          TypeOK
      <3> QED
        BY <2>2, <3>1, <3>2, <3>3 DEF TaskStep
    <2>4. PICK x \in Outcomes(u) \cup {"permanent"} : Decide(u, x)
      BY <2>3 DEF Refused
    <2>5. x = "render"
      BY <1>0, <2>4 DEF Decide, TypeOK
    <2>6. method[u] = "auto"
      BY <2>4, <2>5 DEF Outcomes
    <2> QED
      BY <2>3, <2>6 DEF Refused, queue
  <1> QED
    BY <1>1, <1>2

\* The fuel of a job when its task hands it back.
LEMMA ResolveFuel ==
  ASSUME IInv, EscalatesOnce, NEW u \in Urls, Apply(u)
  PROVE  /\ Fuel(u)' <= Fuel(u)
         /\ status'[u] = "waiting" => verdict[u] = "defer" \/ Fuel(u)' < Fuel(u)
  <1>1. /\ pc[u] = "apply" /\ Resolve(u) /\ TypeOK
        /\ attempts[u] \in Nat /\ attempts[u] < RetryMax /\ RetryMax \in Nat
        /\ method[u] \in {"auto", "render"} /\ verdict[u] \in Verdicts
    BY ResolveEffect, CrawlAssumption
    DEF Apply, End, TaskGoto, IInv, TypeOK, AttemptsInv, AttemptsOf
  <1>2. ASSUME NEW a \in Nat, NEW m \in {"auto", "render"}, Requeue(u, a, m)
        PROVE  attempts'[u] = a /\ method'[u] = m
    BY <1>1, <1>2 DEF Requeue, TypeOK
  <1>3. CASE verdict[u] \in {"complete", "drop"}
    <2>1. attempts' = attempts /\ method' = method /\ Queue!Finish(u)
      BY <1>1, <1>3 DEF Resolve
    <2>2. status'[u] # "waiting"
      BY <1>1, <2>1 DEF Queue!Finish, Queue!Move, TypeOK
    <2> QED
      BY <1>1, <2>1, <2>2 DEF Fuel
  <1>4. CASE verdict[u] = "permanent" \/ (verdict[u] = "fail" /\ attempts[u] + 1 >= RetryMax)
    <2>1. attempts'[u] = attempts[u] + 1 /\ method' = method
      BY <1>1, <1>4 DEF Resolve, TypeOK
    <2> QED
      BY <1>1, <2>1 DEF Fuel
  <1>5. CASE (verdict[u] = "fail" /\ attempts[u] + 1 < RetryMax) \/ verdict[u] = "retry"
    <2>1. attempts'[u] = attempts[u] + 1 /\ method'[u] = method[u]
      BY <1>1, <1>2, <1>5 DEF Resolve
    <2> QED
      BY <1>1, <2>1 DEF Fuel
  <1>6. CASE verdict[u] = "defer"
    <2>1. attempts'[u] = attempts[u] /\ method'[u] = method[u]
      BY <1>1, <1>2, <1>6 DEF Resolve
    <2> QED
      BY <1>1, <1>6, <2>1 DEF Fuel
  <1>7. CASE verdict[u] = "render"
    <2>1. attempts'[u] = 0 /\ method'[u] = "render" /\ method[u] = "auto"
      BY <1>1, <1>2, <1>7 DEF Resolve, EscalatesOnce
    <2> QED
      BY <1>1, <2>1 DEF Fuel
  <1> QED
    BY <1>1, <1>3, <1>4, <1>5, <1>6, <1>7 DEF Verdicts

\* No render is escalated again.
THEOREM SpecEscalatesOnce == Spec => []EscalatesOnce
  <1>1. Init => EscalatesOnce
    BY DEF Init, EscalatesOnce
  <1>2. IInv /\ EscalatesOnce /\ [Next]_vars => EscalatesOnce'
    BY EscalatesStep
  <1> QED
    BY <1>1, <1>2, Invariance, PTL DEF Spec

\* No job in the queue or in hand has used up its retries.
THEOREM SpecFuelLeft == Spec => []FuelLeft
  <1>1. IInv => FuelLeft
    BY CrawlAssumption DEF IInv, TypeOK, AttemptsInv, AttemptsOf, FuelLeft, Fuel
  <1> QED
    BY <1>1, Invariance, PTL

\* Failures, retries, timeouts and escalations together use up the retries
\* (apply_job_disposition, max_retries).
THEOREM SpecFuelBurns == Spec => FuelBurns
  <1>1. ASSUME IInv, EscalatesOnce, [Next]_vars, NEW u \in Urls
        PROVE  /\ status[u] # "absent" => Fuel(u)' <= Fuel(u)
               /\ status[u] = "running" /\ status'[u] = "waiting" =>
                     main \in {"down", "ended"} \/ verdict[u] = "defer" \/ Fuel(u)' < Fuel(u)
    <2>1. CASE Apply(u)
      BY <1>1, <2>1, ResolveFuel
    <2>2. ASSUME status[u] # "absent", ~Apply(u) PROVE Fuel(u)' <= Fuel(u)
      <3>1. method'[u] = method[u] /\ attempts'[u] = attempts[u]
        BY <1>1, <2>2, MethodStays DEF IInv
      <3>2. Fuel(u) \in Int
        BY <1>1, CrawlAssumption DEF IInv, TypeOK, Fuel
      <3>3. Fuel(u)' = Fuel(u)
        BY <3>1 DEF Fuel
      <3> QED
        BY <3>2, <3>3
    <2>3. ASSUME ~Apply(u), status[u] = "running", status'[u] = "waiting" 
          PROVE  main \in {"down", "ended"}
      <3>1. TypeOK
        BY <1>1 DEF IInv
      <3>2. CASE Start
        BY <3>2 DEF Start
      <3>3. ASSUME NEW v \in Urls, TaskStep(v) PROVE FALSE
        <4>1. CASE Apply(v)
          BY <2>3, <3>1, <4>1, ResolveEffect DEF Apply
        <4>2. CASE status' = status
          BY <2>3, <4>2
        <4>3. ASSUME NEW w \in Urls, InsertChild(v, w) PROVE FALSE
          BY <2>3, <3>1, <4>3 DEF InsertChild, PushUnique, Queue!Admit, Queue!Move, TypeOK
        <4> QED
          BY <3>1, <3>3, <4>1, <4>2, <4>3, TaskStatus
      <3>4. ASSUME NEW v \in Urls, Pop(v) PROVE FALSE
        BY <2>3, <3>1, <3>4 DEF Pop, Queue!Dispatch, Queue!Move, TypeOK
      <3>5. ASSUME NEW v \in Seeds, AdmitSeed(v) PROVE FALSE
        BY <2>3, <3>1, <3>5, CrawlAssumption
        DEF AdmitSeed, PushUnique, Queue!Admit, Queue!Move, TypeOK
      <3>6. CASE Crash \/ UNCHANGED vars \/ Quiet \/ \E v \in Urls : Spawn(v) \/ Ripen(v)
        BY <2>3, <3>6, QuietFrame DEF Crash, vars, queue, Spawn, Goto, Ripen
      <3> QED
        BY <1>1, <3>2, <3>3, <3>4, <3>5, <3>6 DEF Next, LoopStep, Quiet
    <2> QED
      BY <2>1, <2>2, <2>3
  <1>2. IInv /\ EscalatesOnce /\ [Next]_vars =>
          [\A u \in Urls :
             /\ status[u] # "absent" => Fuel(u)' <= Fuel(u)
             /\ status[u] = "running" /\ status'[u] = "waiting" =>
                   main \in {"down", "ended"} \/ verdict[u] = "defer" \/ Fuel(u)' < Fuel(u)]_vars
    BY <1>1
  <1> QED
    BY <1>2, Invariance, SpecEscalatesOnce, PTL DEF Spec, FuelBurns
====
