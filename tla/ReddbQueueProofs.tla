---- MODULE ReddbQueueProofs ----
(***************************************************************************)
(* Theorems of ReddbQueue, for all URLs, links, tasks and bounds, and for  *)
(* any number of crashes and restarts.                                     *)
(***************************************************************************)
EXTENDS ReddbQueue, TLAPS

Busy == Admitting \cup HandingBack

\* Who is where holds what it needs there.
Equipped ==
    /\ \A w \in Workers : pc[w] \in Busy => writing[w] \in Job
    /\ \A w \in Workers : pc[w] \notin Busy => writing[w] = NoJob
    /\ \A t \in Tasks : pc[t] \in {"work"} \cup Admitting => job[t] \in Job
    /\ pc[Main] = "permit" => job[Main] \in Job
    /\ pc[Main] = "down" => \A w \in Workers : pc[w] = "down"
    /\ \A w \in Workers : job[w] # NoJob => job[w] \in rows
    /\ \A i \in DOMAIN in_flight : in_flight[i] \in rows

\* Rows come before messages, messages before marks.
Ordered ==
    /\ Messages \cup reading \subseteq pushed
    /\ \A m \in pushed : RowOf(m) \in rows
    /\ \A w \in Workers : pc[w] \in {"push_new", "push_again"} => writing[w] \in rows
    /\ seen \subseteq {m.key : m \in pushed}
    /\ \A w \in Workers : pc[w] = "mark" => writing[w].key \in {m.key : m \in pushed}

\* A message number is used once, and in_flight_messages goes by job id.
Numbered ==
    /\ \A m, n \in pushed : m.number = n.number => m = n
    /\ \A i \in DOMAIN in_flight_messages : \E m \in pushed :
          m.number = in_flight_messages[i] /\ m.id = i

\* The jobs that are in the table or about to be put there.
Known == rows \cup ({writing[w] : w \in Workers} \ {NoJob})

\* Until a second process starts, ids are below the counter and name URLs.
OneUrlPerId ==
    /\ runs = 0 => rows = {} /\ pushed = {} /\ seen = {} /\ pc = [w \in Workers |-> "down"]
    /\ runs = 1 =>
        /\ \A r, s \in Known : r.id = s.id => r.key = s.key
        /\ pc[Main] # "down" => \A r \in Known : r.id < next_id

Safe(k) == k \in resolved \cup lost \/ Carried(k)

NoneForgotten ==
    runs = 1 =>
        /\ \A k \in seen : Safe(k)
        /\ \A w \in Workers : pc[w] = "mark" => Safe(writing[w].key)

\* Every step keeps the types.
LEMMA TypeStep ==
    ASSUME TypeOK, Equipped, [Next]_vars
    PROVE  TypeOK'
<1> USE ReddbAssumption DEF TypeOK, Workers, Job, Message, Places, Admitting, HandingBack,
     Equipped, Busy
<1>1. CASE Start
  BY <1>1 DEF Start, store, history
<1>2. CASE Stop
  BY <1>2, SMTT(40) DEF Stop, store, Empty, Nowhere, CutShort
<1>3. CASE Seeded
  BY <1>3 DEF Seeded, Goto, store, history
<1>4. ASSUME NEW m \in waiting, Read(m) PROVE TypeOK'
  BY <1>4 DEF Read, Goto, history
<1>5. ASSUME NEW r \in rows, Load(r) PROVE TypeOK'
  BY <1>5 DEF Load, Goto, store, history, Put
<1>6. ASSUME NEW t \in Tasks, Spawn(t) PROVE TypeOK'
  BY <1>6 DEF Spawn, store, history
<1>7. ASSUME NEW w \in Workers, NEW k \in owes[w], Probe(w, k) PROVE TypeOK'
  BY <1>7, SMTT(40) DEF Probe, TakeId, Fault, Goto, store, history
<1>8. ASSUME NEW w \in Workers, Insert(w) PROVE TypeOK'
  BY <1>8 DEF Insert, Goto, history
<1>9. ASSUME NEW w \in Workers, Push(w) PROVE TypeOK'
  <2>1. writing[w] \in Job /\ pc' \in [Workers -> Places] /\ writing' \in [Workers -> Job \cup {NoJob}]
    BY <1>9 DEF Push, Goto
  <2>2. PICK n \in 1..MAX_MESSAGES :
          LET m == [number |-> n, id |-> writing[w].id, key |-> writing[w].key,
                    attempts |-> writing[w].attempts, new |-> pc[w] = "push_new"]
          IN  waiting' = waiting \cup {m} /\ pushed' = pushed \cup {m}
    BY <1>9 DEF Push
  <2>3. (pc[w] = "push_new") \in BOOLEAN
    OBVIOUS
  <2>4. [number |-> n, id |-> writing[w].id, key |-> writing[w].key,
         attempts |-> writing[w].attempts, new |-> pc[w] = "push_new"] \in Message
    BY <2>1, <2>3
  <2>5. waiting' \subseteq Message /\ pushed' \subseteq Message
    BY <2>2, <2>4
  <2> QED
    BY <2>1, <2>5, <1>9 DEF Push
<1>10. ASSUME NEW w \in Workers, Mark(w) PROVE TypeOK'
  BY <1>10 DEF Mark, Goto, Fault, history
<1>11. ASSUME NEW t \in Tasks, pc[t] = "work", Complete(t) PROVE TypeOK'
  BY <1>11 DEF Complete, Leave, Goto, Acknowledge, AcknowledgeFails, Removed, Answered, Without
<1>12. ASSUME NEW t \in Tasks, pc[t] = "work", Requeue(t) PROVE TypeOK'
  <2>1. ASSUME NEW r \in Job, NEW to \in {"idle", "insert_again"}, NEW x \in {r, NoJob}, Leave(t, to, x)
        PROVE  /\ pc' \in [Workers -> Places] /\ writing' \in [Workers -> Job \cup {NoJob}]
               /\ job' \in [Workers -> Job \cup {NoJob}] /\ owes' \in [Workers -> SUBSET Keys]
    BY <2>1 DEF Leave, Goto
  <2>2. job[t] \in Job /\ next_id' \in Nat
    BY <1>12 DEF Requeue, TakeId
  <2>3. [job[t] EXCEPT !.attempts = @ + 1] \in Job
    BY <2>2
  <2>4. ASSUME NEW a \in {0, job[t].attempts}
        PROVE  [job[t] EXCEPT !.id = next_id, !.attempts = a] \in Job
    <3>1. a \in Nat /\ next_id \in Nat
      BY <2>2
    <3> QED
      BY <3>1, <2>2
  <2>5. /\ pc' \in [Workers -> Places] /\ writing' \in [Workers -> Job \cup {NoJob}]
        /\ job' \in [Workers -> Job \cup {NoJob}] /\ owes' \in [Workers -> SUBSET Keys]
    BY <1>12, <2>1, <2>2, <2>3, <2>4 DEF Requeue
  <2>6. /\ DOMAIN in_flight' \subseteq Nat /\ in_flight' \in [DOMAIN in_flight' -> Job]
        /\ \A i \in DOMAIN in_flight' : in_flight'[i].id = i
        /\ DOMAIN in_flight_messages' \subseteq Nat
        /\ in_flight_messages' \in [DOMAIN in_flight_messages' -> Nat]
        /\ delivered' \subseteq Message
    BY <1>12 DEF Requeue, Acknowledge, AcknowledgeFails, Removed, Answered, Without
  <2> QED
    BY <1>12, <2>2, <2>5, <2>6 DEF Requeue, Leave
<1>13. ASSUME NEW t \in Tasks, pc[t] = "work", Forgotten(t) PROVE TypeOK'
  BY <1>13 DEF Forgotten, Leave, Goto
<1>14. ASSUME NEW t \in Tasks, pc[t] = "work", Fail(t) PROVE TypeOK'
  <2>1. [in_flight[job[t].id] EXCEPT !.attempts = @ + 1] \in Job
    BY <1>14, SMTT(40) DEF Fail, TakeOut
  <2> QED
    BY <1>14, <2>1 DEF Fail, TakeOut, Leave, Goto, Without
<1>15. ASSUME NEW t \in Tasks, pc[t] = "work", FailPermanently(t) PROVE TypeOK'
  BY <1>15 DEF FailPermanently, TakeOut, Leave, Goto, Without
<1>16. ASSUME NEW t \in Tasks, PushDead(t) PROVE TypeOK'
  BY <1>16 DEF PushDead, Goto, history
<1>17. ASSUME NEW t \in Tasks, Interrupted(t) PROVE TypeOK'
  BY <1>17, SMTT(40) DEF Interrupted, Goto, CutShort, store
<1>18. CASE UNCHANGED vars
  BY <1>18 DEF vars
<1> QED
  BY <1>1, <1>2, <1>3, <1>4, <1>5, <1>6, <1>7, <1>8, <1>9, <1>10, <1>11, <1>12, <1>13, <1>14,
       <1>15, <1>16, <1>17, <1>18 DEF Next, LoopStep, WorkerStep, TaskStep

\* Every step leaves each worker with what its place needs.
LEMMA EquippedStep ==
    ASSUME TypeOK, TypeOK', Equipped, Ordered, [Next]_vars
    PROVE  Equipped'
<1> USE ReddbAssumption DEF TypeOK, Workers, Job, Message, Places, Admitting, HandingBack,
     Equipped, Busy, Ordered, RowOf
<1>1. CASE Start
  BY <1>1 DEF Start, store, history
<1>2. CASE Stop
  BY <1>2 DEF Stop, store, Empty, Nowhere, CutShort
<1>3. CASE Seeded
  BY <1>3 DEF Seeded, Goto, store, history
<1>4. ASSUME NEW m \in waiting, Read(m) PROVE Equipped'
  BY <1>4 DEF Read, Goto, history
<1>5. ASSUME NEW r \in rows, Load(r) PROVE Equipped'
  BY <1>5 DEF Load, Goto, store, history, Put
<1>6. ASSUME NEW t \in Tasks, Spawn(t) PROVE Equipped'
  BY <1>6, ZenonT(60) DEF Spawn, store, history
<1>7. ASSUME NEW w \in Workers, NEW k \in owes[w], Probe(w, k) PROVE Equipped'
  BY <1>7, SMTT(40) DEF Probe, TakeId, Fault, Goto, store, history
<1>8. ASSUME NEW w \in Workers, Insert(w) PROVE Equipped'
  BY <1>8 DEF Insert, Goto, history
<1>9. ASSUME NEW w \in Workers, Push(w) PROVE Equipped'
  BY <1>9, SMTT(40) DEF Push, Goto, IsNextNumber
<1>10. ASSUME NEW w \in Workers, Mark(w) PROVE Equipped'
  BY <1>10 DEF Mark, Goto, Fault, history
<1>11. ASSUME NEW t \in Tasks, pc[t] = "work", Complete(t) PROVE Equipped'
  BY <1>11 DEF Complete, Leave, Goto, Acknowledge, AcknowledgeFails, Removed, Answered, Without
<1>12. ASSUME NEW t \in Tasks, pc[t] = "work", Requeue(t) PROVE Equipped'
  <2>1. job[t] \in Job
    BY <1>12
  <2>2. [job[t] EXCEPT !.attempts = @ + 1] \in Job
    BY <2>1
  <2>3. ASSUME NEW a \in {0, job[t].attempts}
        PROVE  [job[t] EXCEPT !.id = next_id, !.attempts = a] \in Job
    <3>1. a \in Nat /\ next_id \in Nat
      BY <2>1
    <3> QED
      BY <3>1, <2>1
  <2>4. PICK to \in {"idle", "insert_again"}, x \in Job \cup {NoJob} :
          Leave(t, to, x) /\ (to = "insert_again" => x \in Job) /\ (to = "idle" => x = NoJob)
    BY <1>12, <2>2, <2>3 DEF Requeue
  <2>5. \A i \in DOMAIN in_flight' : i \in DOMAIN in_flight /\ in_flight'[i] = in_flight[i]
    BY <1>12 DEF Requeue, Acknowledge, AcknowledgeFails, Removed, Without
  <2> QED
    BY <2>4, <2>5 DEF Leave, Goto
<1>13. ASSUME NEW t \in Tasks, pc[t] = "work", Forgotten(t) PROVE Equipped'
  BY <1>13, SMTT(40) DEF Forgotten, Leave, Goto
<1>14. ASSUME NEW t \in Tasks, pc[t] = "work", Fail(t) PROVE Equipped'
  <2>1. [in_flight[job[t].id] EXCEPT !.attempts = @ + 1] \in Job
    BY <1>14 DEF Fail, TakeOut
  <2> QED
    BY <1>14, <2>1, ZenonT(60) DEF Fail, TakeOut, Leave, Goto, Without
<1>15. ASSUME NEW t \in Tasks, pc[t] = "work", FailPermanently(t) PROVE Equipped'
  BY <1>15 DEF FailPermanently, TakeOut, Leave, Goto, Without
<1>16. ASSUME NEW t \in Tasks, PushDead(t) PROVE Equipped'
  BY <1>16 DEF PushDead, Goto, history
<1>17. ASSUME NEW t \in Tasks, Interrupted(t) PROVE Equipped'
  BY <1>17 DEF Interrupted, Goto, CutShort, store
<1>18. CASE UNCHANGED vars
  BY <1>18, SMTT(40) DEF vars
<1> QED
  BY <1>1, <1>2, <1>3, <1>4, <1>5, <1>6, <1>7, <1>8, <1>9, <1>10, <1>11, <1>12, <1>13, <1>14,
       <1>15, <1>16, <1>17, <1>18 DEF Next, LoopStep, WorkerStep, TaskStep

\* Every step keeps rows before messages and messages before marks.
LEMMA OrderedStep ==
    ASSUME TypeOK, Equipped, Ordered, [Next]_vars
    PROVE  Ordered'
<1> USE ReddbAssumption DEF TypeOK, Workers, Job, Message, Places, Admitting, HandingBack,
     Equipped, Busy, Ordered, RowOf, Messages
<1>1. CASE Start
  BY <1>1 DEF Start, store, history
<1>2. CASE Stop
  BY <1>2 DEF Stop, store, Empty, Nowhere, CutShort
<1>3. CASE Seeded
  BY <1>3 DEF Seeded, Goto, store, history
<1>4. ASSUME NEW m \in waiting, Read(m) PROVE Ordered'
  BY <1>4 DEF Read, Goto, history
<1>5. ASSUME NEW r \in rows, Load(r) PROVE Ordered'
  BY <1>5 DEF Load, Goto, store, history, Put
<1>6. ASSUME NEW t \in Tasks, Spawn(t) PROVE Ordered'
  BY <1>6 DEF Spawn, store, history
<1>7. ASSUME NEW w \in Workers, NEW k \in owes[w], Probe(w, k) PROVE Ordered'
  BY <1>7 DEF Probe, TakeId, Fault, Goto, store, history
<1>8. ASSUME NEW w \in Workers, Insert(w) PROVE Ordered'
  BY <1>8 DEF Insert, Goto, history
<1>9. ASSUME NEW w \in Workers, Push(w) PROVE Ordered'
  <2>1. writing[w] \in Job /\ writing[w] \in rows
    BY <1>9 DEF Push, Goto
  <2>2. PICK n \in 1..MAX_MESSAGES :
          LET m == [number |-> n, id |-> writing[w].id, key |-> writing[w].key,
                    attempts |-> writing[w].attempts, new |-> pc[w] = "push_new"]
          IN  waiting' = waiting \cup {m} /\ pushed' = pushed \cup {m}
    BY <1>9 DEF Push
  <2> DEFINE m == [number |-> n, id |-> writing[w].id, key |-> writing[w].key,
                   attempts |-> writing[w].attempts, new |-> pc[w] = "push_new"]
  <2>3. RowOf(m) = writing[w] /\ m.key = writing[w].key
    BY <2>1
  <2>4. Messages' \cup reading' \subseteq pushed' /\ \A x \in pushed' : RowOf(x) \in rows'
    <3>1. waiting' = waiting \cup {m} /\ pushed' = pushed \cup {m}
      BY <2>2
    <3>2. UNCHANGED <<rows, delivered, reading>>
      BY <1>9 DEF Push
    <3> HIDE DEF m
    <3> QED
      BY <2>1, <2>3, <3>1, <3>2
  <2>5. \A v \in Workers : pc'[v] = "mark" => writing'[v].key \in {x.key : x \in pushed'}
    <3>1. pushed' = pushed \cup {m}
      BY <2>2
    <3>2. \A v \in Workers : pc'[v] = "mark" => writing'[v] = writing[v] /\ (pc[v] = "mark" \/ v = w)
      BY <1>9 DEF Push, Goto
    <3> HIDE DEF m
    <3> QED
      BY <2>3, <3>1, <3>2
  <2>6. \A v \in Workers : pc'[v] \in {"push_new", "push_again"} => writing'[v] \in rows'
    BY <1>9 DEF Push, Goto
  <2>7. seen' \subseteq {x.key : x \in pushed'}
    BY <1>9, <2>2 DEF Push
  <2> QED
    BY <2>4, <2>5, <2>6, <2>7
<1>10. ASSUME NEW w \in Workers, Mark(w) PROVE Ordered'
  BY <1>10 DEF Mark, Goto, Fault, history
<1>11. ASSUME NEW t \in Tasks, pc[t] = "work", Complete(t) PROVE Ordered'
  BY <1>11 DEF Complete, Leave, Goto, Acknowledge, AcknowledgeFails, Removed, Answered, Without
<1>12. ASSUME NEW t \in Tasks, pc[t] = "work", Requeue(t) PROVE Ordered'
  <2>1. delivered' \subseteq delivered
    BY <1>12 DEF Requeue, Acknowledge, AcknowledgeFails
  <2>2. PICK to, x : to \in {"idle", "insert_again"} /\ Leave(t, to, x)
    BY <1>12 DEF Requeue
  <2>3. UNCHANGED <<rows, waiting, seen, reading, pushed>>
    BY <2>2 DEF Leave
  <2>4. \A w \in Workers : pc'[w] \in {"push_new", "push_again", "mark"} =>
            pc[w] = pc'[w] /\ writing'[w] = writing[w]
    BY <2>2 DEF Leave, Goto
  <2> QED
    BY <2>1, <2>3, <2>4
<1>13. ASSUME NEW t \in Tasks, pc[t] = "work", Forgotten(t) PROVE Ordered'
  BY <1>13 DEF Forgotten, Leave, Goto
<1>14. ASSUME NEW t \in Tasks, pc[t] = "work", Fail(t) PROVE Ordered'
  BY <1>14 DEF Fail, TakeOut, Leave, Goto, Without
<1>15. ASSUME NEW t \in Tasks, pc[t] = "work", FailPermanently(t) PROVE Ordered'
  BY <1>15 DEF FailPermanently, TakeOut, Leave, Goto, Without
<1>16. ASSUME NEW t \in Tasks, PushDead(t) PROVE Ordered'
  BY <1>16 DEF PushDead, Goto, history
<1>17. ASSUME NEW t \in Tasks, Interrupted(t) PROVE Ordered'
  BY <1>17 DEF Interrupted, Goto, CutShort, store
<1>18. CASE UNCHANGED vars
  BY <1>18 DEF vars
<1> QED
  BY <1>1, <1>2, <1>3, <1>4, <1>5, <1>6, <1>7, <1>8, <1>9, <1>10, <1>11, <1>12, <1>13, <1>14,
       <1>15, <1>16, <1>17, <1>18 DEF Next, LoopStep, WorkerStep, TaskStep

\* Every step keeps the numbers of messages apart.
LEMMA NumberedStep ==
    ASSUME TypeOK, Equipped, Ordered, Numbered, [Next]_vars
    PROVE  Numbered'
<1> USE ReddbAssumption DEF TypeOK, Workers, Job, Message, Places, Admitting, HandingBack,
     Equipped, Busy, Ordered, RowOf, Messages, Numbered
<1>1. CASE Start
  BY <1>1 DEF Start, store, history
<1>2. CASE Stop
  BY <1>2 DEF Stop, store, Empty, Nowhere, CutShort
<1>3. CASE Seeded
  BY <1>3 DEF Seeded, Goto, store, history
<1>4. ASSUME NEW m \in waiting, Read(m) PROVE Numbered'
  BY <1>4 DEF Read, Goto, history
<1>5. ASSUME NEW r \in rows, Load(r) PROVE Numbered'
  BY <1>5, SMTT(40) DEF Load, Goto, store, history, Put
<1>6. ASSUME NEW t \in Tasks, Spawn(t) PROVE Numbered'
  BY <1>6 DEF Spawn, store, history
<1>7. ASSUME NEW w \in Workers, NEW k \in owes[w], Probe(w, k) PROVE Numbered'
  BY <1>7 DEF Probe, TakeId, Fault, Goto, store, history
<1>8. ASSUME NEW w \in Workers, Insert(w) PROVE Numbered'
  BY <1>8 DEF Insert, Goto, history
<1>9. ASSUME NEW w \in Workers, Push(w) PROVE Numbered'
  BY <1>9 DEF Push, Goto, IsNextNumber
<1>10. ASSUME NEW w \in Workers, Mark(w) PROVE Numbered'
  BY <1>10 DEF Mark, Goto, Fault, history
<1>11. ASSUME NEW t \in Tasks, pc[t] = "work", Complete(t) PROVE Numbered'
  BY <1>11 DEF Complete, Leave, Goto, Acknowledge, AcknowledgeFails, Removed, Answered, Without
<1>12. ASSUME NEW t \in Tasks, pc[t] = "work", Requeue(t) PROVE Numbered'
  BY <1>12 DEF Requeue, Leave, Goto, TakeId, Acknowledge, AcknowledgeFails, Removed, Answered,
       Without
<1>13. ASSUME NEW t \in Tasks, pc[t] = "work", Forgotten(t) PROVE Numbered'
  BY <1>13 DEF Forgotten, Leave, Goto
<1>14. ASSUME NEW t \in Tasks, pc[t] = "work", Fail(t) PROVE Numbered'
  BY <1>14 DEF Fail, TakeOut, Leave, Goto, Without
<1>15. ASSUME NEW t \in Tasks, pc[t] = "work", FailPermanently(t) PROVE Numbered'
  BY <1>15 DEF FailPermanently, TakeOut, Leave, Goto, Without
<1>16. ASSUME NEW t \in Tasks, PushDead(t) PROVE Numbered'
  BY <1>16 DEF PushDead, Goto, history
<1>17. ASSUME NEW t \in Tasks, Interrupted(t) PROVE Numbered'
  BY <1>17 DEF Interrupted, Goto, CutShort, store
<1>18. CASE UNCHANGED vars
  BY <1>18 DEF vars
<1> QED
  BY <1>1, <1>2, <1>3, <1>4, <1>5, <1>6, <1>7, <1>8, <1>9, <1>10, <1>11, <1>12, <1>13, <1>14,
       <1>15, <1>16, <1>17, <1>18 DEF Next, LoopStep, WorkerStep, TaskStep

\* The first process is the one that starts when none has.
LEMMA NextRun ==
    ASSUME runs \in Nat, runs' = runs + 1
    PROVE  runs' # 0 /\ (runs' = 1 => runs = 0)
OBVIOUS

\* Every step of the first process keeps ids apart.
LEMMA OneUrlStep ==
    ASSUME TypeOK, TypeOK', Equipped, Equipped', Ordered, OneUrlPerId, [Next]_vars
    PROVE  OneUrlPerId'
<1> USE ReddbAssumption DEF TypeOK, Workers, Job, Message, Places, Admitting, HandingBack,
     Equipped, Busy, Ordered, RowOf, Messages, OneUrlPerId
<1>1. CASE Start
  <2>1. runs' = runs + 1 /\ rows' = rows /\ writing' = writing /\ runs \in Nat
    BY <1>1 DEF Start, store
  <2>2. CASE runs = 0
    <3>1. rows = {} /\ \A w \in Workers : writing[w] = NoJob
      BY <2>2
    <3>2. Known' = {}
      BY <2>1, <3>1 DEF Known
    <3> QED
      BY <2>1, <2>2, <3>2
  <2>3. CASE runs # 0
    <3>1. runs' # 0 /\ runs' # 1
      BY <2>1, <2>3, NextRun
    <3> QED
      BY <3>1
  <2> QED
    BY <2>2, <2>3
<1>2. CASE Stop
  BY <1>2 DEF Stop, store, Empty, Nowhere, CutShort, Known
<1>3. CASE Seeded
  BY <1>3 DEF Seeded, Goto, store, history, Known
<1>4. ASSUME NEW m \in waiting, Read(m) PROVE OneUrlPerId'
  BY <1>4 DEF Read, Goto, history, Known
<1>5. ASSUME NEW r \in rows, Load(r) PROVE OneUrlPerId'
  BY <1>5, SMTT(40) DEF Load, Goto, store, history, Put, Known
<1>6. ASSUME NEW t \in Tasks, Spawn(t) PROVE OneUrlPerId'
  BY <1>6 DEF Spawn, store, history, Known
<1>7. ASSUME NEW w \in Workers, NEW k \in owes[w], Probe(w, k) PROVE OneUrlPerId'
  BY <1>7, SMTT(40) DEF Probe, TakeId, Fault, Goto, store, history, Known
<1>8. ASSUME NEW w \in Workers, Insert(w) PROVE OneUrlPerId'
  BY <1>8, SMTT(40) DEF Insert, Goto, history, Known
<1>9. ASSUME NEW w \in Workers, Push(w) PROVE OneUrlPerId'
  BY <1>9 DEF Push, Goto, IsNextNumber, Known
<1>10. ASSUME NEW w \in Workers, Mark(w) PROVE OneUrlPerId'
  BY <1>10 DEF Mark, Goto, Fault, history, Known
<1>11. ASSUME NEW t \in Tasks, pc[t] = "work", Complete(t) PROVE OneUrlPerId'
  BY <1>11, SMTT(40) DEF Complete, Leave, Goto, Acknowledge, AcknowledgeFails, Removed, Answered, Without,
       Known
<1>12. ASSUME NEW t \in Tasks, pc[t] = "work", Requeue(t) PROVE OneUrlPerId'
  <2>1. job[t] \in Job /\ job[t] \in rows
    BY <1>12
  <2>2. /\ [job[t] EXCEPT !.attempts = @ + 1].id = job[t].id
        /\ [job[t] EXCEPT !.attempts = @ + 1].key = job[t].key
    BY <2>1
  <2>3. ASSUME NEW a \in {0, job[t].attempts}
        PROVE  /\ [job[t] EXCEPT !.id = next_id, !.attempts = a].id = next_id
               /\ [job[t] EXCEPT !.id = next_id, !.attempts = a].key = job[t].key
    BY <2>1
  <2>4. PICK to, x :
          /\ Leave(t, to, x)
          /\ \/ x = NoJob /\ next_id' = next_id
             \/ x.id = job[t].id /\ x.key = job[t].key /\ next_id' = next_id
             \/ x.id = next_id /\ next_id' = next_id + 1
    BY <1>12, <2>2, <2>3, ZenonT(60) DEF Requeue, TakeId
  <2>5. Known' \subseteq Known \cup ({x} \ {NoJob}) /\ job[t] \in Known
    BY <2>1, <2>4 DEF Known, Leave
  <2>6. UNCHANGED <<runs, rows, pushed, seen>> /\ (runs = 0 => pc[t] = "down")
    BY <1>12, <2>4 DEF Leave
  <2>7. pc[Main] # "down"
    BY <1>12
  <2>8. rows \subseteq Known /\ next_id \in Nat /\ \A r \in Known : r.id \in Nat
    BY DEF Known
  <2> QED
    BY <1>12, <2>4, <2>5, <2>6, <2>7, <2>8, SMTT(40)
<1>13. ASSUME NEW t \in Tasks, pc[t] = "work", Forgotten(t) PROVE OneUrlPerId'
  BY <1>13, SMTT(40) DEF Forgotten, Leave, Goto, Known
<1>a. ASSUME NEW t \in Tasks, pc[t] = "work", NEW r \in rows, NEW x, x.id = r.id, x.key = r.key,
             NEW to, Leave(t, to, x), next_id' = next_id
      PROVE  OneUrlPerId'
  <2>1. UNCHANGED <<runs, rows, pushed, seen>> /\ Known' \subseteq Known \cup {x} /\ r \in Known
    BY <1>a DEF Leave, Known
  <2>2. runs # 0 /\ pc[Main] # "down"
    BY <1>a
  <2>3. runs = 1 => \A p, q \in Known' : p.id = q.id => p.key = q.key
    BY <1>a, <2>1
  <2>4. runs = 1 => \A p \in Known' : p.id < next_id
    BY <1>a, <2>1, <2>2
  <2> QED
    BY <1>a, <2>1, <2>2, <2>3, <2>4
<1>14. ASSUME NEW t \in Tasks, pc[t] = "work", Fail(t) PROVE OneUrlPerId'
  <2> DEFINE r == in_flight[job[t].id]
             x == [r EXCEPT !.attempts = @ + 1]
  <2>1. r \in rows /\ r \in Job /\ Leave(t, "insert_again", x) /\ next_id' = next_id
    BY <1>14 DEF Fail, TakeOut
  <2>2. x.id = r.id /\ x.key = r.key
    BY <2>1
  <2> HIDE DEF r, x
  <2> QED
    BY <1>14, <1>a, <2>1, <2>2
<1>15. ASSUME NEW t \in Tasks, pc[t] = "work", FailPermanently(t) PROVE OneUrlPerId'
  <2> DEFINE r == in_flight[job[t].id]
  <2>1. r \in rows /\ Leave(t, "insert_dead", r) /\ next_id' = next_id
    BY <1>15 DEF FailPermanently, TakeOut
  <2> HIDE DEF r
  <2> QED
    BY <1>15, <1>a, <2>1
<1>16. ASSUME NEW t \in Tasks, PushDead(t) PROVE OneUrlPerId'
  BY <1>16, SMTT(40) DEF PushDead, Goto, history, Known
<1>17. ASSUME NEW t \in Tasks, Interrupted(t) PROVE OneUrlPerId'
  BY <1>17 DEF Interrupted, Goto, CutShort, store, Known
<1>18. CASE UNCHANGED vars
  BY <1>18 DEF vars, Known
<1> QED
  BY <1>1, <1>2, <1>3, <1>4, <1>5, <1>6, <1>7, <1>8, <1>9, <1>10, <1>11, <1>12, <1>13, <1>14,
       <1>15, <1>16, <1>17, <1>18 DEF Next, LoopStep, WorkerStep, TaskStep

\* What a task of the first process acknowledges is a message of its own URL.
LEMMA AnsweredKey ==
    ASSUME TypeOK, Equipped, Ordered, Numbered, OneUrlPerId, runs = 1,
           NEW t \in Tasks, pc[t] = "work", NEW m \in Answered(job[t].id)
    PROVE  m.key = job[t].key
<1>1. job[t] \in Job /\ job[t] \in Known
  BY ReddbAssumption DEF Equipped, Workers, Known, Job, TypeOK
<1>2. m \in pushed /\ m \in Message
  BY DEF Answered, Ordered, Messages, TypeOK
<1>3. m.id = job[t].id
  BY <1>2 DEF Answered, Numbered
<1>4. RowOf(m) \in Known /\ RowOf(m).id = m.id /\ RowOf(m).key = m.key
  BY <1>2 DEF Ordered, RowOf, Known, TypeOK, Job
<1> QED
  BY <1>1, <1>3, <1>4 DEF OneUrlPerId

\* A step that marks nothing, and after which what was safe is safe.
LEMMA SafeKept ==
    ASSUME NoneForgotten, UNCHANGED <<runs, seen>>,
           \A k : runs = 1 /\ Safe(k) => Safe(k)',
           \A w \in Workers : pc'[w] = "mark" => pc[w] = "mark" /\ writing'[w] = writing[w]
    PROVE  NoneForgotten'
<1> SUFFICES ASSUME runs = 1
             PROVE  /\ \A k \in seen : Safe(k)'
                    /\ \A w \in Workers : pc'[w] = "mark" => Safe(writing[w].key)'
  BY DEF NoneForgotten
<1>1. \A k \in seen : Safe(k)'
  BY DEF NoneForgotten
<1>2. ASSUME NEW w \in Workers, pc'[w] = "mark" PROVE Safe(writing[w].key)'
  <2> DEFINE k == writing[w].key
  <2>1. writing'[w].key = k /\ Safe(k)
    BY <1>2 DEF NoneForgotten
  <2> QED
    BY <2>1 DEF Safe, Carried
<1> QED
  BY <1>1, <1>2

\* Every step of the first process keeps marked URLs in sight.
LEMMA NoneForgottenStep ==
    ASSUME TypeOK, TypeOK', Equipped, Ordered, Numbered, OneUrlPerId, NoneForgotten, [Next]_vars
    PROVE  NoneForgotten'
<1> USE ReddbAssumption DEF TypeOK, Workers, Job, Message, Places, Admitting, HandingBack,
     Equipped, Busy, Ordered, RowOf, Messages, OneUrlPerId
<1>1. CASE Start
  <2>1. runs' = runs + 1 /\ seen' = seen /\ runs \in Nat
    BY <1>1 DEF Start, store
  <2>2. \A v \in Workers : pc'[v] # "mark"
    BY <1>1 DEF Start
  <2>3. runs' = 1 => runs = 0
    BY <2>1, NextRun
  <2>4. runs = 0 => seen' = {}
    BY <2>1
  <2> QED
    BY <2>2, <2>3, <2>4 DEF NoneForgotten
<1>2. CASE Stop
  <2>11. ASSUME NEW k, runs = 1, Safe(k) PROVE Safe(k)'
    BY <1>2, <2>11 DEF Stop, store, CutShort, Safe, Carried
  <2>12. \A v \in Workers : pc'[v] = "mark" => pc[v] = "mark" /\ writing'[v] = writing[v]
    BY <1>2 DEF Stop, store
  <2>13. UNCHANGED <<runs, seen>>
    BY <1>2 DEF Stop, store
  <2> QED
    BY <2>11, <2>12, <2>13, SafeKept
<1>3. CASE Seeded
  BY <1>3 DEF Seeded, Goto, store, history, NoneForgotten, Safe, Carried
<1>4. ASSUME NEW m \in waiting, Read(m) PROVE NoneForgotten'
  BY <1>4 DEF Read, Goto, history, NoneForgotten, Safe, Carried
<1>5. ASSUME NEW r \in rows, Load(r) PROVE NoneForgotten'
  BY <1>5 DEF Load, Goto, store, history, Put, NoneForgotten, Safe, Carried
<1>6. ASSUME NEW t \in Tasks, Spawn(t) PROVE NoneForgotten'
  <2>11. ASSUME NEW k, runs = 1, Safe(k) PROVE Safe(k)'
    BY <1>6, <2>11 DEF Spawn, store, history, Safe, Carried
  <2>12. \A v \in Workers : pc'[v] = "mark" => pc[v] = "mark" /\ writing'[v] = writing[v]
    BY <1>6 DEF Spawn, store, history
  <2>13. UNCHANGED <<runs, seen>>
    BY <1>6 DEF Spawn, store, history
  <2> QED
    BY <2>11, <2>12, <2>13, SafeKept
<1>7. ASSUME NEW w \in Workers, NEW k \in owes[w], Probe(w, k) PROVE NoneForgotten'
  BY <1>7, SMTT(40) DEF Probe, TakeId, Fault, Goto, store, history, NoneForgotten, Safe, Carried
<1>8. ASSUME NEW w \in Workers, Insert(w) PROVE NoneForgotten'
  BY <1>8, SMTT(40) DEF Insert, Goto, history, NoneForgotten, Safe, Carried
<1>9. ASSUME NEW w \in Workers, Push(w) PROVE NoneForgotten'
  <2>1. PICK n \in 1..MAX_MESSAGES :
          LET m == [number |-> n, id |-> writing[w].id, key |-> writing[w].key,
                    attempts |-> writing[w].attempts, new |-> pc[w] = "push_new"]
          IN  waiting' = waiting \cup {m} /\ pushed' = pushed \cup {m}
    BY <1>9 DEF Push
  <2> DEFINE m == [number |-> n, id |-> writing[w].id, key |-> writing[w].key,
                   attempts |-> writing[w].attempts, new |-> pc[w] = "push_new"]
  <2>2. m \in Messages' /\ Messages \subseteq Messages' /\ m.key = writing[w].key
    <3>1. m \in waiting' /\ waiting \subseteq waiting'
      BY <2>1
    <3>2. delivered' = delivered
      BY <1>9 DEF Push
    <3> QED
      BY <3>1, <3>2
  <2> HIDE DEF m
  <2>3. /\ UNCHANGED <<seen, resolved, lost, runs>>
        /\ \A v \in Workers \ {w} : pc'[v] = pc[v] /\ writing'[v] = writing[v]
        /\ pc'[w] = "mark" => writing'[w] = writing[w]
    BY <1>9 DEF Push, Goto
  <2>4. ASSUME NEW k, Safe(k) PROVE Safe(k)'
    BY <2>2, <2>3, <2>4 DEF Safe, Carried
  <2>5. ASSUME NEW k, k = writing[w].key PROVE Safe(k)'
    BY <2>2, <2>5 DEF Safe, Carried
  <2>6. ASSUME runs = 1, NEW v \in Workers, pc'[v] = "mark" PROVE Safe(writing[v].key)'
    <3> DEFINE k == writing[v].key
    <3>1. writing'[v].key = k /\ Safe(k)'
      BY <2>3, <2>4, <2>5, <2>6 DEF NoneForgotten
    <3> QED
      BY <3>1 DEF Safe, Carried
  <2> QED
    BY <2>3, <2>4, <2>6 DEF NoneForgotten
<1>10. ASSUME NEW w \in Workers, Mark(w) PROVE NoneForgotten'
  BY <1>10, SMTT(40) DEF Mark, Goto, Fault, history, NoneForgotten, Safe, Carried
<1>11. ASSUME NEW t \in Tasks, pc[t] = "work", Complete(t) PROVE NoneForgotten'
  <2>11. ASSUME NEW k, runs = 1, Safe(k) PROVE Safe(k)'
    <3>1. CASE \E m \in Answered(job[t].id) : m.key = k
      <4>1. runs = 1
        BY <2>11
      <4>2. k = job[t].key
        BY <1>11, <3>1, <4>1, AnsweredKey
      <4> QED
        BY <1>11, <4>2 DEF Complete, Safe
    <3>2. CASE ~ \E m \in Answered(job[t].id) : m.key = k
      BY <1>11, <2>11, <3>2 DEF Complete, Leave, Goto, Acknowledge, AcknowledgeFails, Safe,
           Carried
    <3> QED
      BY <3>1, <3>2
  <2>12. \A v \in Workers : pc'[v] = "mark" => pc[v] = "mark" /\ writing'[v] = writing[v]
    BY <1>11 DEF Complete, Leave, Goto
  <2>13. UNCHANGED <<runs, seen>>
    BY <1>11 DEF Complete, Leave, Goto
  <2> QED
    BY <2>11, <2>12, <2>13, SafeKept
<1>12. ASSUME NEW t \in Tasks, pc[t] = "work", Requeue(t) PROVE NoneForgotten'
  <2>1. job[t] \in Job /\ job[t] \in rows
    BY <1>12
  <2>2. /\ [job[t] EXCEPT !.attempts = @ + 1].id = job[t].id
        /\ [job[t] EXCEPT !.attempts = @ + 1].key = job[t].key
    BY <2>1
  <2>3. ASSUME NEW a \in {0, job[t].attempts}
        PROVE  /\ [job[t] EXCEPT !.id = next_id, !.attempts = a].id = next_id
               /\ [job[t] EXCEPT !.id = next_id, !.attempts = a].key = job[t].key
    BY <2>1
  <2>4. PICK to, x :
          /\ to \in {"idle", "insert_again"} /\ Leave(t, to, x)
          /\ \/ delivered' = delivered
             \/ /\ to = "insert_again" /\ x.key = job[t].key
                /\ delivered' = delivered \ Answered(job[t].id)
    BY <1>12, <2>2, <2>3 DEF Requeue, Acknowledge, AcknowledgeFails
  <2>11. ASSUME NEW k, runs = 1, Safe(k) PROVE Safe(k)'
    <3>1. CASE delivered' # delivered /\ \E m \in Answered(job[t].id) : m.key = k
      <4>1. runs = 1
        BY <2>11
      <4>2. k = job[t].key
        BY <1>12, <3>1, <4>1, AnsweredKey
      <4>3. pc'[t] = "insert_again" /\ writing'[t].key = k
        BY <2>4, <3>1, <4>2 DEF Leave, Goto
      <4> QED
        BY <4>3 DEF Safe, Carried
    <3>2. CASE delivered' = delivered \/ ~ \E m \in Answered(job[t].id) : m.key = k
      BY <1>12, <2>4, <2>11, <3>2 DEF Requeue, Leave, Goto, Safe, Carried
    <3> QED
      BY <3>1, <3>2
  <2>12. \A v \in Workers : pc'[v] = "mark" => pc[v] = "mark" /\ writing'[v] = writing[v]
    BY <1>12, <2>4 DEF Leave, Goto
  <2>13. UNCHANGED <<runs, seen>>
    BY <1>12, <2>4 DEF Leave, Goto
  <2> QED
    BY <2>11, <2>12, <2>13, SafeKept
<1>13. ASSUME NEW t \in Tasks, pc[t] = "work", Forgotten(t) PROVE NoneForgotten'
  <2>11. ASSUME NEW k, runs = 1, Safe(k) PROVE Safe(k)'
    BY <1>13, <2>11 DEF Forgotten, Leave, Goto, Safe, Carried
  <2>12. \A v \in Workers : pc'[v] = "mark" => pc[v] = "mark" /\ writing'[v] = writing[v]
    BY <1>13 DEF Forgotten, Leave, Goto
  <2>13. UNCHANGED <<runs, seen>>
    BY <1>13 DEF Forgotten, Leave, Goto
  <2> QED
    BY <2>11, <2>12, <2>13, SafeKept
<1>14. ASSUME NEW t \in Tasks, pc[t] = "work", Fail(t) PROVE NoneForgotten'
  <2>11. ASSUME NEW k, runs = 1, Safe(k) PROVE Safe(k)'
    BY <1>14, <2>11 DEF Fail, TakeOut, Leave, Goto, Safe, Carried
  <2>12. \A v \in Workers : pc'[v] = "mark" => pc[v] = "mark" /\ writing'[v] = writing[v]
    BY <1>14 DEF Fail, TakeOut, Leave, Goto
  <2>13. UNCHANGED <<runs, seen>>
    BY <1>14 DEF Fail, TakeOut, Leave, Goto
  <2> QED
    BY <2>11, <2>12, <2>13, SafeKept
<1>15. ASSUME NEW t \in Tasks, pc[t] = "work", FailPermanently(t) PROVE NoneForgotten'
  <2>11. ASSUME NEW k, runs = 1, Safe(k) PROVE Safe(k)'
    BY <1>15, <2>11 DEF FailPermanently, TakeOut, Leave, Goto, Safe, Carried
  <2>12. \A v \in Workers : pc'[v] = "mark" => pc[v] = "mark" /\ writing'[v] = writing[v]
    BY <1>15 DEF FailPermanently, TakeOut, Leave, Goto
  <2>13. UNCHANGED <<runs, seen>>
    BY <1>15 DEF FailPermanently, TakeOut, Leave, Goto
  <2> QED
    BY <2>11, <2>12, <2>13, SafeKept
<1>16. ASSUME NEW t \in Tasks, PushDead(t) PROVE NoneForgotten'
  <2>11. ASSUME NEW k, runs = 1, Safe(k) PROVE Safe(k)'
    BY <1>16, <2>11 DEF PushDead, Goto, history, Safe, Carried
  <2>12. \A v \in Workers : pc'[v] = "mark" => pc[v] = "mark" /\ writing'[v] = writing[v]
    BY <1>16 DEF PushDead, Goto, history
  <2>13. UNCHANGED <<runs, seen>>
    BY <1>16 DEF PushDead, Goto, history
  <2> QED
    BY <2>11, <2>12, <2>13, SafeKept
<1>17. ASSUME NEW t \in Tasks, Interrupted(t) PROVE NoneForgotten'
  <2>1. /\ pc'[t] \in {"work", "idle"} /\ pc[t] \in Admitting \cup HandingBack
        /\ \A v \in Workers \ {t} : pc'[v] = pc[v] /\ writing'[v] = writing[v]
    BY <1>17 DEF Interrupted, Goto
  <2>2. /\ UNCHANGED <<rows, waiting, delivered, dead, seen, job, reading, runs, resolved>>
        /\ lost' = lost \cup CutShort({t})
    BY <1>17 DEF Interrupted, store
  <2>11. ASSUME NEW k, runs = 1, Safe(k) PROVE Safe(k)'
    <3>1. CASE pc[t] \in {"insert_again", "push_again"} /\ writing[t].key = k
      BY <2>2, <3>1 DEF CutShort, Safe
    <3>2. CASE ~(pc[t] \in {"insert_again", "push_again"} /\ writing[t].key = k)
      BY <2>1, <2>2, <2>11, <3>2 DEF Safe, Carried
    <3> QED
      BY <3>1, <3>2
  <2>12. \A v \in Workers : pc'[v] = "mark" => pc[v] = "mark" /\ writing'[v] = writing[v]
    BY <2>1
  <2>13. UNCHANGED <<runs, seen>>
    BY <2>2
  <2> QED
    BY <2>11, <2>12, <2>13, SafeKept
<1>18. CASE UNCHANGED vars
  BY <1>18 DEF vars, NoneForgotten, Safe, Carried
<1> QED
  BY <1>1, <1>2, <1>3, <1>4, <1>5, <1>6, <1>7, <1>8, <1>9, <1>10, <1>11, <1>12, <1>13, <1>14,
       <1>15, <1>16, <1>17, <1>18 DEF Next, LoopStep, WorkerStep, TaskStep

\* Who is about to put a job in the queue.
Writes(w) == pc[w] \in Busy \ {"mark"}

\* In the first process an id is in one place only: with a message nobody has
\* acknowledged or given up, with a worker that has its job, or with one that
\* puts it in the queue.
Alone ==
    /\ pc[Main] = "down" => job = Nowhere /\ reading = {}
    /\ waiting \cap reading = {}
    /\ runs = 1 =>
        /\ \A v, w \in Workers :
             job[v] # NoJob /\ job[w] # NoJob /\ job[v].id = job[w].id => v = w
        /\ \A v, w \in Workers : job[v] # NoJob /\ Writes(w) => job[v].id # writing[w].id
        /\ \A v, w \in Workers : Writes(v) /\ Writes(w) /\ writing[v].id = writing[w].id => v = w
        /\ \A m \in waiting \cup reading :
             /\ \A w \in Workers : job[w] # NoJob => job[w].id # m.id
             /\ \A w \in Workers : Writes(w) => writing[w].id # m.id
        /\ \A m, n \in waiting \cup reading : m.id = n.id => m = n

\* No message of that id that was read is younger.
Youngest(m) == \A n \in delivered : n.id = m.id => n.number <= m.number

\* What a process has in hand is the youngest message of its id.
Newest ==
    runs = 1 =>
        /\ \A m \in waiting : Youngest(m)
        /\ \A m \in reading : m \in delivered /\ Youngest(m)
        /\ \A w \in Workers : job[w] # NoJob =>
             \E m \in Answered(job[w].id) : m.id = job[w].id /\ Youngest(m)

\* What is in the queue or in hand has an id that was taken before.
LEMMA OldIds ==
    ASSUME TypeOK, Equipped, Ordered, OneUrlPerId, runs = 1, pc[Main] # "down"
    PROVE  /\ next_id \in Nat
           /\ \A w \in Workers : job[w] # NoJob => job[w].id \in Nat /\ job[w].id < next_id
           /\ \A w \in Workers : Writes(w) => writing[w].id \in Nat /\ writing[w].id < next_id
           /\ \A m \in pushed : m.id \in Nat /\ m.id < next_id
<1> USE ReddbAssumption DEF TypeOK, Job, Message, Known, OneUrlPerId
<1>1. \A w \in Workers : job[w] # NoJob => job[w] \in rows
  BY DEF Equipped
<1>2. \A w \in Workers : Writes(w) => writing[w] \in Job
  BY DEF Equipped, Writes
<1>3. \A w \in Workers : Writes(w) => writing[w] \in Known
  BY <1>2
<1>4. \A m \in pushed : RowOf(m) \in rows /\ RowOf(m).id = m.id
  BY DEF Ordered, RowOf
<1>5. \A r \in Known : r.id < next_id
  BY DEF OneUrlPerId
<1>6. rows \subseteq Known
  OBVIOUS
<1> QED
  BY <1>1, <1>2, <1>3, <1>4, <1>5, <1>6

\* Task t leaves work, and takes its own id or a new one with it.
LEMMA AloneLeaves ==
    ASSUME TypeOK, Equipped, Ordered, OneUrlPerId, Alone, NEW t \in Tasks, pc[t] = "work",
           NEW to \in Places, NEW row, Leave(t, to, row),
           to \in Busy \ {"mark"} => row.id = job[t].id \/ row.id = next_id
    PROVE  Alone'
<1> USE ReddbAssumption DEF TypeOK, Workers, Busy, Admitting, HandingBack
<1>1. pc[Main] # "down" /\ Main # t /\ job[t] \in Job
  BY DEF Equipped
<1>2. /\ pc' = [pc EXCEPT ![t] = to] /\ job' = [job EXCEPT ![t] = NoJob]
      /\ writing' = [writing EXCEPT ![t] = row]
      /\ UNCHANGED <<waiting, reading, runs>>
  BY DEF Leave, Goto
<1>3. /\ pc'[Main] = pc[Main] /\ job'[t] = NoJob
      /\ \A w \in Workers \ {t} : job'[w] = job[w] /\ writing'[w] = writing[w]
                                  /\ (Writes(w)' <=> Writes(w))
      /\ writing'[t] = row /\ (Writes(t)' => to \in Busy \ {"mark"})
      /\ t \in Workers
  BY <1>1, <1>2 DEF Writes
<1>4. CASE runs # 1
  BY <1>1, <1>2, <1>3, <1>4 DEF Alone
<1>5. CASE runs = 1
  <2>1. /\ next_id \in Nat
        /\ \A w \in Workers : job[w] # NoJob => job[w].id \in Nat /\ job[w].id < next_id
        /\ \A w \in Workers : Writes(w) => writing[w].id \in Nat /\ writing[w].id < next_id
        /\ \A m \in waiting \cup reading : m.id \in Nat /\ m.id < next_id
    BY <1>1, <1>5, OldIds DEF Ordered, Messages
  <2>2. job[t] # NoJob
    BY <1>1 DEF Job
  <2>3. Writes(t)' =>
          /\ \A w \in Workers \ {t} : job[w] # NoJob => job[w].id # row.id
          /\ \A w \in Workers \ {t} : Writes(w) => writing[w].id # row.id
          /\ \A m \in waiting \cup reading : m.id # row.id
    BY <1>3, <1>5, <2>1, <2>2 DEF Alone
  <2> QED
    BY <1>1, <1>2, <1>3, <1>5, <2>3 DEF Alone
<1> QED
  BY <1>4, <1>5

\* Every step of the first process keeps each id in one place.
LEMMA AloneStep ==
    ASSUME TypeOK, TypeOK', Equipped, Ordered, OneUrlPerId, Alone, [Next]_vars
    PROVE  Alone'
<1> USE ReddbAssumption DEF TypeOK, Workers, Job, Message, Places, Admitting, HandingBack, Busy
<1>1. CASE Start
  <2>1. runs' = runs + 1 /\ runs \in Nat /\ job' = job /\ reading' = reading /\ pc[Main] = "down"
        /\ pc'[Main] = "work"
    BY <1>1 DEF Start
  <2>2. job = Nowhere /\ reading = {}
    BY <2>1 DEF Alone
  <2>3. CASE runs = 0
    <3>1. waiting = {} /\ delivered = {}
      BY <2>3 DEF OneUrlPerId, Ordered, Messages
    <3>2. waiting' = {} /\ \A w \in Workers : ~Writes(w)' /\ job'[w] = NoJob
      BY <1>1, <2>1, <2>2, <3>1 DEF Start, Writes, Nowhere
    <3> QED
      BY <2>1, <2>2, <3>2 DEF Alone
  <2>4. CASE runs # 0
    BY <2>1, <2>4, NextRun DEF Alone
  <2> QED
    BY <2>3, <2>4
<1>2. CASE Stop
  BY <1>2 DEF Stop, store, Nowhere, Alone, Writes
<1>3. CASE Seeded
  BY <1>3 DEF Seeded, Goto, store, history, Alone, Writes
<1>4. ASSUME NEW m \in waiting, Read(m) PROVE Alone'
  BY <1>4 DEF Read, Goto, history, Alone, Writes
<1>5. ASSUME NEW r \in rows, Load(r) PROVE Alone'
  <2>1. PICK m \in reading : r.id = m.id
    BY <1>5 DEF Load
  <2>2. /\ job' = [job EXCEPT ![Main] = r] /\ reading' = {} /\ pc' = [pc EXCEPT ![Main] = "permit"]
        /\ pc[Main] = "load" /\ UNCHANGED <<waiting, writing, runs>>
    BY <1>5 DEF Load, Goto, store
  <2>3. /\ job'[Main] = r /\ \A w \in Workers \ {Main} : job'[w] = job[w]
        /\ \A w \in Workers : Writes(w)' <=> Writes(w)
        /\ pc'[Main] = "permit"
    BY <2>2 DEF Writes
  <2>4. r \in Job /\ r # NoJob
    OBVIOUS
  <2>5. runs = 1 => \A n \in waiting : n.id # r.id
    BY <2>1 DEF Alone
  <2> QED
    BY <2>1, <2>2, <2>3, <2>4, <2>5 DEF Alone
<1>6. ASSUME NEW t \in Tasks, Spawn(t) PROVE Alone'
  <2>1. /\ pc'[Main] = "idle" /\ job'[Main] = NoJob /\ job'[t] = job[Main] /\ t # Main
        /\ \A w \in Workers \ {t, Main} : job'[w] = job[w]
        /\ \A w \in Workers : Writes(w)' <=> Writes(w)
        /\ UNCHANGED <<waiting, reading, writing, runs>>
    BY <1>6 DEF Spawn, store, Writes
  <2> QED
    BY <2>1 DEF Alone
<1>7. ASSUME NEW w \in Workers, NEW k \in owes[w], Probe(w, k) PROVE Alone'
  <2>1. pc[Main] # "down"
    BY <1>7 DEF Probe, Goto, Equipped
  <2>2. CASE Goto(w, "work", "work") /\ UNCHANGED writing
    BY <1>7, <2>1, <2>2 DEF Probe, Goto, store, Alone, Writes
  <2>3. CASE /\ Goto(w, "work", "insert_new")
             /\ writing' = [writing EXCEPT ![w] = [id |-> next_id, key |-> k, attempts |-> 0]]
    <3>1. UNCHANGED <<waiting, reading, job, runs>>
      BY <1>7 DEF Probe, store
    <3>2. /\ writing'[w].id = next_id /\ pc'[w] = "insert_new" /\ pc'[Main] # "down"
          /\ \A v \in Workers \ {w} : writing'[v] = writing[v] /\ (Writes(v)' <=> Writes(v))
      BY <2>1, <2>3 DEF Goto, Writes
    <3>3. CASE runs # 1
      BY <3>1, <3>2, <3>3 DEF Alone
    <3>4. CASE runs = 1
      <4>1. /\ next_id \in Nat
            /\ \A v \in Workers : job[v] # NoJob => job[v].id \in Nat /\ job[v].id < next_id
            /\ \A v \in Workers : Writes(v) => writing[v].id \in Nat /\ writing[v].id < next_id
            /\ \A m \in waiting \cup reading : m.id \in Nat /\ m.id < next_id
        BY <2>1, <3>4, OldIds DEF Ordered, Messages
      <4>2. /\ \A v \in Workers : job[v] # NoJob => job[v].id # next_id
            /\ \A v \in Workers : Writes(v) => writing[v].id # next_id
            /\ \A m \in waiting \cup reading : m.id # next_id
        BY <4>1
      <4> QED
        BY <3>1, <3>2, <3>4, <4>2, SMTT(40) DEF Alone
    <3> QED
      BY <3>3, <3>4
  <2> QED
    BY <1>7, <2>2, <2>3 DEF Probe
<1>8. ASSUME NEW w \in Workers, Insert(w) PROVE Alone'
  <2>1. /\ UNCHANGED <<waiting, reading, writing, job, runs>>
        /\ \A v \in Workers : Writes(v)' => Writes(v)
        /\ pc[Main] # "down"
    BY <1>8 DEF Insert, Goto, Writes, Equipped
  <2>2. pc'[Main] # "down"
    BY <1>8, <2>1 DEF Insert, Goto
  <2> QED
    BY <2>1, <2>2 DEF Alone
<1>9. ASSUME NEW w \in Workers, Push(w) PROVE Alone'
  <2>1. PICK n \in 1..MAX_MESSAGES :
          LET m == [number |-> n, id |-> writing[w].id, key |-> writing[w].key,
                    attempts |-> writing[w].attempts, new |-> pc[w] = "push_new"]
          IN  waiting' = waiting \cup {m} /\ \A x \in pushed : x.number < n
    BY <1>9 DEF Push, IsNextNumber
  <2> DEFINE m == [number |-> n, id |-> writing[w].id, key |-> writing[w].key,
                   attempts |-> writing[w].attempts, new |-> pc[w] = "push_new"]
  <2>2. waiting' = waiting \cup {m} /\ m.id = writing[w].id
    BY <2>1
  <2>5. m \notin reading
    <3>1. m.number = n /\ \A x \in reading : x.number < n
      BY <2>1 DEF Ordered
    <3>2. ~(n < n)
      OBVIOUS
    <3> HIDE DEF m
    <3> QED
      BY <3>1, <3>2
  <2>3. /\ UNCHANGED <<reading, job, runs>> /\ Writes(w) /\ ~Writes(w)'
        /\ \A v \in Workers \ {w} : writing'[v] = writing[v] /\ (Writes(v)' <=> Writes(v))
        /\ pc[Main] # "down"
    BY <1>9 DEF Push, Goto, Writes, Equipped
  <2>4. pc'[Main] # "down"
    BY <1>9, <2>3 DEF Push, Goto
  <2> HIDE DEF m
  <2> QED
    BY <2>2, <2>3, <2>4, <2>5, SMTT(40) DEF Alone
<1>10. ASSUME NEW w \in Workers, Mark(w) PROVE Alone'
  <2>1. /\ UNCHANGED <<waiting, reading, job, runs>> /\ ~Writes(w)' /\ pc[Main] # "down"
        /\ \A v \in Workers \ {w} : writing'[v] = writing[v] /\ (Writes(v)' <=> Writes(v))
    BY <1>10 DEF Mark, Goto, Writes, Equipped
  <2>2. pc'[Main] # "down"
    BY <1>10, <2>1 DEF Mark, Goto
  <2> QED
    BY <2>1, <2>2, SMTT(40) DEF Alone
<1>11. ASSUME NEW t \in Tasks, pc[t] = "work", Complete(t) PROVE Alone'
  <2>1. Leave(t, "idle", NoJob)
    BY <1>11 DEF Complete
  <2> QED
    BY <1>11, <2>1, AloneLeaves
<1>12. ASSUME NEW t \in Tasks, pc[t] = "work", Requeue(t) PROVE Alone'
  <2>1. job[t] \in Job
    BY <1>12 DEF Equipped
  <2>2. [job[t] EXCEPT !.attempts = @ + 1].id = job[t].id
    BY <2>1
  <2>3. ASSUME NEW a \in {0, job[t].attempts}
        PROVE  [job[t] EXCEPT !.id = next_id, !.attempts = a].id = next_id
    BY <2>1
  <2>4. PICK to, row :
          /\ to \in {"idle", "insert_again"} /\ Leave(t, to, row)
          /\ \/ to = "idle"
             \/ row.id = job[t].id
             \/ row.id = next_id
    BY <1>12, <2>2, <2>3 DEF Requeue
  <2> QED
    BY <1>12, <2>4, AloneLeaves
<1>13. ASSUME NEW t \in Tasks, pc[t] = "work", Forgotten(t) PROVE Alone'
  <2>1. Leave(t, "idle", NoJob)
    BY <1>13 DEF Forgotten
  <2> QED
    BY <1>13, <2>1, AloneLeaves
<1>14. ASSUME NEW t \in Tasks, pc[t] = "work", Fail(t) PROVE Alone'
  <2> DEFINE row == [in_flight[job[t].id] EXCEPT !.attempts = @ + 1]
  <2>1. Leave(t, "insert_again", row) /\ row.id = job[t].id
    BY <1>14 DEF Fail, TakeOut
  <2> HIDE DEF row
  <2> QED
    BY <1>14, <2>1, AloneLeaves
<1>15. ASSUME NEW t \in Tasks, pc[t] = "work", FailPermanently(t) PROVE Alone'
  <2>1. Leave(t, "insert_dead", in_flight[job[t].id]) /\ in_flight[job[t].id].id = job[t].id
    BY <1>15 DEF FailPermanently, TakeOut
  <2> QED
    BY <1>15, <2>1, AloneLeaves
<1>16. ASSUME NEW t \in Tasks, PushDead(t) PROVE Alone'
  <2>1. /\ UNCHANGED <<waiting, reading, job, runs>> /\ ~Writes(t)' /\ pc'[Main] # "down"
        /\ \A v \in Workers \ {t} : writing'[v] = writing[v] /\ (Writes(v)' <=> Writes(v))
    BY <1>16 DEF PushDead, Goto, Writes, history, Equipped
  <2> QED
    BY <2>1, SMTT(40) DEF Alone
<1>17. ASSUME NEW t \in Tasks, Interrupted(t) PROVE Alone'
  <2>1. /\ UNCHANGED <<waiting, reading, job, runs>> /\ ~Writes(t)' /\ pc'[Main] # "down"
        /\ \A v \in Workers \ {t} : writing'[v] = writing[v] /\ (Writes(v)' <=> Writes(v))
    BY <1>17 DEF Interrupted, Goto, Writes, store, Equipped
  <2> QED
    BY <2>1, SMTT(40) DEF Alone
<1>18. CASE UNCHANGED vars
  BY <1>18 DEF vars, Alone, Writes
<1> QED
  BY <1>1, <1>2, <1>3, <1>4, <1>5, <1>6, <1>7, <1>8, <1>9, <1>10, <1>11, <1>12, <1>13, <1>14,
       <1>15, <1>16, <1>17, <1>18 DEF Next, LoopStep, WorkerStep, TaskStep

\* A step that changes neither what was read nor what is in hand.
LEMMA NewestKept ==
    ASSUME TypeOK, Newest, UNCHANGED <<delivered, in_flight_messages, reading, runs>>,
           \A m \in waiting' : m \in waiting \/ Youngest(m),
           \A w \in Workers : job'[w] # NoJob => job'[w] = job[w]
    PROVE  Newest'
<1>1. \A m : Youngest(m)' <=> Youngest(m)
  BY DEF Youngest
<1>2. \A w \in Workers : job'[w] # NoJob => Answered(job[w].id)' = Answered(job[w].id)
  BY DEF Answered
<1> QED
  BY <1>1, <1>2 DEF Newest

\* Task t leaves work, and the message of its job, at most, is acknowledged.
LEMMA NewestLeaves ==
    ASSUME TypeOK, Equipped, Ordered, Numbered, Alone, Newest, NEW t \in Tasks, pc[t] = "work",
           NEW to, NEW row, Leave(t, to, row),
           \/ Acknowledge(job[t].id)
           \/ AcknowledgeFails(job[t].id)
           \/ UNCHANGED <<delivered, in_flight_messages>>
    PROVE  Newest'
<1> SUFFICES ASSUME runs = 1 PROVE Newest'
  BY DEF Newest, Leave
<1>1. job[t] \in Job /\ job[t] # NoJob /\ t \in Workers
  BY ReddbAssumption DEF Equipped, Workers, Job
<1>2. /\ UNCHANGED <<waiting, reading, runs>> /\ job'[t] = NoJob
      /\ \A w \in Workers \ {t} : job'[w] = job[w]
  BY <1>1 DEF Leave, TypeOK
<1>3. \A n \in Answered(job[t].id) : n.id = job[t].id
  BY DEF Answered, Ordered, Messages, Numbered
<1>4. /\ delivered' \subseteq delivered
      /\ \A n \in delivered : n.id # job[t].id => n \in delivered'
  BY <1>3 DEF Acknowledge, AcknowledgeFails
<1>5. \A i \in DOMAIN in_flight_messages : i # job[t].id =>
          i \in DOMAIN in_flight_messages' /\ in_flight_messages'[i] = in_flight_messages[i]
  BY DEF Acknowledge, AcknowledgeFails, Removed, Without
<1>6. \A m : Youngest(m) => Youngest(m)'
  BY <1>4 DEF Youngest
<1>7. \A m \in reading : m.id # job[t].id
  BY <1>1 DEF Alone
<1>8. ASSUME NEW w \in Workers, job'[w] # NoJob
      PROVE  \E m \in Answered(job[w].id)' : m.id = job'[w].id /\ Youngest(m)'
  <2>1. w # t /\ job'[w] = job[w] /\ job[w] # NoJob
    BY <1>2, <1>8
  <2>2. job[w].id # job[t].id
    BY <1>1, <2>1 DEF Alone
  <2>3. PICK m \in Answered(job[w].id) : m.id = job[w].id /\ Youngest(m)
    BY <2>1 DEF Newest
  <2>4. m \in Answered(job[w].id)'
    BY <1>4, <1>5, <2>1, <2>2, <2>3 DEF Answered
  <2> QED
    BY <1>6, <2>1, <2>3, <2>4
<1> QED
  BY <1>2, <1>4, <1>6, <1>7, <1>8 DEF Newest

\* Every step of the first process keeps in hand what is youngest.
LEMMA NewestStep ==
    ASSUME TypeOK, TypeOK', Equipped, Ordered, Numbered, OneUrlPerId, Alone, Newest, [Next]_vars
    PROVE  Newest'
<1> USE ReddbAssumption DEF Workers
<1>1. CASE Start
  <2>1. runs' = runs + 1 /\ runs \in Nat /\ job' = job /\ reading' = reading /\ pc[Main] = "down"
    BY <1>1 DEF Start, TypeOK
  <2>2. job = Nowhere /\ reading = {}
    BY <2>1 DEF Alone
  <2>3. CASE runs = 0
    <3>1. waiting = {} /\ delivered = {}
      BY <2>3 DEF OneUrlPerId, Ordered, Messages
    <3>2. waiting' = {} /\ \A w \in Workers : job'[w] = NoJob
      BY <1>1, <2>1, <2>2, <3>1 DEF Start, Nowhere
    <3> QED
      BY <2>1, <2>2, <3>2 DEF Newest
  <2>4. CASE runs # 0
    BY <2>1, <2>4, NextRun DEF Newest
  <2> QED
    BY <2>3, <2>4
<1>2. CASE Stop
  BY <1>2 DEF Stop, store, Nowhere, Newest, Youngest
<1>3. CASE Seeded
  BY <1>3, NewestKept DEF Seeded, store, history
<1>4. ASSUME NEW m \in waiting, Read(m) PROVE Newest'
  <2>1. /\ waiting' = waiting \ {m} /\ delivered' = delivered \cup {m} /\ reading' = {m}
        /\ UNCHANGED <<job, in_flight_messages, runs>>
    BY <1>4 DEF Read, history
  <2> SUFFICES ASSUME runs = 1 PROVE Newest'
    BY <2>1 DEF Newest
  <2>2. m.number \in Nat
    BY DEF TypeOK, Message
  <2>3. Youngest(m)'
    BY <2>1, <2>2 DEF Newest, Youngest
  <2>4. \A n : n.id # m.id /\ Youngest(n) => Youngest(n)'
    BY <2>1 DEF Youngest
  <2>5. \A n \in waiting' : n.id # m.id
    BY <2>1 DEF Alone
  <2>6. \A w \in Workers : job[w] # NoJob => job[w].id # m.id
    BY DEF Alone
  <2>7. \A i : Answered(i) \subseteq Answered(i)'
    BY <2>1 DEF Answered
  <2>8. \A w \in Workers : job'[w] # NoJob =>
            \E n \in Answered(job[w].id)' : n.id = job'[w].id /\ Youngest(n)'
    <3> SUFFICES ASSUME NEW w \in Workers, job[w] # NoJob
                 PROVE  \E n \in Answered(job[w].id)' : n.id = job[w].id /\ Youngest(n)'
      BY <2>1
    <3>1. PICK n \in Answered(job[w].id) : n.id = job[w].id /\ Youngest(n)
      BY DEF Newest
    <3> QED
      BY <2>1, <2>4, <2>6, <2>7, <3>1
  <2> QED
    BY <2>1, <2>3, <2>4, <2>5, <2>8 DEF Newest
<1>5. ASSUME NEW r \in rows, Load(r) PROVE Newest'
  <2>1. PICK m \in reading : r.id = m.id /\ in_flight_messages' = Put(in_flight_messages, r.id, m.number)
    BY <1>5 DEF Load
  <2>2. /\ job' = [job EXCEPT ![Main] = r] /\ reading' = {}
        /\ UNCHANGED <<waiting, delivered, runs>>
    BY <1>5 DEF Load, store
  <2> SUFFICES ASSUME runs = 1 PROVE Newest'
    BY <2>2 DEF Newest
  <2>3. \A n : Youngest(n)' <=> Youngest(n)
    BY <2>2 DEF Youngest
  <2>4. /\ in_flight_messages'[r.id] = m.number /\ r.id \in DOMAIN in_flight_messages'
        /\ \A i \in DOMAIN in_flight_messages : i # r.id =>
             i \in DOMAIN in_flight_messages' /\ in_flight_messages'[i] = in_flight_messages[i]
    BY <2>1 DEF Put
  <2>5. m \in Answered(r.id)' /\ Youngest(m)
    BY <2>1, <2>2, <2>4 DEF Answered, Newest
  <2>6. ASSUME NEW w \in Workers, job'[w] # NoJob
        PROVE  \E n \in Answered(job[w].id)' : n.id = job'[w].id /\ Youngest(n)'
    <3>1. CASE w = Main
      BY <2>1, <2>2, <2>3, <2>5, <3>1 DEF TypeOK
    <3>2. CASE w # Main
      <4>1. job'[w] = job[w] /\ job[w] # NoJob
        BY <2>2, <2>6, <3>2 DEF TypeOK
      <4>2. job[w].id # r.id
        BY <2>1, <4>1 DEF Alone
      <4>3. PICK n \in Answered(job[w].id) : n.id = job[w].id /\ Youngest(n)
        BY <4>1 DEF Newest
      <4>4. n \in Answered(job[w].id)'
        BY <2>2, <2>4, <4>1, <4>2, <4>3 DEF Answered
      <4> QED
        BY <2>3, <4>1, <4>3, <4>4
    <3> QED
      BY <3>1, <3>2
  <2> QED
    BY <2>2, <2>3, <2>6 DEF Newest
<1>6. ASSUME NEW t \in Tasks, Spawn(t) PROVE Newest'
  <2>1. /\ job'[Main] = NoJob /\ job'[t] = job[Main] /\ t # Main
        /\ \A w \in Workers \ {t, Main} : job'[w] = job[w]
        /\ UNCHANGED <<waiting, delivered, in_flight_messages, reading, runs>>
    BY <1>6 DEF Spawn, store, TypeOK
  <2>2. \A i : Answered(i)' = Answered(i)
    BY <2>1 DEF Answered
  <2>3. \A n : Youngest(n)' <=> Youngest(n)
    BY <2>1 DEF Youngest
  <2> QED
    BY <2>1, <2>2, <2>3 DEF Newest
<1>7. ASSUME NEW w \in Workers, NEW k \in owes[w], Probe(w, k) PROVE Newest'
  BY <1>7, NewestKept DEF Probe, store, history
<1>8. ASSUME NEW w \in Workers, Insert(w) PROVE Newest'
  BY <1>8, NewestKept DEF Insert
<1>9. ASSUME NEW w \in Workers, Push(w) PROVE Newest'
  <2>1. PICK n \in 1..MAX_MESSAGES :
          LET m == [number |-> n, id |-> writing[w].id, key |-> writing[w].key,
                    attempts |-> writing[w].attempts, new |-> pc[w] = "push_new"]
          IN  waiting' = waiting \cup {m} /\ \A x \in pushed : x.number < n
    BY <1>9 DEF Push, IsNextNumber
  <2> DEFINE m == [number |-> n, id |-> writing[w].id, key |-> writing[w].key,
                   attempts |-> writing[w].attempts, new |-> pc[w] = "push_new"]
  <2>2. waiting' = waiting \cup {m} /\ m.number = n
    BY <2>1
  <2> HIDE DEF m
  <2>3. \A x \in delivered : x \in pushed /\ x.number \in Nat
    BY DEF Ordered, Messages, TypeOK, Message
  <2>4. Youngest(m)
    BY <2>1, <2>2, <2>3 DEF Youngest
  <2>5. UNCHANGED <<delivered, in_flight_messages, reading, runs, job>>
    BY <1>9 DEF Push
  <2> QED
    BY <2>2, <2>4, <2>5, NewestKept
<1>10. ASSUME NEW w \in Workers, Mark(w) PROVE Newest'
  BY <1>10, NewestKept DEF Mark, history
<1>11. ASSUME NEW t \in Tasks, pc[t] = "work", Complete(t) PROVE Newest'
  BY <1>11, NewestLeaves DEF Complete
<1>12. ASSUME NEW t \in Tasks, pc[t] = "work", Requeue(t) PROVE Newest'
  BY <1>12, NewestLeaves DEF Requeue
<1>13. ASSUME NEW t \in Tasks, pc[t] = "work", Forgotten(t) PROVE Newest'
  BY <1>13, NewestLeaves DEF Forgotten
<1>14. ASSUME NEW t \in Tasks, pc[t] = "work", Fail(t) PROVE Newest'
  BY <1>14, NewestLeaves DEF Fail, TakeOut
<1>15. ASSUME NEW t \in Tasks, pc[t] = "work", FailPermanently(t) PROVE Newest'
  BY <1>15, NewestLeaves DEF FailPermanently, TakeOut
<1>16. ASSUME NEW t \in Tasks, PushDead(t) PROVE Newest'
  BY <1>16, NewestKept DEF PushDead, history
<1>17. ASSUME NEW t \in Tasks, Interrupted(t) PROVE Newest'
  BY <1>17, NewestKept DEF Interrupted, store
<1>18. CASE UNCHANGED vars
  BY <1>18, NewestKept DEF vars
<1> QED
  BY <1>1, <1>2, <1>3, <1>4, <1>5, <1>6, <1>7, <1>8, <1>9, <1>10, <1>11, <1>12, <1>13, <1>14,
       <1>15, <1>16, <1>17, <1>18 DEF Next, LoopStep, WorkerStep, TaskStep

IInv ==
    /\ TypeOK /\ Equipped /\ Ordered /\ Numbered /\ OneUrlPerId /\ NoneForgotten
    /\ Alone /\ Newest

\* The invariant the theorems rest on.
THEOREM SpecIInv == Spec => []IInv
<1>1. Init => IInv
  BY ReddbAssumption DEF Init, IInv, TypeOK, Equipped, Ordered, Numbered, OneUrlPerId,
       NoneForgotten, Safe, Alone, Newest,
     Carried, Known, Messages, RowOf, Empty, Nowhere, Workers, Busy, Places, Admitting, HandingBack,
     Job, Message
<1>2. IInv /\ [Next]_vars => IInv'
  <2> SUFFICES ASSUME IInv, [Next]_vars PROVE IInv'
    OBVIOUS
  <2>1. TypeOK'
    BY TypeStep DEF IInv
  <2>2. Ordered'
    BY OrderedStep DEF IInv
  <2>3. Equipped'
    BY <2>1, EquippedStep DEF IInv
  <2>4. Numbered'
    BY NumberedStep DEF IInv
  <2>5. OneUrlPerId'
    BY <2>1, <2>3, OneUrlStep DEF IInv
  <2>6. NoneForgotten'
    BY <2>1, NoneForgottenStep DEF IInv
  <2>7. Alone'
    BY <2>1, AloneStep DEF IInv
  <2>8. Newest'
    BY <2>1, NewestStep DEF IInv
  <2> QED
    BY <2>1, <2>2, <2>3, <2>4, <2>5, <2>6, <2>7, <2>8 DEF IInv
<1> QED
  BY <1>1, <1>2, PTL DEF Spec

-----------------------------------------------------------------------------
\* Every operation of the queue keeps the table, its messages and the maps
\* of the process well formed (all of src/queue/reddb.rs).
THEOREM SpecTypeOK == Spec => []TypeOK
<1>1. IInv => TypeOK
  BY DEF IInv
<1> QED
  BY <1>1, SpecIInv, PTL

\* A message always has the row it was pushed with, over any crash between
\* the two queries of push_with_delay and any restart: load_job finds it.
THEOREM SpecMessageHasRow == Spec => []MessageHasRow
<1>1. IInv => MessageHasRow
  BY DEF IInv, Ordered, MessageHasRow, RowOf
<1> QED
  BY <1>1, SpecIInv, PTL

\* push_unique marks a URL only after its message was pushed, over any
\* crash, restart and failure of a query.
THEOREM SpecMarkedIsPushed == Spec => []MarkedIsPushed
<1>1. IInv => MarkedIsPushed
  BY DEF IInv, Ordered, MarkedIsPushed
<1> QED
  BY <1>1, SpecIInv, PTL

\* In the first process on a queue, every row that load_job may return for
\* the id of a message is of the URL the message was pushed for.
THEOREM SpecIdsNameUrls == Spec => []IdsNameUrls
<1>1. IInv => IdsNameUrls
  <2> SUFFICES ASSUME IInv, runs = 1, NEW m \in Messages, NEW r \in rows, r.id = m.id
               PROVE  r.key = m.key
    BY DEF IdsNameUrls
  <2>1. RowOf(m) \in rows /\ RowOf(m).id = m.id /\ RowOf(m).key = m.key
    BY DEF IInv, Ordered, RowOf
  <2> QED
    BY <2>1 DEF IInv, OneUrlPerId, Known
<1> QED
  BY <1>1, SpecIInv, PTL

\* In the first process, only a requeue cut short between complete and push
\* loses a URL that is marked as seen.
THEOREM SpecOnlyRequeueLoses == Spec => []OnlyRequeueLoses
<1>1. IInv => OnlyRequeueLoses
  BY DEF IInv, NoneForgotten, Safe, OnlyRequeueLoses
<1> QED
  BY <1>1, SpecIInv, PTL

\* In the first process, complete acknowledges the message its own job came
\* with, not that of another URL nor the one left over from a failed attempt.
THEOREM SpecAnswersItsOwn == Spec => []AnswersItsOwn
<1>1. IInv => AnswersItsOwn
  <2> SUFFICES ASSUME IInv, runs = 1, NEW t \in Tasks, pc[t] = "work"
               PROVE  /\ Answered(job[t].id) # {}
                      /\ \A m \in Answered(job[t].id) :
                          m.key = job[t].key /\ \A n \in delivered : n.id = m.id => n.number <= m.number
    BY DEF AnswersItsOwn
  <2>1. job[t] # NoJob /\ t \in Workers
    BY ReddbAssumption DEF IInv, Equipped, Workers, Job
  <2>2. PICK x \in Answered(job[t].id) : Youngest(x)
    BY <2>1 DEF IInv, Newest
  <2>3. ASSUME NEW m \in Answered(job[t].id) PROVE m = x
    BY <2>2 DEF IInv, Ordered, Messages, Numbered, Answered
  <2>4. \A m \in Answered(job[t].id) : m.key = job[t].key
    BY AnsweredKey DEF IInv
  <2> QED
    BY <2>2, <2>3, <2>4 DEF Youngest
<1> QED
  BY <1>1, SpecIInv, PTL

-----------------------------------------------------------------------------
\* What in_flight has under the id of a job in hand.
Held(w) == job[w].id \in DOMAIN in_flight /\ in_flight[job[w].id] = job[w]

HeldByTheirOwn == runs = 1 => \A w \in Workers : job[w] # NoJob => Held(w)

\* In the first process, fail and fail_permanently find the job they are
\* called for, and the very one (in_flight, by id).
FailFindsItsOwn == runs = 1 => \A t \in Tasks : pc[t] = "work" => Held(t)

\* Task t leaves work; the ids of the others are not its id.
LEMMA HeldLeaves ==
    ASSUME TypeOK, Equipped, Alone, HeldByTheirOwn, NEW t \in Tasks, pc[t] = "work",
           job' = [job EXCEPT ![t] = NoJob], runs' = runs,
           in_flight' = Without(in_flight, job[t].id)
    PROVE  HeldByTheirOwn'
<1> SUFFICES ASSUME runs = 1, NEW w \in Workers, job'[w] # NoJob PROVE Held(w)'
  BY DEF HeldByTheirOwn
<1>1. job \in [Workers -> Job \cup {NoJob}] /\ job[t] \in Job /\ t \in Workers
  BY DEF TypeOK, Equipped, Workers
<1>2. job[t] # NoJob
  BY <1>1, ReddbAssumption DEF Job
<1>3. w # t /\ job'[w] = job[w] /\ job[w] # NoJob
  BY <1>1
<1>4. job[w].id # job[t].id /\ Held(w)
  BY <1>1, <1>2, <1>3 DEF Alone, HeldByTheirOwn
<1> QED
  BY <1>3, <1>4 DEF Held, Without

\* A step that leaves in_flight, and gives nobody a job.
LEMMA HeldKept ==
    ASSUME HeldByTheirOwn, runs' = runs, in_flight' = in_flight, job' = job
    PROVE  HeldByTheirOwn'
BY DEF HeldByTheirOwn, Held

LEMMA HeldStep ==
    ASSUME TypeOK, Equipped, Alone, HeldByTheirOwn, [Next]_vars
    PROVE  HeldByTheirOwn'
<1>0. job \in [Workers -> Job \cup {NoJob}] /\ pc \in [Workers -> Places]
  BY DEF TypeOK
<1>1. CASE Start
  BY <1>1 DEF Start, Alone, Nowhere, HeldByTheirOwn
<1>2. CASE Stop
  BY <1>2 DEF Stop, Nowhere, HeldByTheirOwn
<1>3. CASE Seeded
  BY <1>3, HeldKept DEF Seeded
<1>4. ASSUME NEW m \in waiting, Read(m) PROVE HeldByTheirOwn'
  BY <1>4, HeldKept DEF Read
<1>5. ASSUME NEW r \in rows, Load(r) PROVE HeldByTheirOwn'
  <2>1. PICK m \in reading : r.id = m.id /\ in_flight' = Put(in_flight, r.id, r)
    BY <1>5 DEF Load
  <2>2. job' = [job EXCEPT ![Main] = r] /\ runs' = runs /\ Main \in Workers
    BY <1>5 DEF Load, Workers
  <2> SUFFICES ASSUME runs = 1, NEW w \in Workers, job'[w] # NoJob PROVE Held(w)'
    BY <2>2 DEF HeldByTheirOwn
  <2>3. CASE w = Main
    BY <1>0, <2>1, <2>2, <2>3 DEF Held, Put
  <2>4. CASE w # Main
    <3>1. job'[w] = job[w] /\ job[w].id # r.id /\ Held(w)
      BY <1>0, <2>1, <2>2, <2>4 DEF Alone, HeldByTheirOwn
    <3> QED
      BY <2>1, <3>1 DEF Held, Put
  <2> QED
    BY <2>3, <2>4
<1>6. ASSUME NEW t \in Tasks, Spawn(t) PROVE HeldByTheirOwn'
  <2>1. /\ job' = [job EXCEPT ![Main] = NoJob, ![t] = job[Main]] /\ runs' = runs
        /\ in_flight' = in_flight /\ Main \in Workers /\ t \in Workers /\ t # Main
    BY <1>6, ReddbAssumption DEF Spawn, Workers
  <2>2. job'[Main] = NoJob /\ job'[t] = job[Main]
        /\ \A w \in Workers \ {t, Main} : job'[w] = job[w]
    BY <1>0, <2>1
  <2> QED
    BY <2>1, <2>2, ZenonT(60) DEF HeldByTheirOwn, Held
<1>7. ASSUME NEW w \in Workers, WorkerStep(w) PROVE HeldByTheirOwn'
  BY <1>7, HeldKept DEF WorkerStep, Probe, Insert, Push, Mark
<1>8. ASSUME NEW t \in Tasks, pc[t] = "work", Complete(t) \/ Requeue(t) PROVE HeldByTheirOwn'
  BY <1>8, HeldLeaves DEF Complete, Requeue, Leave, Acknowledge, AcknowledgeFails, Removed
<1>9. ASSUME NEW t \in Tasks, pc[t] = "work", Forgotten(t) PROVE HeldByTheirOwn'
  <2>1. t \in Workers /\ job[t] # NoJob
    BY <1>9, ReddbAssumption DEF Equipped, Workers, Job
  <2>2. runs # 1 /\ runs' = runs
    BY <1>9, <2>1 DEF HeldByTheirOwn, Held, Forgotten, Leave
  <2> QED
    BY <2>2 DEF HeldByTheirOwn
<1>10. ASSUME NEW t \in Tasks, pc[t] = "work", Fail(t) \/ FailPermanently(t) PROVE HeldByTheirOwn'
  BY <1>10, HeldLeaves DEF Fail, FailPermanently, TakeOut, Leave
<1>11. ASSUME NEW t \in Tasks, PushDead(t) \/ Interrupted(t) PROVE HeldByTheirOwn'
  BY <1>11, HeldKept DEF PushDead, Interrupted
<1>12. CASE UNCHANGED vars
  BY <1>12, HeldKept DEF vars
<1> QED
  BY <1>1, <1>2, <1>3, <1>4, <1>5, <1>6, <1>7, <1>8, <1>9, <1>10, <1>11, <1>12
     DEF Next, LoopStep, TaskStep

\* In the first process, no call of fail or fail_permanently comes to
\* nothing, and none takes another job than its own.
THEOREM SpecFailFindsItsOwn == Spec => []FailFindsItsOwn
<1>1. Init => HeldByTheirOwn
  BY DEF Init, HeldByTheirOwn, Nowhere
<1>2. IInv /\ HeldByTheirOwn /\ [Next]_vars => HeldByTheirOwn'
  BY HeldStep DEF IInv
<1>3. IInv /\ HeldByTheirOwn => FailFindsItsOwn
  <2> SUFFICES ASSUME IInv, HeldByTheirOwn, runs = 1, NEW t \in Tasks, pc[t] = "work"
               PROVE  Held(t)
    BY DEF FailFindsItsOwn
  <2>1. t \in Workers /\ job[t] # NoJob
    BY ReddbAssumption DEF IInv, Equipped, Workers, Job
  <2> QED
    BY <2>1 DEF HeldByTheirOwn
<1> QED
  BY <1>1, <1>2, <1>3, SpecIInv, PTL DEF Spec

\* A message that was acknowledged is never handed out again: neither a push
\* nor a redelivery to a later process brings it back (complete, QUEUE ACK).
StayGone == \A m \in pushed \ Messages : m \notin Messages'
AcknowledgedIsGone == [][StayGone]_vars

\* Acknowledged for ever, over any crash and restart.
THEOREM SpecAcknowledgedIsGone == Spec => AcknowledgedIsGone
<1>1. ASSUME IInv, [Next]_vars, NEW m \in pushed \ Messages
      PROVE  m \notin Messages'
  <2>1. CASE waiting' \subseteq Messages /\ delivered' \subseteq Messages
    BY <2>1 DEF Messages
  <2>2. CASE Start
    BY <2>1, <2>2 DEF Start, Messages
  <2>3. ASSUME NEW n \in waiting, Read(n) PROVE m \notin Messages'
    BY <2>1, <2>3 DEF Read, Messages
  <2>4. ASSUME NEW w \in Workers, Push(w) PROVE m \notin Messages'
    <3>1. PICK n \in 1 .. MAX_MESSAGES :
            \E x : /\ IsNextNumber(n) /\ x.number = n
                  /\ waiting' = waiting \cup {x} /\ delivered' = delivered
      BY <2>4 DEF Push
    <3>2. m.number < n /\ m.number \in Nat
      BY <1>1, <3>1 DEF IsNextNumber, IInv, TypeOK, Message
    <3> QED
      BY <3>1, <3>2 DEF Messages
  <2>5. ASSUME NEW t \in Tasks, pc[t] = "work", Complete(t) \/ Requeue(t) PROVE m \notin Messages'
    <3>1. waiting' = waiting /\ delivered' \subseteq delivered
      BY <2>5 DEF Complete, Requeue, Leave, Acknowledge, AcknowledgeFails
    <3> QED
      BY <2>1, <3>1 DEF Messages
  <2>6. CASE UNCHANGED <<waiting, delivered>>
    BY <2>1, <2>6 DEF Messages
  <2>7. \/ Start \/ (\E n \in waiting : Read(n)) \/ (\E w \in Workers : Push(w))
        \/ (\E t \in Tasks : pc[t] = "work" /\ (Complete(t) \/ Requeue(t)))
        \/ UNCHANGED <<waiting, delivered>>
    BY <1>1 DEF Next, LoopStep, WorkerStep, TaskStep, Stop, store, Seeded, Load, Spawn, Probe,
                Insert, Mark, Forgotten, Leave, Fail, FailPermanently, TakeOut, PushDead,
                Interrupted, vars
  <2> QED
    BY <2>2, <2>3, <2>4, <2>5, <2>6, <2>7
<1>2. IInv /\ [Next]_vars => [StayGone]_vars
  BY <1>1 DEF StayGone
<1> QED
  BY <1>2, SpecIInv, PTL DEF Spec, AcknowledgedIsGone
====
