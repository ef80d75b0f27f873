---- MODULE SqliteQueueProofs ----
(***************************************************************************)
(* Proofs about the durable queue for every number of URLs, rows and       *)
(* ticks, every retry cap and every table an older build left behind: for  *)
(* one process at a time, and what holds of any number on one file.        *)
(***************************************************************************)
EXTENDS SqliteQueue, Sequences, TLAPS

\* The unique index.
IndexHolds == indexed => CanonsDiffer

\* One process at a time uses the file, and has the queue open only after it
\* made the index.
OneOpen ==
    /\ open # {} => indexed
    /\ \A p, q \in Using : p = q
    /\ \A p \in open : opening[p] = "no"
    /\ \A p \in Processes : opening[p] = "reclaim" => indexed
    /\ \A p \in Processes \ open : held[p] = {}

HeldInFlight == \A p \in Processes : \A i \in held[p] : rows[i].state = "in_flight"

\* c is a canonical_url that row i may have.
Own(i, c) == c \in {<<rows[i].key, 0>>, <<rows[i].key, i>>}

\* What a process read is what it is about to rewrite, and once it has, the
\* columns are those of their rows.
Migrating ==
    /\ \A p \in Processes : opening[p] = "rewrite" =>
         /\ Ids \subseteq DOMAIN plan[p]
         /\ \A i \in Ids : Own(i, plan[p][i])
         /\ \A i, j \in Ids : plan[p][i] = plan[p][j] => i = j
    /\ open # {} \/ (\E p \in Processes : opening[p] \in {"index", "reclaim"}) =>
         /\ \A i \in Ids : Own(i, rows[i].canon)
         /\ CanonsDiffer

\* The inductive invariant: a step is safe only because what a process holds
\* is in_flight, which keeps a purge away from it.
IInv ==
    /\ TypeOK
    /\ IndexHolds
    /\ OneOpen
    /\ Migrating
    /\ HeldInFlight
    /\ AttemptsWithinCap

-----------------------------------------------------------------------------
LEMMA SecondsNat == ASSUME NEW t \in Nat PROVE Seconds(t) \in Int
  BY QueueAssumption DEF Seconds

LEMMA CeilNat == ASSUME NEW d \in Nat PROVE CeilSeconds(d) \in Int
  BY QueueAssumption DEF CeilSeconds

LEMMA InitOpening ==
  ASSUME Init
  PROVE  /\ opening \in [Processes -> {"no", "rewrite", "index", "reclaim"}]
         /\ \A p \in Processes : opening[p] = "no"
         /\ DOMAIN plan = Processes
         /\ Using = {}
         /\ Migrating
  BY DEF Init, Using, Migrating

LEMMA InitIInv == Init => IInv
  <1> SUFFICES ASSUME Init PROVE IInv
    OBVIOUS
  <1>1. CASE rows = <<>>
    <2>1. Ids = {}
      BY <1>1, SMT DEF Ids
    <2>2. rows \in [Ids -> Row]
      <3>1. rows \in Seq(Row)
        BY <1>1
      <3> QED
        BY <2>1, <3>1 DEF Ids
    <2> QED
      BY <2>1, <2>2, InitOpening DEF Init, IInv, TypeOK, IndexHolds, OneOpen, HeldInFlight,
                AttemptsWithinCap, Ids
  <1>2. CASE rows \in LegacyTables
    <2>1. IsLegacyTable(rows)
      BY <1>2, QueueAssumption
    <2> QED
      BY <2>1, InitOpening DEF Init, IsLegacyTable, IInv, TypeOK, IndexHolds, OneOpen,
                  HeldInFlight, AttemptsWithinCap, Ids
  <1> QED
    BY <1>1, <1>2 DEF Init

\* The plan gives every row a value of its own.
LEMMA PlanOf ==
  ASSUME rows \in [Ids -> Row], Ids \subseteq Nat \ {0}
  PROVE  /\ DOMAIN Plan(rows) = Ids
         /\ Plan(rows) \in [Ids -> Keys \X Nat]
         /\ \A i \in Ids : Own(i, Plan(rows)[i])
         /\ \A i, j \in Ids : Plan(rows)[i] = Plan(rows)[j] => i = j
  <1> DEFINE first(i) == ~ \E j \in Ids : j < i /\ rows[j].key = rows[i].key
             n(i) == IF first(i) THEN 0 ELSE i
  <1>1. /\ DOMAIN Plan(rows) = Ids
        /\ \A i \in Ids : Plan(rows)[i] = <<rows[i].key, n(i)>>
        /\ Plan(rows) = [i \in Ids |-> <<rows[i].key, n(i)>>]
    BY DEF Plan, Ids
  <1>2. \A i \in Ids : rows[i].key \in Keys /\ n(i) \in {0, i} /\ i \in Nat \ {0}
    BY DEF Row
  <1>3. ASSUME NEW i \in Ids, NEW j \in Ids, rows[i].key = rows[j].key, n(i) = n(j)
        PROVE  i = j
    <2>1. CASE n(i) = 0
      <3>1. first(i) /\ first(j)
        BY <1>2, <1>3, <2>1
      <3>2. ~(i < j) /\ ~(j < i)
        BY <1>3, <3>1
      <3> QED
        BY <1>2, <3>2
    <2>2. CASE n(i) # 0
      BY <1>2, <1>3, <2>2
    <2> QED
      BY <2>1, <2>2
  <1> HIDE DEF n, first
  <1>4. \A i \in Ids : <<rows[i].key, n(i)>> \in Keys \X Nat
    BY <1>2
  <1>5. \A i \in Ids : Own(i, Plan(rows)[i])
    BY <1>1, <1>2 DEF Own
  <1>6. ASSUME NEW i \in Ids, NEW j \in Ids, Plan(rows)[i] = Plan(rows)[j] PROVE i = j
    <2>1. <<rows[i].key, n(i)>> = <<rows[j].key, n(j)>>
      BY <1>1, <1>6
    <2>2. rows[i].key = rows[j].key /\ n(i) = n(j)
      BY <2>1
    <2> QED
      BY <1>3, <2>2
  <1> QED
    BY <1>1, <1>4, <1>5, <1>6

\* The migration rewrites one column.
LEMMA RewrittenRows ==
  ASSUME NEW p \in Processes, Rewrite(p), rows \in [Ids -> Row],
         plan[p] \in [DOMAIN plan[p] -> Keys \X Nat]
  PROVE  /\ Ids' = Ids
         /\ rows' \in [Ids -> Row]
         /\ \A i \in Ids :
              /\ rows'[i].canon = IF i \in DOMAIN plan[p] THEN plan[p][i] ELSE rows[i].canon
              /\ rows'[i].key = rows[i].key
              /\ rows'[i].state = rows[i].state
              /\ rows'[i].attempts = rows[i].attempts
              /\ rows'[i].due = rows[i].due
              /\ rows'[i].notBefore = rows[i].notBefore
  <1>1. /\ DOMAIN rows' = Ids
        /\ rows' = [i \in Ids |-> rows'[i]]
        /\ \A i \in Ids :
             rows'[i] = IF i \in DOMAIN plan[p] THEN [rows[i] EXCEPT !.canon = plan[p][i]]
                        ELSE rows[i]
    BY DEF Rewrite
  <1>2. ASSUME NEW i \in Ids
        PROVE  /\ rows'[i] \in Row
               /\ rows'[i].canon = IF i \in DOMAIN plan[p] THEN plan[p][i] ELSE rows[i].canon
               /\ rows'[i].key = rows[i].key
               /\ rows'[i].state = rows[i].state
               /\ rows'[i].attempts = rows[i].attempts
               /\ rows'[i].due = rows[i].due
               /\ rows'[i].notBefore = rows[i].notBefore
    <2>1. CASE i \in DOMAIN plan[p]
      <3>1. plan[p][i] \in Canons
        BY <2>1 DEF Canons
      <3>2. rows'[i] = [rows[i] EXCEPT !.canon = plan[p][i]] /\ rows[i] \in Row
        BY <1>1, <2>1
      <3> QED
        BY <2>1, <3>1, <3>2 DEF Row
    <2>2. CASE i \notin DOMAIN plan[p]
      BY <1>1, <2>2
    <2> QED
      BY <2>1, <2>2
  <1>3. rows' \in [Ids -> Row]
    BY <1>1, <1>2
  <1> QED
    BY <1>1, <1>2, <1>3 DEF Ids

\* The reclaim changes no more than the states.
LEMMA ReclaimedRows ==
  ASSUME NEW p \in Processes, Reclaim(p), rows \in [Ids -> Row]
  PROVE  /\ Ids' = Ids
         /\ rows' \in [Ids -> Row]
         /\ \A i \in Ids :
              /\ rows'[i].canon = rows[i].canon
              /\ rows'[i].key = rows[i].key
              /\ rows'[i].state = IF rows[i].state = "in_flight" THEN "pending"
                                  ELSE rows[i].state
              /\ rows'[i].attempts = rows[i].attempts
              /\ rows'[i].due = rows[i].due
              /\ rows'[i].notBefore = rows[i].notBefore
  <1>1. /\ DOMAIN rows' = Ids
        /\ rows' = [i \in Ids |-> rows'[i]]
        /\ \A i \in Ids :
             rows'[i] = IF rows[i].state = "in_flight"
                        THEN [rows[i] EXCEPT !.state = "pending"] ELSE rows[i]
    BY DEF Reclaim, Reclaimed, Ids
  <1>2. \A i \in Ids :
          /\ rows'[i] \in Row
          /\ rows'[i].canon = rows[i].canon
          /\ rows'[i].key = rows[i].key
          /\ rows'[i].state = IF rows[i].state = "in_flight" THEN "pending"
                              ELSE rows[i].state
          /\ rows'[i].attempts = rows[i].attempts
          /\ rows'[i].due = rows[i].due
          /\ rows'[i].notBefore = rows[i].notBefore
    BY <1>1 DEF Row, States
  <1>3. rows' \in [Ids -> Row]
    BY <1>1, <1>2
  <1> QED
    BY <1>1, <1>2, <1>3 DEF Ids

\* Whoever starts to open the file is the only one that uses it.
LEMMA ReadUrlsStep ==
  ASSUME IInv, NEW p \in Processes, ReadUrls(p), alone'
  PROVE  IInv'
  <1>1. /\ Using = {} /\ UNCHANGED <<rows, indexed, now, open, held>> /\ Ids' = Ids
        /\ alone' \in BOOLEAN
    BY DEF ReadUrls, Ids
  <1>2. /\ opening' \in [Processes -> {"no", "rewrite", "index", "reclaim"}]
        /\ opening'[p] = "rewrite" /\ DOMAIN plan' = Processes /\ plan'[p] = Plan(rows)
        /\ \A q \in Processes \ {p} : opening'[q] = "no"
    BY <1>1 DEF ReadUrls, IInv, TypeOK, Using
  <1>3. rows \in [Ids -> Row] /\ Ids \subseteq Nat \ {0}
    BY DEF IInv, TypeOK, Ids
  <1>4. Plan(rows) \in [Ids -> Keys \X Nat] /\ DOMAIN Plan(rows) = Ids
    BY <1>3, PlanOf
  <1>5. open = {} /\ Using' = {p}
    BY <1>1, <1>2 DEF Using
  <1>6. TypeOK'
    BY <1>1, <1>2, <1>4 DEF IInv, TypeOK, Ids
  <1>7. IndexHolds' /\ HeldInFlight' /\ AttemptsWithinCap'
    BY <1>1 DEF IInv, IndexHolds, CanonsDiffer, HeldInFlight, AttemptsWithinCap
  <1>8. OneOpen'
    BY <1>1, <1>2, <1>5 DEF IInv, OneOpen
  <1>9. Migrating'
    <2>1. /\ Ids \subseteq DOMAIN Plan(rows)
          /\ \A i \in Ids : Own(i, Plan(rows)[i])
          /\ \A i, j \in Ids : Plan(rows)[i] = Plan(rows)[j] => i = j
      BY <1>3, PlanOf
    <2> QED
      BY <1>1, <1>2, <1>5, <2>1 DEF Migrating, Own
  <1> QED
    BY <1>6, <1>7, <1>8, <1>9 DEF IInv

\* Only the process that opens the file has it.
LEMMA OnlyOpener ==
  ASSUME IInv, NEW p \in Processes, opening[p] # "no"
  PROVE  /\ open = {}
         /\ \A q \in Processes : held[q] = {} /\ (q # p => opening[q] = "no")
         /\ rows \in [Ids -> Row] /\ Ids \subseteq Nat \ {0}
  <1>1. p \in Using /\ open \subseteq Using
    BY DEF Using
  <1>2. open = {}
    BY <1>1 DEF IInv, OneOpen
  <1>3. \A q \in Processes : q # p => opening[q] = "no"
    BY <1>1 DEF IInv, OneOpen, Using
  <1> QED
    BY <1>2, <1>3 DEF IInv, OneOpen, TypeOK, Ids

LEMMA RewriteStep ==
  ASSUME IInv, NEW p \in Processes, Rewrite(p)
  PROVE  IInv'
  <1>1. /\ UNCHANGED <<indexed, now, open, held, alone>> /\ opening[p] = "rewrite"
        /\ opening' \in [Processes -> {"no", "rewrite", "index", "reclaim"}]
        /\ opening'[p] = "index" /\ DOMAIN plan' = Processes
        /\ \A q \in Processes \ {p} : opening'[q] = opening[q]
    BY DEF Rewrite, IInv, TypeOK
  <1>2. /\ open = {}
        /\ \A q \in Processes : held[q] = {} /\ (q # p => opening[q] = "no")
        /\ rows \in [Ids -> Row] /\ Ids \subseteq Nat \ {0}
    BY <1>1, OnlyOpener
  <1>3. plan[p] \in [DOMAIN plan[p] -> Keys \X Nat]
    BY <1>1 DEF IInv, TypeOK
  <1>4. /\ Ids \subseteq DOMAIN plan[p]
        /\ \A i \in Ids : Own(i, plan[p][i])
        /\ \A i, j \in Ids : plan[p][i] = plan[p][j] => i = j
    BY <1>1 DEF IInv, Migrating
  <1>5. /\ Ids' = Ids
        /\ rows' \in [Ids -> Row]
        /\ \A i \in Ids :
              /\ rows'[i].canon = plan[p][i]
              /\ rows'[i].key = rows[i].key
              /\ rows'[i].state = rows[i].state
              /\ rows'[i].attempts = rows[i].attempts
    BY <1>2, <1>3, <1>4, RewrittenRows
  <1>6. TypeOK'
    BY <1>1, <1>2, <1>5 DEF IInv, TypeOK, Ids
  <1>7. (\A i \in Ids : Own(i, rows[i].canon))' /\ CanonsDiffer'
    BY <1>4, <1>5 DEF CanonsDiffer, Own
  <1>8. IndexHolds' /\ HeldInFlight' /\ AttemptsWithinCap'
    BY <1>1, <1>2, <1>5, <1>7 DEF IInv, IndexHolds, HeldInFlight, AttemptsWithinCap
  <1>9. Using' = {p}
    BY <1>1, <1>2 DEF Using
  <1>10. OneOpen'
    BY <1>1, <1>2, <1>9 DEF IInv, OneOpen
  <1>11. Migrating'
    BY <1>1, <1>2, <1>7 DEF Migrating
  <1> QED
    BY <1>6, <1>8, <1>10, <1>11 DEF IInv

LEMMA CreateIndexStep ==
  ASSUME IInv, NEW p \in Processes, CreateIndex(p)
  PROVE  IInv'
  <1>1. /\ UNCHANGED <<rows, now, plan, open, held, alone>> /\ opening[p] = "index"
        /\ opening' \in [Processes -> {"no", "rewrite", "index", "reclaim"}]
        /\ opening'[p] = "reclaim" /\ indexed' = TRUE /\ Ids' = Ids
        /\ \A q \in Processes \ {p} : opening'[q] = opening[q]
    BY DEF CreateIndex, IInv, TypeOK, Ids
  <1>2. /\ open = {}
        /\ \A q \in Processes : held[q] = {} /\ (q # p => opening[q] = "no")
    BY <1>1, OnlyOpener
  <1>3. (\A i \in Ids : Own(i, rows[i].canon)) /\ CanonsDiffer
    BY <1>1 DEF IInv, Migrating
  <1>4. TypeOK'
    BY <1>1, <1>2 DEF IInv, TypeOK
  <1>5. IndexHolds' /\ HeldInFlight' /\ AttemptsWithinCap' /\ Migrating'
    BY <1>1, <1>2, <1>3 DEF IInv, IndexHolds, CanonsDiffer, HeldInFlight, AttemptsWithinCap,
       Migrating, Own
  <1>6. Using' = {p}
    BY <1>1, <1>2 DEF Using
  <1>7. OneOpen'
    BY <1>1, <1>2, <1>6 DEF IInv, OneOpen
  <1> QED
    BY <1>4, <1>5, <1>7 DEF IInv

LEMMA ReclaimStep ==
  ASSUME IInv, NEW p \in Processes, Reclaim(p)
  PROVE  IInv'
  <1>1. /\ UNCHANGED <<indexed, now, plan, held, alone>> /\ opening[p] = "reclaim"
        /\ opening' \in [Processes -> {"no", "rewrite", "index", "reclaim"}]
        /\ opening'[p] = "no" /\ open' = open \cup {p} /\ indexed
        /\ \A q \in Processes \ {p} : opening'[q] = opening[q]
    BY DEF Reclaim, IInv, TypeOK, OneOpen
  <1>2. /\ open = {}
        /\ \A q \in Processes : held[q] = {} /\ (q # p => opening[q] = "no")
        /\ rows \in [Ids -> Row]
    BY <1>1, OnlyOpener
  <1>3. (\A i \in Ids : Own(i, rows[i].canon)) /\ CanonsDiffer
    BY <1>1 DEF IInv, Migrating
  <1>4. /\ Ids' = Ids
        /\ rows' \in [Ids -> Row]
        /\ \A i \in Ids :
              /\ rows'[i].canon = rows[i].canon
              /\ rows'[i].key = rows[i].key
              /\ rows'[i].state = IF rows[i].state = "in_flight" THEN "pending"
                                  ELSE rows[i].state
              /\ rows'[i].attempts = rows[i].attempts
    BY <1>2, ReclaimedRows
  <1>5. TypeOK'
    BY <1>1, <1>2, <1>4 DEF IInv, TypeOK, Ids
  <1>6. (\A i \in Ids : Own(i, rows[i].canon))' /\ CanonsDiffer'
    BY <1>3, <1>4 DEF CanonsDiffer, Own
  <1>7. IndexHolds' /\ HeldInFlight' /\ AttemptsWithinCap'
    BY <1>1, <1>2, <1>4, <1>6 DEF IInv, IndexHolds, HeldInFlight, AttemptsWithinCap
  <1>8. Using' = {p} /\ \A q \in Processes : opening'[q] = "no"
    BY <1>1, <1>2 DEF Using
  <1>9. OneOpen'
    BY <1>1, <1>2, <1>8 DEF IInv, OneOpen
  <1>10. Migrating'
    BY <1>6, <1>8 DEF Migrating
  <1> QED
    BY <1>5, <1>7, <1>9, <1>10 DEF IInv

\* While a process has the queue open nobody migrates it, and every row has a
\* canonical_url of its own.
LEMMA OpenTable ==
  ASSUME IInv, NEW p \in open
  PROVE  /\ \A q \in Processes : opening[q] = "no"
         /\ \A i \in Ids : Own(i, rows[i].canon)
         /\ CanonsDiffer
  <1>1. \A q \in Processes : opening[q] = "no"
    BY DEF IInv, OneOpen, Using
  <1> QED
    BY <1>1 DEF IInv, Migrating

\* A task hands job i back with the contents "row".
LEMMA ResolveStep ==
  ASSUME IInv, NEW p \in Processes, NEW i \in held[p], NEW row \in Row,
         row.key = rows[i].key,
         row.canon # rows[i].canon =>
            row.canon = <<row.key, 0>> /\ ~KeyHeldElsewhere(i, row.key),
         Live(row) => row.attempts <= RetryMax,
         Resolve(p, i, row),
         \A q \in Processes : q # p => i \notin held[q]
  PROVE  IInv'
  <1>1. /\ i \in Ids /\ Ids' = Ids
        /\ rows' = [rows EXCEPT ![i] = row]
        /\ held' = [held EXCEPT ![p] = @ \ {i}]
        /\ UNCHANGED <<indexed, now, opening, plan, open, alone>>
    BY DEF IInv, TypeOK, Ids, Resolve
  <1>2. /\ rows' \in [Ids -> Row]
        /\ rows'[i] = row
        /\ \A j \in Ids \ {i} : rows'[j] = rows[j]
    BY <1>1 DEF IInv, TypeOK, Ids
  <1>3. /\ held' \in [Processes -> SUBSET Ids]
        /\ \A q \in Processes : held'[q] = held[q] \ {i}
    BY <1>1 DEF IInv, TypeOK, Ids
  <1>4. TypeOK'
    BY <1>1, <1>2, <1>3 DEF IInv, TypeOK, Ids
  <1>5. p \in open
    BY DEF IInv, OneOpen
  <1>6. /\ \A q \in Processes : opening[q] = "no"
        /\ \A j \in Ids : Own(j, rows[j].canon)
        /\ CanonsDiffer
    BY <1>5, OpenTable
  <1>7. CanonsDiffer'
    BY <1>1, <1>2, <1>6 DEF CanonsDiffer, KeyHeldElsewhere
  <1>8. (\A j \in Ids : Own(j, rows[j].canon))'
    <2> SUFFICES ASSUME NEW j \in Ids PROVE Own(j, rows[j].canon)'
      BY <1>1
    <2>1. CASE j = i
      BY <1>1, <1>2, <1>6, <2>1 DEF Own
    <2>2. CASE j # i
      BY <1>1, <1>2, <1>6, <2>2 DEF Own
    <2> QED
      BY <2>1, <2>2
  <1>9. AttemptsWithinCap'
    BY <1>1, <1>2 DEF IInv, AttemptsWithinCap, Live
  <1>10. IndexHolds' /\ Migrating'
    BY <1>1, <1>6, <1>7, <1>8 DEF IndexHolds, Migrating
  <1>11. OneOpen' /\ HeldInFlight'
    BY <1>1, <1>2, <1>3 DEF IInv, OneOpen, Using, HeldInFlight
  <1> QED
    BY <1>4, <1>9, <1>10, <1>11 DEF IInv

LEMMA OnlyHolder ==
  ASSUME IInv, NEW p \in Processes, NEW i \in held[p]
  PROVE  /\ i \in Ids
         /\ rows[i] \in Row
         /\ rows[i].state = "in_flight"
         /\ rows[i].attempts <= RetryMax
         /\ p \in open
         /\ \A q \in Processes : q # p => i \notin held[q]
  <1>1. i \in Ids /\ rows[i] \in Row /\ rows[i].state = "in_flight"
    BY DEF IInv, TypeOK, Ids, HeldInFlight
  <1>2. rows[i].attempts <= RetryMax
    BY <1>1 DEF IInv, AttemptsWithinCap
  <1>3. p \in open
    BY DEF IInv, OneOpen
  <1>4. \A q \in Processes : q # p => held[q] = {}
    BY <1>3 DEF IInv, OneOpen, Using
  <1> QED
    BY <1>1, <1>2, <1>3, <1>4

\* A requeued job is within the cap if the job that was popped is.
LEMMA RequeuedWithinCap ==
  ASSUME NEW i, JobAttempts(i) \subseteq 0 .. RetryMax, NEW a \in RequeueAttempts(i)
  PROVE  a \in Nat /\ a <= RetryMax
  <1>1. RetryMax \in Nat
    BY QueueAssumption
  <1>2. a = 0 \/ a \in JobAttempts(i) \/ a \in 1 .. RetryMax
    BY DEF RequeueAttempts
  <1>3. a \in 0 .. RetryMax
    BY <1>1, <1>2
  <1> QED
    BY <1>1, <1>3

\* Rescheduling rewrites state and attempts and keeps the identity of a row.
LEMMA RescheduledRow ==
  ASSUME NEW r \in Row, NEW s \in States, NEW a \in Nat, NEW d \in Nat, now \in Nat
  PROVE  /\ Rescheduled(r, s, a, d) \in Row
         /\ Rescheduled(r, s, a, d).key = r.key
         /\ Rescheduled(r, s, a, d).canon = r.canon
         /\ Rescheduled(r, s, a, d).attempts = a
         /\ Rescheduled(r, s, a, d).state = s
  <1> DEFINE n == Seconds(now) + CeilSeconds(d)
             x1 == [r EXCEPT !.state = s]
             x2 == [x1 EXCEPT !.attempts = a]
             x3 == [x2 EXCEPT !.notBefore = n]
             x4 == [x3 EXCEPT !.due = now + d]
  <1>1. x1 \in Row /\ x1.key = r.key /\ x1.canon = r.canon /\ x1.state = s
    BY DEF Row
  <1> HIDE DEF x1
  <1>2. x2 \in Row /\ x2.key = r.key /\ x2.canon = r.canon /\ x2.state = s /\ x2.attempts = a
    BY <1>1 DEF Row
  <1> HIDE DEF x2
  <1>3. x3 \in Row /\ x3.key = r.key /\ x3.canon = r.canon /\ x3.state = s /\ x3.attempts = a
    <2>1. n \in Int
      BY SecondsNat, CeilNat
    <2> HIDE DEF n
    <2> QED
      BY <1>2, <2>1 DEF Row
  <1> HIDE DEF x3
  <1>4. x4 \in Row /\ x4.key = r.key /\ x4.canon = r.canon /\ x4.state = s /\ x4.attempts = a
    BY <1>3 DEF Row
  <1> QED
    BY <1>4 DEF x1, x2, x3, Rescheduled

LEMMA CompleteStep ==
  ASSUME IInv, NEW p \in Processes, NEW i \in held[p], Complete(p, i)
  PROVE  IInv'
  <1> DEFINE row == [rows[i] EXCEPT !.state = "done"]
  <1>1. /\ row \in Row /\ row.key = rows[i].key /\ row.canon = rows[i].canon
        /\ row.state = "done"
    BY OnlyHolder DEF Row, States
  <1>2. Resolve(p, i, row)
    BY DEF Complete
  <1> HIDE DEF row
  <1> QED
    BY <1>1, <1>2, OnlyHolder, ResolveStep DEF Live

LEMMA FailStep ==
  ASSUME IInv, NEW p \in Processes, NEW i \in held[p], NEW d \in Delays, Fail(p, i, d)
  PROVE  IInv'
  <1> DEFINE s == IF rows[i].attempts + 1 >= RetryMax THEN "failed" ELSE "pending"
             a == rows[i].attempts + 1
             row == Rescheduled(rows[i], s, a, d)
  <1>1. rows[i] \in Row /\ s \in States /\ a \in Nat
    BY OnlyHolder DEF Row, States
  <1>2. now \in Nat /\ d \in Nat
    BY QueueAssumption DEF IInv, TypeOK
  <1>3. /\ row \in Row /\ row.key = rows[i].key /\ row.canon = rows[i].canon
        /\ row.attempts = a /\ row.state = s
    <2> HIDE DEF a, s
    <2> QED
      BY <1>1, <1>2, RescheduledRow
  <1>4. Resolve(p, i, row)
    BY DEF Fail
  <1>5. Live(row) => row.attempts <= RetryMax
    <2>1. rows[i].attempts \in Nat /\ RetryMax \in Nat
      BY OnlyHolder, QueueAssumption DEF Row
    <2> HIDE DEF row
    <2> QED
      BY <1>3, <2>1 DEF Live
  <1> HIDE DEF row
  <1> QED
    BY <1>3, <1>4, <1>5, OnlyHolder, ResolveStep

LEMMA FailPermanentlyStep ==
  ASSUME IInv, NEW p \in Processes, NEW i \in held[p], FailPermanently(p, i)
  PROVE  IInv'
  <1> DEFINE s == "failed"
             a == rows[i].attempts + 1
             row == Rescheduled(rows[i], s, a, 0)
  <1>1. rows[i] \in Row /\ s \in States /\ a \in Nat /\ now \in Nat
    BY OnlyHolder DEF Row, States, IInv, TypeOK
  <1>2. /\ row \in Row /\ row.key = rows[i].key /\ row.canon = rows[i].canon
        /\ row.state = s
    <2> DEFINE z == 0
    <2>1. z \in Nat
      OBVIOUS
    <2>2. row = Rescheduled(rows[i], s, a, z)
      OBVIOUS
    <2> HIDE DEF a, s, z, row
    <2> QED
      BY <1>1, <2>1, <2>2, RescheduledRow
  <1>3. Resolve(p, i, row)
    BY DEF FailPermanently
  <1> HIDE DEF row
  <1> QED
    BY <1>2, <1>3, OnlyHolder, ResolveStep DEF Live

LEMMA RequeueStep ==
  ASSUME IInv, alone, NEW p \in Processes, NEW i \in held[p], NEW k \in JobKeys(i),
         NEW prio \in Priorities, NEW a \in RequeueAttempts(i), NEW d \in Delays,
         Requeue(p, i, k, prio, a, d)
  PROVE  IInv'
  <1> DEFINE r == [rows[i] EXCEPT !.key = k, !.canon = <<k, 0>>, !.prio = prio]
             row == Rescheduled(r, "pending", a, d)
  <1>1. now \in Nat /\ d \in Nat /\ prio \in Int /\ "pending" \in States
    BY QueueAssumption DEF IInv, TypeOK, States
  <1>2. a \in Nat /\ a <= RetryMax
    <2>1. rows[i].attempts \in Nat /\ rows[i].attempts <= RetryMax
      BY OnlyHolder DEF Row
    <2>2. JobAttempts(i) \subseteq 0 .. RetryMax
      BY <2>1, QueueAssumption DEF JobAttempts
    <2> QED
      BY <2>2, RequeuedWithinCap
  <1>3. r \in Row /\ r.key = rows[i].key /\ r.canon = <<k, 0>>
    <2> DEFINE x == [rows[i] EXCEPT !.key = k, !.canon = <<k, 0>>]
    <2>0. rows[i] \in Row /\ k = rows[i].key
      BY OnlyHolder DEF JobKeys
    <2>1. <<k, 0>> \in Canons
      BY <2>0 DEF Row, Canons
    <2>2. x \in Row /\ x.key = rows[i].key /\ x.canon = <<k, 0>>
      BY <2>0, <2>1 DEF Row
    <2> HIDE DEF x
    <2>3. /\ [x EXCEPT !.prio = prio] \in Row
          /\ [x EXCEPT !.prio = prio].key = rows[i].key
          /\ [x EXCEPT !.prio = prio].canon = <<k, 0>>
      BY <1>1, <2>2 DEF Row
    <2> QED
      BY <2>3 DEF x
  <1>4. Resolve(p, i, row) /\ ~KeyHeldElsewhere(i, rows[i].key) /\ k = rows[i].key
    BY DEF Requeue, JobKeys
  <1> HIDE DEF r
  <1>5. row \in Row /\ row.key = rows[i].key /\ row.canon = <<k, 0>> /\ row.attempts = a
    <2>1. ASSUME NEW q \in Row
          PROVE  LET x == Rescheduled(q, "pending", a, d)
                 IN  x \in Row /\ x.key = q.key /\ x.canon = q.canon /\ x.attempts = a
      BY <1>1, <1>2, RescheduledRow
    <2>2. row.key = r.key /\ row.canon = r.canon /\ row \in Row /\ row.attempts = a
      BY <1>3, <2>1
    <2> HIDE DEF row
    <2> QED
      BY <1>3, <2>2
  <1> HIDE DEF row
  <1> QED
    BY <1>2, <1>4, <1>5, OnlyHolder, ResolveStep

LEMMA InsertStep ==
  ASSUME IInv, NEW p \in Processes, NEW k \in Keys, NEW prio \in Priorities,
         NEW d \in Delays, Insert(p, k, prio, d)
  PROVE  IInv'
  <1> DEFINE row == [key |-> k, canon |-> <<k, 0>>, state |-> "pending", attempts |-> 0,
                     prio |-> prio, notBefore |-> Seconds(now) + CeilSeconds(d),
                     due |-> now + d]
  <1>1. PICK i \in 1..MAX_ROWS :
          /\ IsNextId(i)
          /\ rows' = [j \in Ids \cup {i} |-> IF j \in Ids THEN rows[j] ELSE row]
    BY DEF Insert
  <1>2. Seconds(now) + CeilSeconds(d) \in Int /\ now + d \in Int /\ prio \in Int
    BY SecondsNat, CeilNat, QueueAssumption DEF IInv, TypeOK
  <1>3. row \in Row /\ row.key = k /\ row.canon = <<k, 0>> /\ row.attempts = 0
    <2>1. <<k, 0>> \in Canons
      BY DEF Canons
    <2> QED
      BY <1>2, <2>1 DEF Row, States
  <1>4. i \in Nat \ {0} /\ i \notin Ids /\ 0 <= RetryMax
    BY <1>1, QueueAssumption DEF IsNextId
  <1> HIDE DEF row
  <1>5. /\ Ids' = Ids \cup {i}
        /\ rows' \in [Ids \cup {i} -> Row]
        /\ rows'[i] = row
        /\ \A j \in Ids : rows'[j] = rows[j]
    BY <1>1, <1>3, <1>4 DEF IInv, TypeOK, Ids
  <1>6. UNCHANGED <<indexed, now, opening, plan, open, held, alone>> /\ p \in open
    BY DEF Insert
  <1>7. TypeOK'
    BY <1>4, <1>5, <1>6 DEF IInv, TypeOK, Ids
  <1>8. AttemptsWithinCap'
    BY <1>3, <1>4, <1>5 DEF IInv, AttemptsWithinCap
  <1>9. /\ \A q \in Processes : opening[q] = "no"
        /\ \A j \in Ids : Own(j, rows[j].canon)
        /\ CanonsDiffer
    BY <1>6, OpenTable
  <1>10. CanonsDiffer'
    <2>1. ~Taken(k)
      BY DEF Insert
    <2> QED
      BY <1>3, <1>5, <1>9, <2>1 DEF CanonsDiffer, Taken
  <1>11. (\A j \in Ids : Own(j, rows[j].canon))'
    BY <1>3, <1>5, <1>9 DEF Own
  <1>12. IndexHolds' /\ Migrating'
    BY <1>6, <1>9, <1>10, <1>11 DEF IndexHolds, Migrating
  <1>13. OneOpen' /\ HeldInFlight'
    <2>1. \A q \in Processes : held[q] \subseteq Ids
      BY DEF IInv, TypeOK, Ids
    <2> QED
      BY <1>5, <1>6, <2>1 DEF IInv, OneOpen, Using, HeldInFlight
  <1> QED
    BY <1>7, <1>8, <1>12, <1>13 DEF IInv

LEMMA PopStep ==
  ASSUME IInv, NEW p \in Processes, NEW i \in Ids, Pop(p, i)
  PROVE  IInv'
  <1>1. /\ p \in open /\ Ids' = Ids
        /\ rows' = [rows EXCEPT ![i].state = "in_flight"]
        /\ held' = [held EXCEPT ![p] = @ \cup {i}]
        /\ UNCHANGED <<indexed, now, opening, plan, open, alone>>
        /\ rows[i].state = "pending"
    BY DEF Pop, Ready, Ids, IInv, TypeOK
  <1>2. /\ rows' \in [Ids -> Row]
        /\ rows'[i] = [rows[i] EXCEPT !.state = "in_flight"]
        /\ rows[i] \in Row
        /\ \A j \in Ids \ {i} : rows'[j] = rows[j]
    BY <1>1 DEF IInv, TypeOK, Ids, Row, States
  <1>3. /\ rows'[i].state = "in_flight"
        /\ rows'[i].key = rows[i].key
        /\ rows'[i].canon = rows[i].canon
        /\ rows'[i].attempts = rows[i].attempts
    BY <1>2 DEF Row
  <1>4. /\ held' \in [Processes -> SUBSET Ids]
        /\ held'[p] = held[p] \cup {i}
        /\ \A q \in Processes : q # p => held'[q] = held[q]
    BY <1>1 DEF IInv, TypeOK, Ids
  <1>5. TypeOK'
    BY <1>1, <1>2, <1>4 DEF IInv, TypeOK, Ids
  <1>6. AttemptsWithinCap'
    BY <1>1, <1>2, <1>3 DEF IInv, AttemptsWithinCap
  <1>7. \A j \in Ids : rows'[j].key = rows[j].key /\ rows'[j].canon = rows[j].canon
    BY <1>2, <1>3
  <1>8. IndexHolds' /\ Migrating'
    BY <1>1, <1>7, OpenTable DEF IndexHolds, CanonsDiffer, Migrating, Own
  <1>9. OneOpen'
    BY <1>1, <1>4 DEF IInv, OneOpen, Using
  <1>10. HeldInFlight'
    BY <1>1, <1>2, <1>3, <1>4 DEF IInv, HeldInFlight, TypeOK, Ids
  <1> QED
    BY <1>5, <1>6, <1>8, <1>9, <1>10 DEF IInv

LEMMA DieStep ==
  ASSUME IInv, NEW p \in Processes, Die(p)
  PROVE  IInv'
  <1>1. /\ p \in Using /\ open' = open \ {p} /\ UNCHANGED <<rows, indexed, now, alone>>
        /\ held' = [held EXCEPT ![p] = {}] /\ Ids' = Ids
        /\ opening' = [opening EXCEPT ![p] = "no"] /\ plan' = [plan EXCEPT ![p] = <<>>]
    BY DEF Die, Ids
  <1>2. held' \in [Processes -> SUBSET Ids]
        /\ \A q \in Processes : held'[q] = IF q = p THEN {} ELSE held[q]
    BY <1>1 DEF IInv, TypeOK, Ids
  <1>3. /\ opening' \in [Processes -> {"no", "rewrite", "index", "reclaim"}]
        /\ \A q \in Processes : opening'[q] = IF q = p THEN "no" ELSE opening[q]
        /\ DOMAIN plan' = Processes
        /\ \A q \in Processes \ {p} : plan'[q] = plan[q]
    BY <1>1 DEF IInv, TypeOK
  <1>4. TypeOK'
    BY <1>1, <1>2, <1>3 DEF IInv, TypeOK, Ids
  <1>5. IndexHolds' /\ AttemptsWithinCap'
    BY <1>1 DEF IInv, IndexHolds, CanonsDiffer, AttemptsWithinCap
  <1>6. \A q \in Processes : q # p => opening[q] = "no"
    BY <1>1 DEF IInv, OneOpen, Using
  <1>7. open \subseteq {p}
    BY <1>1 DEF IInv, OneOpen, Using
  <1>8. Using' = {} /\ open' = {} /\ \A q \in Processes : opening'[q] = "no"
    BY <1>1, <1>3, <1>6, <1>7 DEF Using
  <1>9. OneOpen' /\ Migrating'
    BY <1>2, <1>7, <1>8 DEF IInv, OneOpen, Migrating
  <1>10. HeldInFlight'
    BY <1>1, <1>2 DEF IInv, HeldInFlight
  <1> QED
    BY <1>4, <1>5, <1>9, <1>10 DEF IInv

LEMMA PurgeStep ==
  ASSUME IInv, Purge
  PROVE  IInv'
  <1>1. /\ Ids' = {j \in Ids : rows[j].state \notin {"done", "failed"}}
        /\ \A i \in Ids' : rows'[i] = rows[i]
        /\ rows' = [i \in Ids' |-> rows[i]]
        /\ UNCHANGED <<indexed, now, opening, plan, open, held, alone>>
    BY DEF Purge, Ids
  <1>2. \A q \in Processes : held[q] \subseteq Ids'
    BY <1>1 DEF IInv, TypeOK, Ids, HeldInFlight
  <1>3. rows' \in [Ids' -> Row] /\ Ids' \subseteq Ids
    BY <1>1 DEF IInv, TypeOK, Ids
  <1>4. TypeOK'
    BY <1>1, <1>2, <1>3 DEF IInv, TypeOK, Ids
  <1>5. IndexHolds' /\ AttemptsWithinCap'
    BY <1>1, <1>3 DEF IInv, IndexHolds, CanonsDiffer, AttemptsWithinCap
  <1>6. Migrating'
    BY <1>1, <1>3 DEF IInv, Migrating, CanonsDiffer, Own
  <1>7. OneOpen' /\ HeldInFlight'
    BY <1>1, <1>2 DEF IInv, OneOpen, Using, HeldInFlight
  <1> QED
    BY <1>4, <1>5, <1>6, <1>7 DEF IInv

LEMMA UnchangedStep ==
  ASSUME IInv, UNCHANGED <<rows, indexed, opening, plan, open, alone>>,
         held' \in [Processes -> SUBSET Ids],
         \A q \in Processes : held'[q] \subseteq held[q], now' \in Nat
  PROVE  IInv'
  <1>1. TypeOK'
    BY DEF IInv, TypeOK, Ids
  <1>2. IndexHolds' /\ AttemptsWithinCap' /\ Migrating'
    BY DEF IInv, IndexHolds, CanonsDiffer, Migrating, Own, AttemptsWithinCap, Ids
  <1>3. OneOpen' /\ HeldInFlight'
    BY DEF IInv, OneOpen, Using, HeldInFlight
  <1> QED
    BY <1>1, <1>2, <1>3 DEF IInv

\* Of one process at a time none meets another; and who met one stays so.
LEMMA Alone ==
  /\ [Next]_vars /\ alone' => alone
  /\ Exclusive /\ Init => alone
  /\ Exclusive /\ alone /\ [Next]_vars => alone'
  <1>1. ASSUME [Next]_vars
        PROVE  alone' = alone \/ (\E p \in Processes : ReadUrls(p))
    <2>1. ASSUME NEW p \in Processes, ProcessStep(p)
          PROVE  alone' = alone \/ ReadUrls(p)
      <3>1. CASE \E i \in held[p] :
                   \/ Complete(p, i)
                   \/ \E d \in Delays : Fail(p, i, d)
                   \/ FailPermanently(p, i)
                   \/ \E k \in JobKeys(i), prio \in Priorities, a \in RequeueAttempts(i),
                         d \in Delays : Requeue(p, i, k, prio, a, d)
                   \/ RequeueRejected(p, i)
        <4>1. PICK i \in held[p] :
                \/ Complete(p, i)
                \/ \E d \in Delays : Fail(p, i, d)
                \/ FailPermanently(p, i)
                \/ \E k \in JobKeys(i), prio \in Priorities, a \in RequeueAttempts(i),
                      d \in Delays : Requeue(p, i, k, prio, a, d)
                \/ RequeueRejected(p, i)
          BY <3>1
        <4>2. ASSUME NEW row, Resolve(p, i, row) PROVE alone' = alone
          BY <4>2 DEF Resolve
        <4>3. RequeueRejected(p, i) => alone' = alone
          BY DEF RequeueRejected
        <4> QED
          BY <4>1, <4>2, <4>3, ZenonT(60) DEF Complete, Fail, FailPermanently, Requeue
      <3>2. CASE \/ Rewrite(p) \/ CreateIndex(p) \/ Reclaim(p) \/ Die(p)
                 \/ \E k \in Keys, prio \in Priorities, d \in Delays : Insert(p, k, prio, d)
                 \/ \E k \in Keys : InsertIgnored(p, k)
                 \/ \E i \in Ids : Pop(p, i)
        BY <3>2, SMTT(40) DEF Rewrite, CreateIndex, Reclaim, Die, Insert, InsertIgnored, Pop, vars
      <3> QED
        BY <2>1, <3>1, <3>2 DEF ProcessStep
    <2>2. Tick \/ Purge \/ UNCHANGED vars => alone' = alone
      BY DEF Tick, Purge, vars
    <2> QED
      BY <1>1, <2>1, <2>2 DEF Next
  <1>2. ASSUME NEW p \in Processes, ReadUrls(p)
        PROVE  (alone' => alone) /\ (Exclusive /\ alone => alone')
    BY <1>2 DEF ReadUrls
  <1>3. Init => alone
    BY DEF Init
  <1> QED
    BY <1>1, <1>2, <1>3

LEMMA StepIInv == ASSUME IInv, alone', [Next]_vars PROVE IInv'
  <1>0. alone
    BY Alone
  <1>1. held \in [Processes -> SUBSET Ids] /\ now \in Nat
    BY DEF IInv, TypeOK, Ids
  <1>2. CASE UNCHANGED vars
    BY <1>1, <1>2, UnchangedStep DEF vars
  <1>3. CASE Tick
    <2>1. now' \in Nat /\ held' = held
      BY <1>1, <1>3 DEF Tick
    <2>2. UNCHANGED <<rows, indexed, opening, plan, open, alone>>
      BY <1>3, Zenon DEF Tick
    <2>3. /\ held' \in [Processes -> SUBSET Ids]
          /\ \A q \in Processes : held'[q] \subseteq held[q]
      BY <1>1, <2>1, Zenon
    <2> QED
      BY <2>1, <2>2, <2>3, UnchangedStep
  <1>4. CASE Purge
    BY <1>4, PurgeStep
  <1>5. ASSUME NEW p \in Processes, ProcessStep(p) PROVE IInv'
    <2>1. CASE ReadUrls(p) \/ Rewrite(p) \/ CreateIndex(p) \/ Reclaim(p)
      BY <2>1, ReadUrlsStep, RewriteStep, CreateIndexStep, ReclaimStep
    <2>2. CASE Die(p)
      BY <2>2, DieStep
    <2>3. CASE \E k \in Keys, prio \in Priorities, d \in Delays : Insert(p, k, prio, d)
      BY <2>3, InsertStep
    <2>4. CASE \E k \in Keys : InsertIgnored(p, k)
      BY <2>4, <1>1, UnchangedStep DEF InsertIgnored, vars
    <2>5. CASE \E i \in Ids : Pop(p, i)
      BY <2>5, PopStep
    <2>6. ASSUME NEW i \in held[p], Complete(p, i) PROVE IInv'
      BY <2>6, CompleteStep
    <2>7. ASSUME NEW i \in held[p], NEW d \in Delays, Fail(p, i, d) PROVE IInv'
      BY <2>7, FailStep
    <2>8. ASSUME NEW i \in held[p], FailPermanently(p, i) PROVE IInv'
      BY <2>8, FailPermanentlyStep
    <2>9. ASSUME NEW i \in held[p], NEW k \in JobKeys(i), NEW prio \in Priorities,
                 NEW a \in RequeueAttempts(i), NEW d \in Delays, Requeue(p, i, k, prio, a, d)
          PROVE  IInv'
      BY <1>0, <2>9, RequeueStep
    <2>10. ASSUME NEW i \in held[p], RequeueRejected(p, i) PROVE IInv'
      BY <2>10, <1>1, UnchangedStep DEF RequeueRejected
    <2> QED
      BY <1>5, <2>1, <2>2, <2>3, <2>4, <2>5, <2>6, <2>7, <2>8, <2>9, <2>10 DEF ProcessStep
  <1> QED
    BY <1>2, <1>3, <1>4, <1>5 DEF Next

-----------------------------------------------------------------------------

\* The invariant of every table, legacy or not, until two processes have used
\* it at once.
THEOREM Invariance == Spec => [](alone => IInv)
  <1>1. Init => (alone => IInv)
    BY InitIInv
  <1>2. (alone => IInv) /\ [Next]_vars => (alone => IInv)'
    BY StepIInv, Alone
  <1> QED
    BY <1>1, <1>2, PTL DEF Spec

\* The table is well formed and a process only ever holds rows that exist:
\* no purge takes a row away from the task that is working on it.
THEOREM SpecTypeOK == ASSUME Exclusive PROVE Spec => []TypeOK
  <1>1. Spec => []alone
    BY Alone, PTL DEF Spec
  <1>2. IInv => TypeOK
    BY DEF IInv
  <1> QED
    BY <1>1, <1>2, Invariance, PTL

\* Every row has a canonical_url of its own URL and its own, whatever table an
\* older build left, wherever a crash cut a migration short and whatever was
\* purged between its statements.
THEOREM SpecKeysUnique == Spec => []KeysUnique
  <1>1. (alone => IInv) => KeysUnique
    BY DEF KeysUnique, IInv, Migrating, Own
  <1> QED
    BY <1>1, Invariance, PTL

Survives(i) ==
    /\ i \in Ids'
    /\ rows'[i].key = rows[i].key
    /\ Live(rows'[i]) \/ \E p \in Processes : i \in held[p] \ held'[p]

\* A task hands a job back: its row keeps its key and the others are as before.
LEMMA ResolveSurvives ==
  ASSUME IInv, NEW p \in Processes, NEW j \in held[p], NEW row,
         row.key = rows[j].key, Resolve(p, j, row), NEW i \in Ids, Live(rows[i])
  PROVE  Survives(i)
  <1>1. /\ Ids' = Ids
        /\ rows'[i] = IF i = j THEN row ELSE rows[i]
        /\ j \in held[p] \ held'[p]
    BY DEF Resolve, IInv, TypeOK, Ids
  <1> QED
    BY <1>1 DEF Survives

LEMMA StepSurvives ==
  ASSUME IInv, alone, [Next]_vars, NEW i \in Ids, Live(rows[i])
  PROVE  Survives(i)
  <1>1. CASE rows' = rows
    BY <1>1 DEF Survives, Ids
  <1>2. CASE UNCHANGED vars \/ Tick
    BY <1>1, <1>2 DEF vars, Tick
  <1>3. CASE Purge
    <2>1. i \in Ids' /\ rows'[i] = rows[i]
      BY <1>3 DEF Purge, Ids, Live
    <2> QED
      BY <2>1 DEF Survives
  <1>4. ASSUME NEW p \in Processes, ProcessStep(p) PROVE Survives(i)
    <2>1. CASE Rewrite(p) \/ Reclaim(p)
      <3>1. rows \in [Ids -> Row]
        BY DEF IInv, TypeOK, Ids
      <3>2. Rewrite(p) => plan[p] \in [DOMAIN plan[p] -> Keys \X Nat]
        BY DEF IInv, TypeOK, Rewrite
      <3>3. /\ i \in Ids' /\ rows'[i].key = rows[i].key
            /\ rows'[i].state \in {rows[i].state, "pending"}
        BY <2>1, <3>1, <3>2, RewrittenRows, ReclaimedRows
      <3> QED
        BY <3>3 DEF Survives, Live
    <2>2. CASE \/ ReadUrls(p) \/ CreateIndex(p) \/ Die(p)
               \/ (\E k \in Keys : InsertIgnored(p, k))
               \/ (\E j \in held[p] : RequeueRejected(p, j))
      BY <1>1, <2>2 DEF ReadUrls, CreateIndex, Die, InsertIgnored, RequeueRejected, vars
    <2>3. CASE \E k \in Keys, prio \in Priorities, d \in Delays : Insert(p, k, prio, d)
      <3>1. i \in Ids' /\ rows'[i] = rows[i]
        BY <2>3 DEF Insert, Ids
      <3> QED
        BY <3>1 DEF Survives
    <2>4. ASSUME NEW j \in Ids, Pop(p, j) PROVE Survives(i)
      <3>1. /\ i \in Ids'
            /\ rows'[i] = IF i = j THEN [rows[i] EXCEPT !.state = "in_flight"] ELSE rows[i]
        BY <2>4 DEF Pop, IInv, TypeOK, Ids
      <3>2. rows[i] \in Row
        BY DEF IInv, TypeOK, Ids
      <3>3. rows'[i].key = rows[i].key /\ Live(rows'[i])
        BY <3>1, <3>2 DEF Row, Live
      <3> QED
        BY <3>1, <3>3 DEF Survives
    <2>5. ASSUME NEW j \in held[p], NEW row, row.key = rows[j].key, Resolve(p, j, row)
          PROVE  Survives(i)
      BY <2>5, ResolveSurvives
    <2>6. ASSUME NEW j \in held[p] PROVE rows[j] \in Row
      BY <2>6, OnlyHolder
    <2>7. ASSUME NEW j \in held[p], Complete(p, j) PROVE Survives(i)
      <3>1. [rows[j] EXCEPT !.state = "done"].key = rows[j].key
        BY <2>6 DEF Row
      <3> QED
        BY <2>5, <2>7, <3>1 DEF Complete
    <2>8. ASSUME NEW r \in Row, NEW s, NEW a, NEW d
          PROVE  Rescheduled(r, s, a, d).key = r.key
      BY <2>8 DEF Rescheduled, Row
    <2>9. ASSUME NEW j \in held[p], NEW s, NEW a, NEW d,
                 Resolve(p, j, Rescheduled(rows[j], s, a, d))
          PROVE  Survives(i)
      BY <2>5, <2>6, <2>8, <2>9
    <2>10. ASSUME NEW j \in held[p], (\E d \in Delays : Fail(p, j, d)) \/ FailPermanently(p, j)
           PROVE  Survives(i)
      BY <2>9, <2>10 DEF Fail, FailPermanently
    <2>11. ASSUME NEW j \in held[p], NEW k \in JobKeys(j), NEW prio \in Priorities,
                  NEW a \in RequeueAttempts(j), NEW d \in Delays, Requeue(p, j, k, prio, a, d)
           PROVE  Survives(i)
      <3> DEFINE r == [rows[j] EXCEPT !.key = k, !.canon = <<k, 0>>, !.prio = prio]
                 row == Rescheduled(r, "pending", a, d)
      <3>1. k = rows[j].key
        BY <2>11 DEF JobKeys
      <3>2. Resolve(p, j, row)
        BY <2>11 DEF Requeue
      <3>3. row.key = rows[j].key
        BY <2>6, <3>1 DEF Rescheduled, Row
      <3> HIDE DEF row
      <3> QED
        BY <2>5, <3>2, <3>3
    <2> QED
      BY <1>4, <2>1, <2>2, <2>3, <2>4, <2>7, <2>10, <2>11 DEF ProcessStep
  <1> QED
    BY <1>2, <1>3, <1>4 DEF Next

\* The frontier of a run that is killed and resumed, on a file of this build or
\* an older one, is the frontier it had.
THEOREM SpecJobsSurvive == Spec => JobsSurvive
  <1>1. (alone => IInv) /\ [Next]_vars =>
          [alone => \A i \in Ids : Live(rows[i]) =>
             /\ i \in DOMAIN rows'
             /\ rows'[i].key = rows[i].key
             /\ Live(rows'[i]) \/ \E p \in Processes : i \in held[p] \ held'[p]]_vars
    BY StepSurvives DEF Survives, Ids
  <1> QED
    BY <1>1, Invariance, PTL DEF Spec, JobsSurvive

-----------------------------------------------------------------------------
\* The same queue when its file was made by this build: no row ever carries
\* the legacy form, one row per key whether or not the queue is open, and
\* the rows marked in_flight are the ones a process holds.
FreshRows ==
    /\ \A i \in Ids : rows[i].canon = <<rows[i].key, 0>>
    /\ \A i, j \in Ids : rows[i].key = rows[j].key => i = j

FreshPlan ==
    \A p \in Processes : opening[p] = "rewrite" =>
        \A i \in Ids : plan[p][i] = <<rows[i].key, 0>>

FInv == IInv /\ alone /\ FreshRows /\ FreshPlan /\ InFlightOwned

\* What the abstract frontier sees of a table.
View(r) == [k \in Keys |-> StatusIn(r, k)]

OneRowPerKey(r) == \A i, j \in DOMAIN r : r[i].key = r[j].key => i = j

LEMMA StatusOfRow ==
  ASSUME NEW r, OneRowPerKey(r), NEW i \in DOMAIN r
  PROVE  StatusIn(r, r[i].key) = AbstractState(r[i].state)
  <1> DEFINE j == CHOOSE n \in DOMAIN r : r[n].key = r[i].key
  <1>1. j \in DOMAIN r /\ r[j].key = r[i].key
    OBVIOUS
  <1>2. j = i
    BY <1>1 DEF OneRowPerKey
  <1> QED
    BY <1>2 DEF StatusIn

LEMMA StatusOfNoRow ==
  ASSUME NEW r, NEW k, \A i \in DOMAIN r : r[i].key # k
  PROVE  StatusIn(r, k) = "absent"
  BY DEF StatusIn

\* From table r to table q, only row i changes, and it keeps its key.
OnlyRow(r, q, i) ==
    /\ i \in DOMAIN r
    /\ DOMAIN q = DOMAIN r
    /\ q[i].key = r[i].key
    /\ \A j \in DOMAIN r \ {i} : q[j] = r[j]
    /\ r[i].key \in Keys

\* When one row changes and keeps its key, only the status of its key changes.
LEMMA OneRowMoves ==
  ASSUME NEW r, NEW q, NEW i, OneRowPerKey(r), OnlyRow(r, q, i)
  PROVE  /\ OneRowPerKey(q)
         /\ View(r)[r[i].key] = AbstractState(r[i].state)
         /\ View(q) = [View(r) EXCEPT ![r[i].key] = AbstractState(q[i].state)]
  <1> USE DEF OnlyRow
  <1>1. OneRowPerKey(q)
    BY DEF OneRowPerKey
  <1>2. StatusIn(q, r[i].key) = AbstractState(q[i].state)
    BY <1>1, StatusOfRow
  <1>3. View(r)[r[i].key] = AbstractState(r[i].state)
    BY StatusOfRow DEF View
  <1>4. ASSUME NEW k \in Keys, k # r[i].key PROVE StatusIn(q, k) = StatusIn(r, k)
    <2>1. CASE \E j \in DOMAIN r : r[j].key = k
      <3>1. PICK j \in DOMAIN r : r[j].key = k
        BY <2>1
      <3>2. j # i /\ q[j] = r[j]
        BY <3>1, <1>4
      <3>3. StatusIn(r, k) = AbstractState(r[j].state)
        BY <3>1, StatusOfRow
      <3>4. StatusIn(q, k) = AbstractState(q[j].state)
        BY <3>1, <3>2, <1>1, StatusOfRow
      <3> QED
        BY <3>2, <3>3, <3>4
    <2>2. CASE \A j \in DOMAIN r : r[j].key # k
      <3>1. \A j \in DOMAIN q : q[j].key # k
        BY <2>2, <1>4
      <3> QED
        BY <2>2, <3>1, StatusOfNoRow
    <2> QED
      BY <2>1, <2>2
  <1> QED
    BY <1>1, <1>2, <1>3, <1>4 DEF View

LEMMA FreshKeys ==
  ASSUME FInv
  PROVE  /\ OneRowPerKey(rows)
         /\ \A i \in Ids : rows[i].key \in Keys
         /\ Abstract!vars = View(rows)
  BY DEF FInv, FreshRows, OneRowPerKey, Ids, IInv, TypeOK, Row, Abstract!vars, View

LEMMA InitFInv == ASSUME LegacyTables = {} PROVE Init => FInv /\ Abstract!Init
  <1> SUFFICES ASSUME Init PROVE FInv /\ Abstract!Init
    OBVIOUS
  <1>1. Ids = {}
    BY SMT DEF Init, Ids
  <1>2. \A k \in Keys : StatusIn(rows, k) = "absent"
    BY <1>1, StatusOfNoRow DEF Ids
  <1>3. Abstract!Init
    BY <1>2 DEF Abstract!Init
  <1>4. FreshRows /\ FreshPlan /\ InFlightOwned /\ alone
    BY <1>1 DEF FreshRows, FreshPlan, InFlightOwned, Init
  <1> QED
    BY <1>3, <1>4, InitIInv DEF FInv

\* A task that hands its job back moves one URL out of "running".
LEMMA FreshResolve ==
  ASSUME FInv, IInv', NEW p \in Processes, NEW i \in held[p], NEW row,
         row.key = rows[i].key, row.canon = <<row.key, 0>>,
         row.state \in {"pending", "done", "failed"}, Resolve(p, i, row)
  PROVE  FInv' /\ Abstract!Next
  <1>1. /\ i \in Ids /\ Ids' = Ids /\ rows' = [rows EXCEPT ![i] = row]
        /\ held' = [held EXCEPT ![p] = @ \ {i}] /\ open' = open /\ opening' = opening
        /\ alone' /\ p \in open
    BY OnlyHolder DEF FInv, IInv, TypeOK, Ids, Resolve
  <1>2. rows'[i] = row /\ \A j \in Ids \ {i} : rows'[j] = rows[j]
    BY <1>1 DEF FInv, IInv, TypeOK, Ids
  <1>3. /\ OneRowPerKey(rows')
        /\ View(rows)[rows[i].key] = AbstractState(rows[i].state)
        /\ View(rows') = [View(rows) EXCEPT ![rows[i].key] = AbstractState(rows'[i].state)]
    <2>1. OneRowPerKey(rows) /\ OnlyRow(rows, rows', i)
      BY <1>1, <1>2, FreshKeys DEF Ids, OnlyRow
    <2> QED
      BY <2>1, OneRowMoves
  <1>4. FreshRows'
    BY <1>1, <1>2, <1>3 DEF FInv, FreshRows, OneRowPerKey, Ids
  <1>5. InFlightOwned'
    <2>1. \A q \in Processes : q # p => i \notin held[q]
      BY OnlyHolder DEF FInv
    <2>2. open \subseteq Processes /\ held \in [Processes -> SUBSET Ids] /\ p \in open
      BY DEF FInv, IInv, TypeOK, OneOpen, Ids
    <2>3. Running' = Running \ {i}
      BY <1>1, <1>2 DEF Running
    <2>4. \A q \in open : held'[q] = held[q] \ {i}
      BY <1>1, <2>1, <2>2
    <2> QED
      BY <1>1, <2>3, <2>4 DEF FInv, InFlightOwned
  <1>6. rows[i].state = "in_flight" /\ rows[i].key \in Keys
    BY OnlyHolder DEF FInv, Row
  <1>7. Abstract!Next
    <2>1. View(rows)[rows[i].key] = "running"
      BY <1>3, <1>6 DEF AbstractState
    <2>2. CASE row.state = "pending"
      <3>1. Abstract!Retry(rows[i].key)
        BY <1>2, <1>3, <2>1, <2>2 DEF Abstract!Retry, Abstract!Move, View, AbstractState
      <3> QED
        BY <1>6, <3>1 DEF Abstract!Next
    <2>3. CASE row.state = "done"
      <3>1. Abstract!Finish(rows[i].key)
        BY <1>2, <1>3, <2>1, <2>3 DEF Abstract!Finish, Abstract!Move, View, AbstractState
      <3> QED
        BY <1>6, <3>1 DEF Abstract!Next
    <2>4. CASE row.state = "failed"
      <3>1. Abstract!GiveUp(rows[i].key)
        BY <1>2, <1>3, <2>1, <2>4 DEF Abstract!GiveUp, Abstract!Move, View, AbstractState
      <3> QED
        BY <1>6, <3>1 DEF Abstract!Next
    <2> QED
      BY <2>2, <2>3, <2>4
  <1>8. FreshPlan'
    BY <1>1, OpenTable DEF FInv, FreshPlan
  <1> QED
    BY <1>1, <1>4, <1>5, <1>7, <1>8 DEF FInv

LEMMA FreshPop ==
  ASSUME FInv, IInv', NEW p \in Processes, NEW i \in Ids, Pop(p, i)
  PROVE  FInv' /\ Abstract!Next
  <1>1. /\ p \in open /\ Ids' = Ids
        /\ rows' = [rows EXCEPT ![i].state = "in_flight"]
        /\ held' = [held EXCEPT ![p] = @ \cup {i}] /\ open' = open
        /\ opening' = opening /\ alone'
        /\ rows[i].state = "pending"
    BY DEF FInv, IInv, TypeOK, Ids, Pop, Ready
  <1>2. /\ rows'[i] = [rows[i] EXCEPT !.state = "in_flight"]
        /\ rows[i] \in Row
        /\ \A j \in Ids \ {i} : rows'[j] = rows[j]
    BY <1>1 DEF FInv, IInv, TypeOK, Ids
  <1>3. /\ rows'[i].state = "in_flight" /\ rows'[i].key = rows[i].key
        /\ rows'[i].canon = rows[i].canon
    BY <1>2 DEF Row
  <1>4. /\ OneRowPerKey(rows')
        /\ View(rows)[rows[i].key] = AbstractState(rows[i].state)
        /\ View(rows') = [View(rows) EXCEPT ![rows[i].key] = AbstractState(rows'[i].state)]
    <2>1. OneRowPerKey(rows) /\ OnlyRow(rows, rows', i)
      BY <1>1, <1>2, <1>3, FreshKeys DEF Ids, OnlyRow
    <2> QED
      BY <2>1, OneRowMoves
  <1>5. FreshRows'
    BY <1>1, <1>2, <1>3, <1>4 DEF FInv, FreshRows, OneRowPerKey, Ids
  <1>6. InFlightOwned'
    <2>1. held \in [Processes -> SUBSET Ids] /\ open \subseteq Processes
      BY DEF FInv, IInv, TypeOK, Ids
    <2>2. Running' = Running \cup {i}
      BY <1>1, <1>2, <1>3 DEF Running
    <2>3. held'[p] = held[p] \cup {i} /\ \A q \in open \ {p} : held'[q] = held[q]
      BY <1>1, <2>1
    <2> QED
      BY <1>1, <2>2, <2>3 DEF FInv, InFlightOwned
  <1>7. Abstract!Dispatch(rows[i].key) /\ rows[i].key \in Keys
    <2>1. rows[i].key \in Keys
      BY <1>2 DEF Row
    <2> QED
      BY <1>1, <1>3, <1>4, <2>1 DEF Abstract!Dispatch, Abstract!Move, View, AbstractState
  <1>8. FreshPlan'
    BY <1>1, OpenTable DEF FInv, FreshPlan
  <1> QED
    BY <1>1, <1>5, <1>6, <1>7, <1>8 DEF FInv, Abstract!Next

\* The migration leaves the table of this build as it was.
LEMMA FreshReadUrls ==
  ASSUME FInv, IInv', alone', NEW p \in Processes, ReadUrls(p)
  PROVE  FInv' /\ Abstract!vars' = Abstract!vars
  <1>1. rows \in [Ids -> Row] /\ Ids \subseteq Nat \ {0}
    BY DEF FInv, IInv, TypeOK, Ids
  <1>2. \A i \in Ids : Plan(rows)[i] = <<rows[i].key, 0>>
    <2> SUFFICES ASSUME NEW i \in Ids PROVE Plan(rows)[i] = <<rows[i].key, 0>>
      OBVIOUS
    <2>1. ~ \E j \in Ids : j < i /\ rows[j].key = rows[i].key
      BY <1>1 DEF FInv, FreshRows
    <2> QED
      BY <2>1 DEF Plan, Ids
  <1>3. /\ UNCHANGED <<rows, open, held>> /\ Ids' = Ids /\ plan'[p] = Plan(rows)
        /\ \A q \in Processes \ {p} : opening'[q] = opening[q] /\ plan'[q] = plan[q]
    BY DEF ReadUrls, Ids, FInv, IInv, TypeOK
  <1>4. FreshPlan'
    BY <1>2, <1>3 DEF FInv, FreshPlan
  <1>5. FreshRows' /\ InFlightOwned'
    BY <1>3 DEF FInv, FreshRows, InFlightOwned, Running
  <1> QED
    BY <1>3, <1>4, <1>5 DEF FInv, Abstract!vars

LEMMA FreshRewrite ==
  ASSUME FInv, IInv', NEW p \in Processes, Rewrite(p)
  PROVE  FInv' /\ Abstract!vars' = Abstract!vars
  <1>1. /\ rows \in [Ids -> Row] /\ opening[p] = "rewrite"
        /\ plan[p] \in [DOMAIN plan[p] -> Keys \X Nat]
    BY DEF FInv, IInv, TypeOK, Ids, Rewrite
  <1>2. \A q \in Processes : q # p => opening[q] = "no"
    BY <1>1, OnlyOpener DEF FInv
  <1>3. /\ Ids' = Ids /\ rows' \in [Ids -> Row]
        /\ \A i \in Ids : /\ rows'[i].canon = <<rows[i].key, 0>>
                          /\ rows'[i].key = rows[i].key
                          /\ rows'[i].state = rows[i].state
    BY <1>1, RewrittenRows DEF FInv, FreshRows, FreshPlan
  <1>4. /\ open' = open /\ held' = held /\ alone'
        /\ opening'[p] = "index"
        /\ \A q \in Processes \ {p} : opening'[q] = "no"
    BY <1>2 DEF Rewrite, FInv, IInv, TypeOK
  <1>5. FreshRows' /\ FreshPlan' /\ InFlightOwned'
    BY <1>3, <1>4 DEF FInv, FreshRows, FreshPlan, InFlightOwned, Running
  <1>6. ASSUME NEW k \in Keys PROVE StatusIn(rows', k) = StatusIn(rows, k)
    <2>1. OneRowPerKey(rows) /\ OneRowPerKey(rows')
      BY <1>3, FreshKeys DEF OneRowPerKey, Ids
    <2>2. CASE \E i \in Ids : rows[i].key = k
      <3>1. PICK i \in Ids : rows[i].key = k
        BY <2>2
      <3>2. /\ StatusIn(rows, k) = AbstractState(rows[i].state)
            /\ StatusIn(rows', k) = AbstractState(rows'[i].state)
        BY <1>3, <2>1, <3>1, StatusOfRow DEF Ids
      <3> QED
        BY <1>3, <3>2
    <2>3. CASE \A i \in Ids : rows[i].key # k
      BY <1>3, <2>3, StatusOfNoRow DEF Ids
    <2> QED
      BY <2>2, <2>3
  <1> QED
    BY <1>4, <1>5, <1>6 DEF FInv, Abstract!vars

\* The reclaim is the abstract recovery: every running job waits again.
LEMMA FreshReclaim ==
  ASSUME FInv, IInv', NEW p \in Processes, Reclaim(p)
  PROVE  FInv' /\ Abstract!Next
  <1>1. rows \in [Ids -> Row] /\ opening[p] = "reclaim" /\ alone'
    BY DEF FInv, IInv, TypeOK, Ids, Reclaim
  <1>2. /\ Ids' = Ids
        /\ \A i \in Ids :
             /\ rows'[i].key = rows[i].key
             /\ rows'[i].canon = rows[i].canon
             /\ rows'[i].state = IF rows[i].state = "in_flight" THEN "pending"
                                 ELSE rows[i].state
    BY <1>1, ReclaimedRows
  <1>3. FreshRows'
    BY <1>2 DEF FInv, FreshRows
  <1>4. InFlightOwned' /\ FreshPlan'
    <2>1. Running' = {}
      BY <1>2 DEF Running
    <2>2. /\ open = {}
          /\ \A q \in Processes : held[q] = {} /\ (q # p => opening[q] = "no")
      BY <1>1, OnlyOpener DEF FInv
    <2>3. /\ open' = {p} /\ held' = held
          /\ \A q \in Processes : opening'[q] = "no"
      BY <2>2 DEF Reclaim, FInv, IInv, TypeOK
    <2> QED
      BY <2>1, <2>2, <2>3 DEF InFlightOwned, FreshPlan
  <1>5. OneRowPerKey(rows) /\ OneRowPerKey(rows') /\ DOMAIN rows' = DOMAIN rows
    BY <1>2, <1>3, FreshKeys DEF FreshRows, OneRowPerKey, Ids
  <1>6. ASSUME NEW k \in Keys
        PROVE  StatusIn(rows', k) = IF StatusIn(rows, k) = "running" THEN "waiting"
                                    ELSE StatusIn(rows, k)
    <2>1. CASE \E i \in Ids : rows[i].key = k
      <3>1. PICK i \in Ids : rows[i].key = k
        BY <2>1
      <3>2. rows'[i].key = k /\ i \in DOMAIN rows /\ i \in DOMAIN rows'
        BY <1>2, <3>1 DEF Ids
      <3>3. StatusIn(rows, k) = AbstractState(rows[i].state)
        BY <1>5, <3>1, <3>2, StatusOfRow
      <3>4. StatusIn(rows', k) = AbstractState(rows'[i].state)
        BY <1>5, <3>2, StatusOfRow
      <3>5. rows[i].state \in States
        BY <1>1 DEF Row
      <3> QED
        BY <1>2, <3>3, <3>4, <3>5 DEF States, AbstractState
    <2>2. CASE \A i \in Ids : rows[i].key # k
      <3>1. \A i \in DOMAIN rows' : rows'[i].key # k
        BY <1>2, <2>2 DEF Ids
      <3>2. StatusIn(rows, k) = "absent" /\ StatusIn(rows', k) = "absent"
        BY <2>2, <3>1, StatusOfNoRow DEF Ids
      <3> QED
        BY <3>2
    <2> QED
      BY <2>1, <2>2
  <1>7. Abstract!Recover
    BY <1>6 DEF Abstract!Recover
  <1> QED
    BY <1>1, <1>3, <1>4, <1>7 DEF FInv, Abstract!Next

LEMMA FreshInsert ==
  ASSUME FInv, IInv', NEW p \in Processes, NEW k \in Keys, NEW prio \in Priorities,
         NEW d \in Delays, Insert(p, k, prio, d)
  PROVE  FInv' /\ Abstract!Next
  <1> DEFINE row == [key |-> k, canon |-> <<k, 0>>, state |-> "pending", attempts |-> 0,
                     prio |-> prio, notBefore |-> Seconds(now) + CeilSeconds(d),
                     due |-> now + d]
  <1>1. PICK i \in 1..MAX_ROWS :
          /\ IsNextId(i)
          /\ rows' = [j \in Ids \cup {i} |-> IF j \in Ids THEN rows[j] ELSE row]
    BY DEF Insert
  <1>2. row.key = k /\ row.canon = <<k, 0>> /\ row.state = "pending"
    OBVIOUS
  <1> HIDE DEF row
  <1>3. i \notin Ids
    BY <1>1, QueueAssumption DEF IsNextId
  <1>4. /\ Ids' = Ids \cup {i} /\ rows'[i] = row
        /\ \A j \in Ids : rows'[j] = rows[j]
        /\ open' = open /\ held' = held /\ opening' = opening /\ alone' /\ p \in open
    BY <1>1, <1>3 DEF Insert, Ids, FInv
  <1>5. \A j \in Ids : rows[j].key # k
    BY DEF Insert, Taken, FInv, FreshRows
  <1>6. FreshRows'
    BY <1>2, <1>4, <1>5 DEF FInv, FreshRows
  <1>7. InFlightOwned'
    <2>1. Running' = Running
      BY <1>2, <1>3, <1>4 DEF Running
    <2> QED
      BY <1>4, <2>1 DEF FInv, InFlightOwned
  <1>8. OneRowPerKey(rows) /\ OneRowPerKey(rows')
    BY <1>6, FreshKeys DEF FreshRows, OneRowPerKey, Ids
  <1>9. StatusIn(rows, k) = "absent" /\ StatusIn(rows', k) = "waiting"
    <2>1. StatusIn(rows, k) = "absent"
      BY <1>5, StatusOfNoRow DEF Ids
    <2>2. i \in DOMAIN rows' /\ rows'[i].key = k
      BY <1>2, <1>4 DEF Ids
    <2>3. StatusIn(rows', k) = AbstractState(rows'[i].state)
      BY <1>8, <2>2, StatusOfRow
    <2> QED
      BY <1>2, <1>4, <2>1, <2>3 DEF AbstractState
  <1>10. ASSUME NEW m \in Keys, m # k PROVE StatusIn(rows', m) = StatusIn(rows, m)
    <2>1. CASE \E j \in Ids : rows[j].key = m
      <3>1. PICK j \in Ids : rows[j].key = m
        BY <2>1
      <3>2. j \in DOMAIN rows /\ j \in DOMAIN rows' /\ rows'[j] = rows[j]
        BY <1>4, <3>1 DEF Ids
      <3>3. StatusIn(rows, m) = AbstractState(rows[j].state)
        BY <1>8, <3>1, <3>2, StatusOfRow
      <3>4. StatusIn(rows', m) = AbstractState(rows'[j].state)
        BY <1>8, <3>1, <3>2, StatusOfRow
      <3> QED
        BY <3>2, <3>3, <3>4
    <2>2. CASE \A j \in Ids : rows[j].key # m
      <3>1. \A j \in DOMAIN rows' : rows'[j].key # m
        BY <1>2, <1>4, <1>10, <2>2 DEF Ids
      <3> QED
        BY <2>2, <3>1, StatusOfNoRow DEF Ids
    <2> QED
      BY <2>1, <2>2
  <1>11. Abstract!Admit(k)
    BY <1>9, <1>10 DEF Abstract!Admit, Abstract!Move
  <1>12. FreshPlan'
    BY <1>4, OpenTable DEF FInv, FreshPlan
  <1> QED
    BY <1>4, <1>6, <1>7, <1>11, <1>12 DEF FInv, Abstract!Next

LEMMA FreshPurge ==
  ASSUME FInv, IInv', Purge
  PROVE  FInv' /\ Abstract!Next
  <1>1. /\ Ids' = {j \in Ids : rows[j].state \notin {"done", "failed"}}
        /\ \A i \in Ids' : rows'[i] = rows[i]
        /\ UNCHANGED <<opening, plan, open, held>> /\ alone'
    BY DEF Purge, Ids, FInv
  <1>2. FreshRows' /\ FreshPlan'
    BY <1>1 DEF FInv, FreshRows, FreshPlan
  <1>3. InFlightOwned'
    <2>1. Running' = Running
      BY <1>1 DEF Running
    <2> QED
      BY <1>1, <2>1 DEF FInv, InFlightOwned
  <1>4. OneRowPerKey(rows) /\ OneRowPerKey(rows')
    BY <1>2, FreshKeys DEF FreshRows, OneRowPerKey, Ids
  <1>5. ASSUME NEW k \in Keys
        PROVE  StatusIn(rows', k) = IF StatusIn(rows, k) \in {"done", "failed"} THEN "absent"
                                    ELSE StatusIn(rows, k)
    <2>1. CASE \E i \in Ids : rows[i].key = k
      <3>1. PICK i \in Ids : rows[i].key = k
        BY <2>1
      <3>2. rows[i].state \in States
        BY DEF FInv, IInv, TypeOK, Row, Ids
      <3>3. StatusIn(rows, k) = AbstractState(rows[i].state)
        BY <1>4, <3>1, StatusOfRow DEF Ids
      <3>4. CASE rows[i].state \in {"done", "failed"}
        <4>1. \A j \in DOMAIN rows' : rows'[j].key # k
          BY <1>1, <3>1, <3>4 DEF Ids, FInv, FreshRows
        <4>2. StatusIn(rows', k) = "absent"
          BY <4>1, StatusOfNoRow
        <4> QED
          BY <3>3, <3>4, <4>2 DEF AbstractState
      <3>5. CASE rows[i].state \notin {"done", "failed"}
        <4>1. i \in DOMAIN rows' /\ rows'[i] = rows[i]
          BY <1>1, <3>5 DEF Ids
        <4>2. StatusIn(rows', k) = AbstractState(rows'[i].state)
          BY <1>4, <3>1, <4>1, StatusOfRow
        <4> QED
          BY <3>2, <3>3, <3>5, <4>1, <4>2 DEF States, AbstractState
      <3> QED
        BY <3>4, <3>5
    <2>2. CASE \A i \in Ids : rows[i].key # k
      <3>1. \A i \in DOMAIN rows' : rows'[i].key # k
        BY <1>1, <2>2 DEF Ids
      <3>2. StatusIn(rows, k) = "absent" /\ StatusIn(rows', k) = "absent"
        BY <2>2, <3>1, StatusOfNoRow DEF Ids
      <3> QED
        BY <3>2
    <2> QED
      BY <2>1, <2>2
  <1>6. Abstract!Purge
    BY <1>5 DEF Abstract!Purge
  <1>7. alone'
    BY DEF FInv, Purge
  <1> QED
    BY <1>2, <1>3, <1>6, <1>7 DEF FInv, Abstract!Next

\* The table does not change and whoever leaves lets go of its jobs: the
\* abstract frontier does not see it.
LEMMA FreshStutter ==
  ASSUME FInv, IInv', rows' = rows, InFlightOwned', alone',
         \A p \in Processes :
            \/ opening'[p] = opening[p] /\ plan'[p] = plan[p]
            \/ opening'[p] # "rewrite"
  PROVE  FInv' /\ Abstract!vars' = Abstract!vars
  BY DEF FInv, FreshRows, FreshPlan, Ids, Abstract!vars

LEMMA FreshStep ==
  ASSUME FInv, Exclusive, [Next]_vars
  PROVE  FInv' /\ [Abstract!Next]_(Abstract!vars)
  <1>0. IInv' /\ alone'
    BY StepIInv, Alone DEF FInv
  <1>1. CASE UNCHANGED vars
    <2>1. InFlightOwned'
      BY <1>1 DEF vars, FInv, InFlightOwned, Running, Ids
    <2> QED
      BY <1>0, <1>1, <2>1, FreshStutter DEF vars
  <1>2. CASE Tick
    <2>1. InFlightOwned'
      BY <1>2 DEF Tick, FInv, InFlightOwned, Running, Ids
    <2> QED
      BY <1>0, <1>2, <2>1, FreshStutter DEF Tick
  <1>3. CASE Purge
    BY <1>0, <1>3, FreshPurge
  <1>4. ASSUME NEW p \in Processes, ProcessStep(p)
        PROVE  FInv' /\ [Abstract!Next]_(Abstract!vars)
    <2>1. CASE ReadUrls(p) \/ Rewrite(p) \/ Reclaim(p)
      BY <1>0, <2>1, FreshReadUrls, FreshRewrite, FreshReclaim
    <2>2. CASE CreateIndex(p)
      <3>1. InFlightOwned'
        BY <2>2 DEF CreateIndex, FInv, InFlightOwned, Running, Ids
      <3>2. /\ rows' = rows
            /\ \A q \in Processes : \/ opening'[q] = opening[q] /\ plan'[q] = plan[q]
                                    \/ opening'[q] # "rewrite"
        BY <2>2 DEF CreateIndex, FInv, IInv, TypeOK
      <3> QED
        BY <1>0, <3>1, <3>2, FreshStutter
    <2>13. CASE Die(p)
      <3>1. /\ open' = {} /\ rows' = rows
            /\ \A q \in Processes : \/ opening'[q] = opening[q] /\ plan'[q] = plan[q]
                                    \/ opening'[q] # "rewrite"
        BY <2>13 DEF Die, FInv, IInv, TypeOK, OneOpen, Using
      <3>2. InFlightOwned'
        BY <3>1 DEF InFlightOwned
      <3> QED
        BY <1>0, <3>1, <3>2, FreshStutter
    <2>3. CASE \E k \in Keys, prio \in Priorities, d \in Delays : Insert(p, k, prio, d)
      BY <1>0, <2>3, FreshInsert
    <2>4. CASE \E k \in Keys : InsertIgnored(p, k)
      <3>1. UNCHANGED vars
        BY <2>4 DEF InsertIgnored
      <3> QED
        BY <1>1, <3>1
    <2>5. CASE \E i \in Ids : Pop(p, i)
      BY <1>0, <2>5, FreshPop
    <2>6. ASSUME NEW i \in held[p], NEW row, row.key = rows[i].key, row.canon = <<row.key, 0>>,
                 row.state \in {"pending", "done", "failed"}, Resolve(p, i, row)
          PROVE  FInv' /\ [Abstract!Next]_(Abstract!vars)
      BY <1>0, <2>6, FreshResolve
    <2>7. ASSUME NEW i \in held[p]
          PROVE  /\ i \in Ids /\ rows[i] \in Row /\ rows[i].canon = <<rows[i].key, 0>>
                 /\ now \in Nat /\ alone
      BY <2>7, OnlyHolder DEF FInv, FreshRows, IInv, TypeOK
    <2>8. ASSUME NEW i \in held[p], Complete(p, i)
          PROVE  FInv' /\ [Abstract!Next]_(Abstract!vars)
      <3> DEFINE row == [rows[i] EXCEPT !.state = "done"]
      <3>1. row.key = rows[i].key /\ row.canon = <<row.key, 0>> /\ row.state = "done"
        BY <2>7 DEF Row
      <3>2. Resolve(p, i, row)
        BY <2>8 DEF Complete
      <3> HIDE DEF row
      <3> QED
        BY <3>1, <3>2, <2>6
    <2>9. ASSUME NEW i \in held[p], NEW d \in Delays, Fail(p, i, d)
          PROVE  FInv' /\ [Abstract!Next]_(Abstract!vars)
      <3> DEFINE s == IF rows[i].attempts + 1 >= RetryMax THEN "failed" ELSE "pending"
                 a == rows[i].attempts + 1
                 row == Rescheduled(rows[i], s, a, d)
      <3>1. /\ rows[i] \in Row /\ s \in States /\ s \in {"pending", "failed"}
            /\ a \in Nat /\ d \in Nat /\ now \in Nat
        BY <2>7, QueueAssumption DEF Row, States
      <3>2. Resolve(p, i, row)
        BY <2>9 DEF Fail
      <3> HIDE DEF s, a
      <3>3. row.key = rows[i].key /\ row.canon = <<row.key, 0>> /\ row.state = s
        <4>1. row = Rescheduled(rows[i], s, a, d)
          OBVIOUS
        <4> HIDE DEF row
        <4>2. row.key = rows[i].key /\ row.canon = rows[i].canon /\ row.state = s
          BY <3>1, <4>1, RescheduledRow
        <4> QED
          BY <2>7, <4>2
      <3> HIDE DEF row
      <3> QED
        BY <3>1, <3>2, <3>3, <2>6
    <2>10. ASSUME NEW i \in held[p], FailPermanently(p, i)
           PROVE  FInv' /\ [Abstract!Next]_(Abstract!vars)
      <3> DEFINE s == "failed"
                 a == rows[i].attempts + 1
                 z == 0
                 row == Rescheduled(rows[i], s, a, z)
      <3>1. /\ rows[i] \in Row /\ s \in States /\ s = "failed"
            /\ a \in Nat /\ z \in Nat /\ now \in Nat
        BY <2>7 DEF Row, States
      <3>2. Resolve(p, i, row)
        BY <2>10 DEF FailPermanently
      <3> HIDE DEF s, a, z
      <3>3. row.key = rows[i].key /\ row.canon = <<row.key, 0>> /\ row.state = s
        <4>1. row = Rescheduled(rows[i], s, a, z)
          OBVIOUS
        <4> HIDE DEF row
        <4>2. row.key = rows[i].key /\ row.canon = rows[i].canon /\ row.state = s
          BY <3>1, <4>1, RescheduledRow
        <4> QED
          BY <2>7, <4>2
      <3> HIDE DEF row
      <3> QED
        BY <3>1, <3>2, <3>3, <2>6
    <2>11. ASSUME NEW i \in held[p], NEW k \in JobKeys(i), NEW prio \in Priorities,
                  NEW a \in RequeueAttempts(i), NEW d \in Delays, Requeue(p, i, k, prio, a, d)
           PROVE  FInv' /\ [Abstract!Next]_(Abstract!vars)
      <3> DEFINE x == [rows[i] EXCEPT !.key = k, !.canon = <<k, 0>>]
                 r == [x EXCEPT !.prio = prio]
                 s == "pending"
                 row == Rescheduled(r, s, a, d)
      <3>1. x \in Row /\ x.key = rows[i].key /\ x.canon = <<x.key, 0>>
        BY <2>7 DEF Row, JobKeys
      <3>2. Resolve(p, i, row)
        BY <2>11 DEF Requeue
      <3>3. s \in States /\ s = "pending" /\ prio \in Int /\ d \in Nat /\ a \in Nat
        <4>1. s \in States /\ s = "pending" /\ prio \in Int /\ d \in Nat
          BY QueueAssumption DEF States
        <4>2. rows[i].attempts \in Nat
          BY <2>7 DEF Row
        <4> QED
          BY <4>1, <4>2 DEF RequeueAttempts, JobAttempts
      <3> HIDE DEF x, s
      <3>4. r \in Row /\ r.key = rows[i].key /\ r.canon = <<r.key, 0>>
        BY <3>1, <3>3 DEF Row
      <3> HIDE DEF r
      <3>5. row.key = rows[i].key /\ row.canon = <<row.key, 0>> /\ row.state = s
        <4>1. now \in Nat
          BY <2>7
        <4>2. ASSUME NEW q \in Row
              PROVE  LET z == Rescheduled(q, s, a, d)
                     IN  z.key = q.key /\ z.canon = q.canon /\ z.state = s
          BY <3>3, <4>1, RescheduledRow
        <4>3. row.key = r.key /\ row.canon = r.canon /\ row.state = s
          BY <3>4, <4>2
        <4> HIDE DEF row
        <4> QED
          BY <3>4, <4>3
      <3> HIDE DEF row
      <3> QED
        BY <3>2, <3>3, <3>5, <2>6
    <2>12. ASSUME NEW i \in held[p], RequeueRejected(p, i) PROVE FALSE
      BY <2>7, <2>12 DEF RequeueRejected, JobKeys, KeyHeldElsewhere, FInv, FreshRows
    <2> QED
      BY <1>4, <2>1, <2>2, <2>3, <2>4, <2>5, <2>8, <2>9, <2>10, <2>11, <2>12,
         <2>13 DEF ProcessStep
  <1> QED
    BY <1>1, <1>2, <1>3, <1>4 DEF Next

\* The stronger invariant of a table that this build created: no row is a
\* legacy duplicate.
THEOREM FreshInvariance ==
  ASSUME Exclusive, LegacyTables = {}
  PROVE  Spec => []FInv
  <1>1. Init => FInv
    BY InitFInv
  <1>2. FInv /\ [Next]_vars => FInv'
    BY FreshStep
  <1> QED
    BY <1>1, <1>2, PTL DEF Spec

\* No job is stranded in_flight and none that is being worked on can be
\* dispatched again.
THEOREM SpecInFlightOwned ==
  ASSUME Exclusive, LegacyTables = {}
  PROVE  Spec => []InFlightOwned
  <1>1. FInv => InFlightOwned
    BY DEF FInv
  <1> QED
    BY <1>1, FreshInvariance, PTL

\* The table, its index, the writer's statements, crashes and purges
\* together are a crawl queue as the rest of the crawler sees it.
THEOREM Refinement ==
  ASSUME Exclusive, LegacyTables = {}
  PROVE  Spec => ImplementsFrontier
  <1>1. Init => Abstract!Init
    BY InitFInv
  <1>2. FInv /\ [Next]_vars => [Abstract!Next]_(Abstract!vars)
    BY FreshStep
  <1> QED
    BY <1>1, <1>2, FreshInvariance, PTL DEF Spec, ImplementsFrontier, Abstract!Spec

\* What this means to the crawler: a URL that is done or failed stays so until
\* the operator purges it, whatever crashes and reopenings come between, and
\* only a waiting URL is dispatched.
FinishedStays ==
    [][\A k \in Keys :
         /\ View(rows)[k] \in {"done", "failed"} => View(rows')[k] \in {View(rows)[k], "absent"}
         /\ View(rows')[k] = "running" => View(rows)[k] \in {"waiting", "running"}]_rows

LEMMA FrontierMoves ==
  ASSUME [Abstract!Next]_(Abstract!vars), NEW k \in Keys
  PROVE  /\ View(rows)[k] \in {"done", "failed"} => View(rows')[k] \in {View(rows)[k], "absent"}
         /\ View(rows')[k] = "running" => View(rows)[k] \in {"waiting", "running"}
  <1> DEFINE v == View(rows)
             w == View(rows')
  <1>0. DOMAIN v = Keys /\ v = [m \in Keys |-> v[m]]
    BY DEF View
  <1>1. CASE w = v
    BY <1>1
  <1>2. ASSUME NEW m \in Keys, NEW from, NEW to, v[m] = from, w = [v EXCEPT ![m] = to],
               from \notin {"done", "failed"}, to = "running" => from = "waiting"
        PROVE  /\ v[k] \in {"done", "failed"} => w[k] \in {v[k], "absent"}
               /\ w[k] = "running" => v[k] \in {"waiting", "running"}
    <2> HIDE DEF v, w
    <2>1. w[k] = IF k = m THEN to ELSE v[k]
      BY <1>0, <1>2
    <2> QED
      BY <1>2, <2>1
  <1>3. CASE \E m \in Keys : \/ Abstract!Admit(m) \/ Abstract!Dispatch(m) \/ Abstract!Retry(m)
                             \/ Abstract!Finish(m) \/ Abstract!GiveUp(m)
    <2>1. PICK m \in Keys : \/ Abstract!Admit(m) \/ Abstract!Dispatch(m) \/ Abstract!Retry(m)
                            \/ Abstract!Finish(m) \/ Abstract!GiveUp(m)
      BY <1>3
    <2>2. PICK from, to : /\ v[m] = from /\ w = [v EXCEPT ![m] = to]
                          /\ from \notin {"done", "failed"}
                          /\ to = "running" => from = "waiting"
      BY <2>1 DEF Abstract!Admit, Abstract!Dispatch, Abstract!Retry, Abstract!Finish,
                  Abstract!GiveUp, Abstract!Move, View
    <2> HIDE DEF v, w
    <2>3. /\ v[k] \in {"done", "failed"} => w[k] \in {v[k], "absent"}
          /\ w[k] = "running" => v[k] \in {"waiting", "running"}
      BY <2>2, <1>2
    <2> QED
      BY <2>3 DEF v, w
  <1>4. CASE Abstract!Recover
    <2>1. w[k] = IF v[k] = "running" THEN "waiting" ELSE v[k]
      BY <1>4 DEF Abstract!Recover, View
    <2> QED
      BY <2>1
  <1>5. CASE Abstract!Purge
    <2>1. w[k] = IF v[k] \in {"done", "failed"} THEN "absent" ELSE v[k]
      BY <1>5 DEF Abstract!Purge, View
    <2> QED
      BY <2>1
  <1> QED
    BY <1>1, <1>3, <1>4, <1>5 DEF Abstract!Next, Abstract!vars, View

\* Finished URLs are not crawled again (pop, complete, fail).
THEOREM SpecFinishedStays ==
  ASSUME Exclusive, LegacyTables = {}
  PROVE  Spec => FinishedStays
  <1>1. FInv /\ [Next]_vars =>
          [\A k \in Keys :
             /\ View(rows)[k] \in {"done", "failed"} => View(rows')[k] \in {View(rows)[k], "absent"}
             /\ View(rows')[k] = "running" => View(rows)[k] \in {"waiting", "running"}]_rows
    BY FreshStep, FrontierMoves
  <1> QED
    BY <1>1, FreshInvariance, PTL DEF Spec, FinishedStays
-----------------------------------------------------------------------------
\* The rest of this part holds for any number of processes on one file.

\* A row is not ready a whole second or more before the instant it waits for.
Timely(r) == r.due - TicksPerSecond < r.notBefore * TicksPerSecond

\* The builds before this one rounded the delays of their jobs likewise.
LegacyTimely == \A r \in LegacyTables : \A i \in DOMAIN r : Timely(r[i])

Timed(r) == LegacyTimely => Timely(r)

\* What processes that open the file are about to write.
PlansDiffer ==
    /\ DOMAIN opening = Processes
    /\ DOMAIN plan = Processes
    /\ \A p \in Processes : opening[p] = "rewrite" =>
         /\ plan[p] \in [DOMAIN plan[p] -> Keys \X Nat]
         /\ \A i, j \in DOMAIN plan[p] : plan[p][i] = plan[p][j] => i = j

TableInv ==
    /\ Ids \subseteq Nat \ {0}
    /\ rows \in [Ids -> Row]
    /\ now \in Nat
    /\ PlansDiffer
    /\ IndexHolds
    /\ AttemptsWithinCap
    /\ \A i \in Ids : Timed(rows[i])

LEMMA Division ==
  ASSUME NEW x \in Nat, NEW s \in Nat \ {0}
  PROVE  /\ x \div s \in Nat
         /\ (x \div s) * s <= x
         /\ x < (x \div s) * s + s
  OBVIOUS

\* The clock is truncated and the delay rounded up: the sum is the instant
\* asked for, or less than a second before it.
LEMMA RoundedSum ==
  ASSUME NEW t \in Nat, NEW d \in Nat
  PROVE  (t + d) - TicksPerSecond < (Seconds(t) + CeilSeconds(d)) * TicksPerSecond
  <1> DEFINE s == TicksPerSecond
             a == t \div s
             b == (d + s - 1) \div s
  <1>1. s \in Nat \ {0}
    BY QueueAssumption
  <1>2. a \in Nat /\ t < a * s + s
    BY <1>1, Division
  <1>3. b \in Nat /\ (d + s) - 1 < b * s + s
    <2>1. (d + s) - 1 \in Nat
      BY <1>1
    <2> QED
      BY <1>1, <2>1, Division
  <1> HIDE DEF a, b, s
  <1>4. (a + b) * s = a * s + b * s
    BY <1>1, <1>2, <1>3
  <1>5. a * s \in Int /\ b * s \in Int
    BY <1>1, <1>2, <1>3
  <1>6. (t + d) - s < (a + b) * s
    BY <1>1, <1>2, <1>3, <1>4, <1>5
  <1> QED
    BY <1>6 DEF a, b, s, Seconds, CeilSeconds

\* A job that is ready is less than a second early.
LEMMA ReadyInTime ==
  ASSUME NEW r \in Row, NEW t \in Nat, Timely(r), r.notBefore <= Seconds(t)
  PROVE  t > r.due - TicksPerSecond
  <1> DEFINE s == TicksPerSecond
             a == t \div s
             n == r.notBefore
             e == r.due
  <1>1. s \in Nat \ {0}
    BY QueueAssumption
  <1>2. a \in Nat /\ a * s <= t
    BY <1>1, Division
  <1>3. n \in Int /\ e \in Int /\ n <= a /\ e - s < n * s
    BY DEF Row, Seconds, Timely
  <1> HIDE DEF a, n, e, s
  <1>4. n * s <= a * s
    BY <1>1, <1>2, <1>3
  <1>5. t > e - s
    BY <1>1, <1>2, <1>3, <1>4
  <1> QED
    BY <1>5 DEF e, s

LEMMA RescheduledTimed ==
  ASSUME NEW r \in Row, NEW s \in States, NEW a \in Nat, NEW d \in Nat, now \in Nat
  PROVE  Timely(Rescheduled(r, s, a, d))
  <1> DEFINE n == Seconds(now) + CeilSeconds(d)
  <1>1. /\ Rescheduled(r, s, a, d).notBefore = n
        /\ Rescheduled(r, s, a, d).due = now + d
    BY DEF Rescheduled, Row
  <1>2. (now + d) - TicksPerSecond < n * TicksPerSecond
    BY RoundedSum
  <1> QED
    BY <1>1, <1>2 DEF Timely

LEMMA InitTable == Init => TableInv
  <1> SUFFICES ASSUME Init PROVE TableInv
    OBVIOUS
  <1>1. IInv
    BY InitIInv
  <1>2. PlansDiffer
    BY DEF Init, PlansDiffer
  <1>3. \A i \in Ids : Timed(rows[i])
    <2>1. CASE rows = <<>>
      <3>1. Ids = {}
        BY <2>1, SMT DEF Ids
      <3> QED
        BY <3>1
    <2>2. CASE rows \in LegacyTables
      BY <2>2 DEF Ids, Timed, LegacyTimely
    <2> QED
      BY <2>1, <2>2 DEF Init
  <1> QED
    BY <1>1, <1>2, <1>3 DEF IInv, TypeOK, TableInv, Ids

\* The unique index lets row i have the canonical_url c.
MayHave(i, c) == rows[i].canon = c \/ \A j \in Ids \ {i} : rows[j].canon # c

\* One row is rewritten: it keeps its canonical_url, or takes one that no other
\* row has.  An update of a row that a purge took away changes nothing.
LEMMA ChangeRow ==
  ASSUME TableInv, NEW i, NEW row,
         rows' = [rows EXCEPT ![i] = row], UNCHANGED <<indexed, now, opening, plan>>,
         i \in Ids => /\ row \in Row
                      /\ MayHave(i, row.canon)
                      /\ Live(row) => row.attempts <= RetryMax
                      /\ Timed(row)
  PROVE  TableInv'
  <1>1. /\ Ids' = Ids
        /\ rows' \in [Ids -> Row]
        /\ i \in Ids => rows'[i] = row
        /\ \A j \in Ids \ {i} : rows'[j] = rows[j]
    BY DEF TableInv, Ids
  <1>2. PlansDiffer'
    BY DEF TableInv, PlansDiffer
  <1>3. IndexHolds'
    BY <1>1 DEF TableInv, IndexHolds, CanonsDiffer, MayHave
  <1>4. AttemptsWithinCap' /\ (\A j \in Ids : Timed(rows[j]))'
    BY <1>1 DEF TableInv, AttemptsWithinCap, Live
  <1> QED
    BY <1>1, <1>2, <1>3, <1>4 DEF TableInv

\* Whatever plan a process made, the index refuses what would not be unique.
LEMMA SharedRewrite ==
  ASSUME TableInv, NEW p \in Processes, Rewrite(p)
  PROVE  TableInv' /\ Ids' = Ids /\ \A i \in Ids : rows'[i].state = rows[i].state
  <1>1. /\ rows \in [Ids -> Row] /\ opening[p] = "rewrite" /\ ~RewriteConflicts(p)
        /\ plan[p] \in [DOMAIN plan[p] -> Keys \X Nat]
        /\ \A i, j \in DOMAIN plan[p] : plan[p][i] = plan[p][j] => i = j
    BY DEF TableInv, PlansDiffer, Rewrite
  <1>2. /\ Ids' = Ids
        /\ rows' \in [Ids -> Row]
        /\ \A i \in Ids :
              /\ rows'[i].canon = IF i \in DOMAIN plan[p] THEN plan[p][i] ELSE rows[i].canon
              /\ rows'[i].key = rows[i].key
              /\ rows'[i].state = rows[i].state
              /\ rows'[i].attempts = rows[i].attempts
              /\ rows'[i].due = rows[i].due
              /\ rows'[i].notBefore = rows[i].notBefore
    BY <1>1, RewrittenRows
  <1>3. /\ UNCHANGED <<indexed, now>>
        /\ DOMAIN opening' = Processes /\ DOMAIN plan' = Processes /\ opening'[p] = "index"
        /\ \A q \in Processes \ {p} : opening'[q] = opening[q] /\ plan'[q] = plan[q]
    BY DEF Rewrite, TableInv, PlansDiffer
  <1>4. PlansDiffer'
    BY <1>3 DEF TableInv, PlansDiffer
  <1>5. IndexHolds'
    <2> SUFFICES ASSUME indexed, NEW i \in Ids, NEW j \in Ids,
                        rows'[i].canon = rows'[j].canon, rows'[i].canon # Null
                 PROVE  i = j
      BY <1>2, <1>3 DEF IndexHolds, CanonsDiffer
    <2>1. CASE i \in DOMAIN plan[p] /\ j \in DOMAIN plan[p]
      BY <1>1, <1>2, <2>1
    <2>2. CASE i \in DOMAIN plan[p] /\ j \notin DOMAIN plan[p]
      BY <1>1, <1>2, <2>2 DEF RewriteConflicts
    <2>3. CASE i \notin DOMAIN plan[p] /\ j \in DOMAIN plan[p]
      BY <1>1, <1>2, <2>3 DEF RewriteConflicts
    <2>4. CASE i \notin DOMAIN plan[p] /\ j \notin DOMAIN plan[p]
      BY <1>2, <2>4 DEF TableInv, IndexHolds, CanonsDiffer
    <2> QED
      BY <2>1, <2>2, <2>3, <2>4
  <1>6. AttemptsWithinCap' /\ (\A i \in Ids : Timed(rows[i]))'
    BY <1>2 DEF TableInv, AttemptsWithinCap, Timed, Timely
  <1> QED
    BY <1>2, <1>3, <1>4, <1>5, <1>6 DEF TableInv

LEMMA SharedReclaim ==
  ASSUME TableInv, NEW p \in Processes, Reclaim(p)
  PROVE  TableInv' /\ Ids' = Ids /\ \A i \in Ids : rows'[i].state # "in_flight"
  <1>1. /\ Ids' = Ids
        /\ rows' \in [Ids -> Row]
        /\ \A i \in Ids :
              /\ rows'[i].canon = rows[i].canon
              /\ rows'[i].state = IF rows[i].state = "in_flight" THEN "pending"
                                  ELSE rows[i].state
              /\ rows'[i].attempts = rows[i].attempts
              /\ rows'[i].due = rows[i].due
              /\ rows'[i].notBefore = rows[i].notBefore
    BY ReclaimedRows DEF TableInv
  <1>2. /\ UNCHANGED <<indexed, now, plan>>
        /\ DOMAIN opening' = Processes /\ opening'[p] = "no"
        /\ \A q \in Processes \ {p} : opening'[q] = opening[q]
    BY DEF Reclaim, TableInv, PlansDiffer
  <1>3. PlansDiffer'
    BY <1>2 DEF TableInv, PlansDiffer
  <1>4. IndexHolds' /\ AttemptsWithinCap' /\ (\A i \in Ids : Timed(rows[i]))'
    BY <1>1, <1>2 DEF TableInv, IndexHolds, CanonsDiffer, AttemptsWithinCap, Timed, Timely
  <1> QED
    BY <1>1, <1>2, <1>3, <1>4 DEF TableInv

\* The other steps of the opening, and dying, leave the rows alone.
LEMMA SharedOpening ==
  ASSUME TableInv, NEW p \in Processes, ReadUrls(p) \/ CreateIndex(p) \/ Die(p)
  PROVE  TableInv' /\ rows' = rows
  <1>1. rows' = rows /\ now' = now /\ Ids' = Ids
    BY DEF ReadUrls, CreateIndex, Die, Ids
  <1>2. AttemptsWithinCap' /\ (\A i \in Ids : Timed(rows[i]))'
    BY <1>1 DEF TableInv, AttemptsWithinCap
  <1>3. IndexHolds'
    BY <1>1 DEF TableInv, IndexHolds, CanonsDiffer, ReadUrls, CreateIndex, Die
  <1>4. PlansDiffer'
    <2>1. CASE ReadUrls(p)
      <3>1. /\ DOMAIN opening' = Processes /\ DOMAIN plan' = Processes
            /\ plan'[p] = Plan(rows)
            /\ \A q \in Processes \ {p} : opening'[q] = opening[q] /\ plan'[q] = plan[q]
        BY <2>1 DEF ReadUrls, TableInv, PlansDiffer
      <3>2. /\ DOMAIN Plan(rows) = Ids
            /\ Plan(rows) \in [Ids -> Keys \X Nat]
            /\ \A i, j \in Ids : Plan(rows)[i] = Plan(rows)[j] => i = j
        BY PlanOf DEF TableInv
      <3> QED
        BY <3>1, <3>2 DEF TableInv, PlansDiffer
    <2>2. CASE CreateIndex(p) \/ Die(p)
      <3>1. /\ DOMAIN opening' = Processes /\ DOMAIN plan' = Processes
            /\ opening'[p] # "rewrite"
            /\ \A q \in Processes \ {p} : opening'[q] = opening[q] /\ plan'[q] = plan[q]
        BY <2>2 DEF CreateIndex, Die, TableInv, PlansDiffer
      <3> QED
        BY <3>1 DEF TableInv, PlansDiffer
    <2> QED
      BY <2>1, <2>2
  <1> QED
    BY <1>1, <1>2, <1>3, <1>4 DEF TableInv

LEMMA SharedInsert ==
  ASSUME TableInv, NEW p \in Processes, NEW k \in Keys, NEW prio \in Priorities,
         NEW d \in Delays, Insert(p, k, prio, d)
  PROVE  TableInv' /\ \A j \in Ids : rows'[j] = rows[j]
  <1> DEFINE n == Seconds(now) + CeilSeconds(d)
             row == [key |-> k, canon |-> <<k, 0>>, state |-> "pending", attempts |-> 0,
                     prio |-> prio, notBefore |-> n, due |-> now + d]
  <1>1. PICK i \in 1..MAX_ROWS :
          /\ IsNextId(i)
          /\ rows' = [j \in Ids \cup {i} |-> IF j \in Ids THEN rows[j] ELSE row]
    BY DEF Insert
  <1>2. n \in Int /\ now + d \in Int /\ prio \in Int /\ now \in Nat /\ d \in Nat
    BY SecondsNat, CeilNat, QueueAssumption DEF TableInv
  <1>3. row \in Row /\ row.key = k /\ row.canon = <<k, 0>> /\ row.attempts = 0
    <2> HIDE DEF n
    <2>1. <<k, 0>> \in Canons
      BY DEF Canons
    <2> QED
      BY <1>2, <2>1 DEF Row, States
  <1>4. Timed(row)
    <2>1. (now + d) - TicksPerSecond < n * TicksPerSecond
      BY <1>2, RoundedSum
    <2> QED
      BY <2>1 DEF Timed, Timely
  <1>5. i \in Nat \ {0} /\ i \notin Ids
    BY <1>1, QueueAssumption DEF IsNextId
  <1> HIDE DEF row
  <1>6. /\ Ids' = Ids \cup {i}
        /\ rows' \in [Ids \cup {i} -> Row]
        /\ rows'[i] = row
        /\ \A j \in Ids : rows'[j] = rows[j]
        /\ UNCHANGED <<indexed, now, opening, plan>>
    BY <1>1, <1>3, <1>5 DEF TableInv, Ids, Insert
  <1>7. IndexHolds'
    <2>1. ~Taken(k)
      BY DEF Insert
    <2>2. \A j \in Ids : rows'[j].canon = rows[j].canon /\ rows[j].canon # row.canon
      BY <1>3, <1>6, <2>1 DEF Taken
    <2>3. SUFFICES ASSUME indexed,
                          NEW j1 \in Ids \cup {i}, NEW j2 \in Ids \cup {i},
                          rows'[j1].canon = rows'[j2].canon, rows'[j1].canon # Null
                   PROVE  j1 = j2
      BY <1>6 DEF IndexHolds, CanonsDiffer
    <2>4. CASE j1 \in Ids /\ j2 \in Ids
      BY <2>2, <2>3, <2>4 DEF TableInv, IndexHolds, CanonsDiffer
    <2> QED
      BY <1>6, <2>2, <2>3, <2>4
  <1>8. PlansDiffer' /\ (\A j \in Ids : Timed(rows[j]))'
    BY <1>3, <1>4, <1>6 DEF TableInv, PlansDiffer
  <1>9. AttemptsWithinCap'
    BY <1>3, <1>6, QueueAssumption DEF TableInv, AttemptsWithinCap
  <1> QED
    BY <1>5, <1>6, <1>7, <1>8, <1>9 DEF TableInv

\* A task hands row i back, or what is left of it; no such update makes a row
\* in_flight.
LEMMA SharedResolve ==
  ASSUME TableInv, alone => IInv, NEW p \in Processes, NEW i \in held[p],
         \/ Complete(p, i)
         \/ \E d \in Delays : Fail(p, i, d)
         \/ FailPermanently(p, i)
         \/ \E k \in JobKeys(i), prio \in Priorities, a \in RequeueAttempts(i), d \in Delays :
               Requeue(p, i, k, prio, a, d)
  PROVE  /\ TableInv'
         /\ Ids' = Ids
         /\ \A j \in Ids : rows'[j] = rows[j] \/ rows'[j].state # "in_flight"
  <1>1. ASSUME NEW row, Resolve(p, i, row),
               i \in Ids => /\ row \in Row
                            /\ MayHave(i, row.canon)
                            /\ Live(row) => row.attempts <= RetryMax
                            /\ Timed(row)
                            /\ row.state # "in_flight"
        PROVE  /\ TableInv'
               /\ Ids' = Ids
               /\ \A j \in Ids : rows'[j] = rows[j] \/ rows'[j].state # "in_flight"
    <2>1. TableInv'
      BY <1>1, ChangeRow DEF Resolve
    <2>2. /\ Ids' = Ids
          /\ \A j \in Ids : rows'[j] = IF j = i THEN row ELSE rows[j]
      BY <1>1 DEF Resolve, Ids, TableInv
    <2> QED
      BY <1>1, <2>1, <2>2
  <1>2. now \in Nat /\ (i \in Ids => rows[i] \in Row /\ Timed(rows[i]))
    BY DEF TableInv
  <1>3. CASE Complete(p, i)
    <2> DEFINE row == [rows[i] EXCEPT !.state = "done"]
    <2>1. Resolve(p, i, row)
      BY <1>3 DEF Complete
    <2>2. i \in Ids => /\ row \in Row
                       /\ row.key = rows[i].key
                       /\ row.canon = rows[i].canon
                       /\ row.state = "done"
                       /\ Timed(row)
      BY <1>2 DEF Row, States, Timed, Timely
    <2> HIDE DEF row
    <2> QED
      BY <1>1, <1>2, <2>1, <2>2 DEF Live, MayHave
  <1>4. ASSUME NEW r, NEW s \in {"pending", "failed"}, NEW a, NEW d \in Nat,
               Resolve(p, i, Rescheduled(r, s, a, d)),
               i \in Ids => /\ r \in Row
                            /\ a \in Nat
                            /\ s = "pending" => a <= RetryMax
                            /\ MayHave(i, r.canon)
        PROVE  /\ TableInv'
               /\ Ids' = Ids
               /\ \A j \in Ids : rows'[j] = rows[j] \/ rows'[j].state # "in_flight"
    <2> DEFINE row == Rescheduled(r, s, a, d)
    <2>1. i \in Ids => /\ row \in Row
                       /\ row.key = r.key
                       /\ row.canon = r.canon
                       /\ row.attempts = a
                       /\ row.state = s
                       /\ Timed(row)
      <3> SUFFICES ASSUME i \in Ids
                   PROVE  /\ row \in Row
                          /\ row.key = r.key
                          /\ row.canon = r.canon
                          /\ row.attempts = a
                          /\ row.state = s
                          /\ Timed(row)
        OBVIOUS
      <3>1. s \in States /\ r \in Row /\ a \in Nat /\ d \in Nat /\ now \in Nat
        BY <1>2, <1>4 DEF States
      <3>2. /\ row \in Row /\ row.key = r.key /\ row.canon = r.canon
            /\ row.attempts = a /\ row.state = s
        BY <3>1, RescheduledRow
      <3>3. Timely(row)
        BY <3>1, RescheduledTimed
      <3> HIDE DEF row
      <3> QED
        BY <3>2, <3>3 DEF Timed
    <2>2. Resolve(p, i, row)
      BY <1>4
    <2> HIDE DEF row
    <2> QED
      BY <1>1, <1>4, <2>1, <2>2 DEF Live
  <1>5. ASSUME NEW d \in Delays, Fail(p, i, d)
        PROVE  /\ TableInv'
               /\ Ids' = Ids
               /\ \A j \in Ids : rows'[j] = rows[j] \/ rows'[j].state # "in_flight"
    <2> DEFINE s == IF rows[i].attempts + 1 >= RetryMax THEN "failed" ELSE "pending"
               a == rows[i].attempts + 1
    <2>1. /\ s \in {"pending", "failed"} /\ d \in Nat
          /\ i \in Ids => a \in Nat /\ (s = "pending" => a <= RetryMax)
      BY <1>2, QueueAssumption DEF Row
    <2>2. Resolve(p, i, Rescheduled(rows[i], s, a, d))
      BY <1>5 DEF Fail
    <2> HIDE DEF s, a
    <2> QED
      BY <1>2, <1>4, <2>1, <2>2 DEF MayHave
  <1>6. CASE FailPermanently(p, i)
    <2> DEFINE s == "failed"
               a == rows[i].attempts + 1
               z == 0
    <2>1. s = "failed" /\ z \in Nat /\ (i \in Ids => a \in Nat)
      BY <1>2 DEF Row
    <2>2. Resolve(p, i, Rescheduled(rows[i], s, a, z))
      BY <1>6 DEF FailPermanently
    <2> HIDE DEF s, a, z
    <2> QED
      BY <1>2, <1>4, <2>1, <2>2 DEF MayHave
  <1>7. ASSUME NEW k \in JobKeys(i), NEW prio \in Priorities, NEW a \in RequeueAttempts(i),
               NEW d \in Delays, Requeue(p, i, k, prio, a, d)
        PROVE  /\ TableInv'
               /\ Ids' = Ids
               /\ \A j \in Ids : rows'[j] = rows[j] \/ rows'[j].state # "in_flight"
    <2> DEFINE x == [rows[i] EXCEPT !.key = k]
               y == [x EXCEPT !.canon = <<k, 0>>]
               r == [y EXCEPT !.prio = prio]
               s == "pending"
    <2>1. s \in {"pending", "failed"} /\ d \in Nat /\ prio \in Int
      BY QueueAssumption
    <2>2. i \in Ids => a \in Nat /\ a <= RetryMax /\ k \in Keys
      <3>1. ASSUME i \in Ids PROVE JobAttempts(i) \subseteq 0 .. RetryMax /\ k \in Keys
        <4>1. CASE alone
          <5>1. rows[i].attempts <= RetryMax
            BY <4>1, OnlyHolder
          <5>2. rows[i].attempts \in Nat /\ rows[i].key \in Keys
            BY <1>2, <3>1 DEF Row
          <5> QED
            BY <4>1, <5>1, <5>2, QueueAssumption DEF JobKeys, JobAttempts
        <4>2. CASE ~alone
          BY <4>2 DEF JobKeys, JobAttempts
        <4> QED
          BY <4>1, <4>2
      <3> QED
        BY <3>1, RequeuedWithinCap
    <2>3. i \in Ids => x \in Row /\ x.key = k
      BY <1>2, <2>2 DEF Row
    <2>4. Resolve(p, i, Rescheduled(r, s, a, d)) /\ ~KeyHeldElsewhere(i, k)
      BY <1>7 DEF Requeue
    <2> HIDE DEF x, s
    <2>5. i \in Ids => y \in Row /\ y.key = k /\ y.canon = <<k, 0>>
      <3>1. k \in Keys => <<k, 0>> \in Canons
        BY DEF Canons
      <3> QED
        BY <2>2, <2>3, <3>1 DEF Row
    <2> HIDE DEF y
    <2>6. i \in Ids => r \in Row /\ r.key = k /\ r.canon = <<k, 0>>
      BY <2>1, <2>5 DEF Row
    <2> HIDE DEF r
    <2> QED
      BY <1>4, <2>1, <2>2, <2>4, <2>6 DEF MayHave, KeyHeldElsewhere
  <1> QED
    BY <1>3, <1>5, <1>6, <1>7

LEMMA SharedPop ==
  ASSUME TableInv, NEW p \in Processes, NEW i \in Ids, Pop(p, i)
  PROVE  /\ TableInv'
         /\ Ids' = Ids
         /\ \A j \in Ids \ {i} : rows'[j] = rows[j]
         /\ LegacyTimely => now > rows[i].due - TicksPerSecond
  <1> DEFINE row == [rows[i] EXCEPT !.state = "in_flight"]
  <1>1. rows[i] \in Row /\ Timed(rows[i]) /\ now \in Nat
    BY DEF TableInv
  <1>2. /\ row \in Row /\ row.key = rows[i].key /\ row.canon = rows[i].canon /\ Timed(row)
        /\ row.attempts = rows[i].attempts
    BY <1>1 DEF Row, States, Timed, Timely
  <1>3. rows' = [rows EXCEPT ![i] = row] /\ UNCHANGED <<indexed, now, opening, plan>>
    BY DEF Pop
  <1> HIDE DEF row
  <1>4. TableInv'
    <2>1. rows[i].attempts <= RetryMax
      BY DEF TableInv, AttemptsWithinCap, Pop, Ready
    <2> QED
      BY <1>1, <1>2, <1>3, <2>1, ChangeRow DEF MayHave
  <1>5. Ids' = Ids /\ \A j \in Ids \ {i} : rows'[j] = rows[j]
    BY <1>3 DEF TableInv, Ids
  <1>6. rows[i].notBefore <= Seconds(now)
    BY DEF Pop, Ready
  <1> QED
    BY <1>1, <1>4, <1>5, <1>6, ReadyInTime DEF Timed

\* What a step of any process does to the table.
LEMMA SharedStep ==
  ASSUME TableInv, alone => IInv, [Next]_vars
  PROVE  /\ TableInv'
         /\ (alone => IInv)'
         /\ \A i \in Ids :
              LegacyTimely /\ i \in Ids' /\ rows[i].state = "pending"
                           /\ rows'[i].state = "in_flight"
                => now > rows[i].due - TicksPerSecond
  <1>0. (alone => IInv)'
    BY StepIInv, Alone
  <1> DEFINE Early(i) ==
               LegacyTimely /\ i \in Ids' /\ rows[i].state = "pending"
                            /\ rows'[i].state = "in_flight"
                 => now > rows[i].due - TicksPerSecond
  <1>1. CASE rows' = rows /\ now' \in Nat /\ UNCHANGED <<indexed, opening, plan>>
    <2>1. TableInv'
      BY <1>1 DEF TableInv, PlansDiffer, IndexHolds, CanonsDiffer, AttemptsWithinCap, Ids
    <2>2. \A i \in Ids : Early(i)
      BY <1>1
    <2> QED
      BY <1>0, <2>1, <2>2
  <1>2. CASE UNCHANGED vars \/ Tick
    BY <1>1, <1>2 DEF vars, Tick, TableInv
  <1>3. CASE Purge
    <2>1. /\ Ids' \subseteq Ids
          /\ \A i \in Ids' : rows'[i] = rows[i]
          /\ rows' \in [Ids' -> Row]
          /\ UNCHANGED <<indexed, now, opening, plan>>
      BY <1>3 DEF Purge, Ids, TableInv
    <2>2. TableInv'
      BY <2>1 DEF TableInv, PlansDiffer, IndexHolds, CanonsDiffer, AttemptsWithinCap
    <2> QED
      BY <1>0, <2>1, <2>2
  <1>4. ASSUME NEW p \in Processes, ProcessStep(p)
        PROVE  TableInv' /\ \A i \in Ids : Early(i)
    <2>1. CASE Rewrite(p)
      <3>1. TableInv' /\ \A i \in Ids : rows'[i].state = rows[i].state
        BY <2>1, SharedRewrite
      <3> QED
        BY <3>1
    <2>2. CASE Reclaim(p)
      <3>1. TableInv' /\ \A i \in Ids : rows'[i].state # "in_flight"
        BY <2>2, SharedReclaim
      <3> QED
        BY <3>1
    <2>8. CASE ReadUrls(p) \/ CreateIndex(p) \/ Die(p)
      <3>1. TableInv' /\ rows' = rows
        BY <2>8, SharedOpening
      <3> QED
        BY <3>1
    <2>3. CASE \E k \in Keys, prio \in Priorities, d \in Delays : Insert(p, k, prio, d)
      <3>1. TableInv' /\ \A j \in Ids : rows'[j] = rows[j]
        BY <2>3, SharedInsert
      <3> QED
        BY <3>1
    <2>4. CASE \E k \in Keys : InsertIgnored(p, k)
      BY <1>2, <2>4 DEF InsertIgnored
    <2>5. ASSUME NEW i \in Ids, Pop(p, i) PROVE TableInv' /\ \A j \in Ids : Early(j)
      <3>1. /\ TableInv'
            /\ \A j \in Ids \ {i} : rows'[j] = rows[j]
            /\ LegacyTimely => now > rows[i].due - TicksPerSecond
        BY <2>5, SharedPop
      <3> QED
        BY <3>1
    <2>6. ASSUME NEW i \in held[p],
                 \/ Complete(p, i)
                 \/ \E d \in Delays : Fail(p, i, d)
                 \/ FailPermanently(p, i)
                 \/ \E k \in JobKeys(i), prio \in Priorities, a \in RequeueAttempts(i),
                        d \in Delays : Requeue(p, i, k, prio, a, d)
          PROVE  TableInv' /\ \A j \in Ids : Early(j)
      <3>1. /\ TableInv'
            /\ \A j \in Ids : rows'[j] = rows[j] \/ rows'[j].state # "in_flight"
        BY <2>6, SharedResolve
      <3> QED
        BY <3>1
    <2>7. ASSUME NEW i \in held[p], RequeueRejected(p, i)
          PROVE  TableInv' /\ \A j \in Ids : Early(j)
      BY <1>1, <2>7 DEF RequeueRejected, TableInv
    <2> QED
      BY <1>4, <2>1, <2>2, <2>3, <2>4, <2>5, <2>6, <2>7, <2>8 DEF ProcessStep
  <1> QED
    BY <1>0, <1>2, <1>3, <1>4 DEF Next

\* And until two processes use it at once, all that follows from that.
SharedInv == TableInv /\ (alone => IInv)

\* It holds of every table, opened by any number of processes in any order.
THEOREM SharedInvariance == Spec => []SharedInv
  <1>1. Init => SharedInv
    BY InitTable, InitIInv DEF SharedInv
  <1>2. SharedInv /\ [Next]_vars => SharedInv'
    BY SharedStep DEF SharedInv
  <1> QED
    BY <1>1, <1>2, PTL DEF Spec

\* No live job is past the retry cap, through failures, requeues, crashes and
\* reclaims in any order: not even when a process that lost its row to another
\* one's reclaim writes the job it still holds over what is there now.
THEOREM SpecAttemptsWithinCap == Spec => []AttemptsWithinCap
  <1>1. SharedInv => AttemptsWithinCap
    BY DEF SharedInv, TableInv
  <1> QED
    BY <1>1, SharedInvariance, PTL

\* No job is dispatched a whole second or more before its delay is over,
\* whichever process asked for the delay and whichever pops the job.
THEOREM SpecAtMostASecondEarly == ASSUME LegacyTimely PROVE Spec => AtMostASecondEarly
  <1>1. SharedInv /\ [Next]_vars =>
          [\A i \in Ids :
             i \in DOMAIN rows' /\ rows[i].state = "pending" /\ rows'[i].state = "in_flight"
                => now > rows[i].due - TicksPerSecond]_vars
    BY SharedStep DEF SharedInv, Ids
  <1> QED
    BY <1>1, SharedInvariance, PTL DEF Spec, AtMostASecondEarly
====
