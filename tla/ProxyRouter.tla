---- MODULE ProxyRouter ----
(***************************************************************************)
(* The proxy router (src/proxy/router.rs): scores and quarantines folded   *)
(* from the outcomes of requests and probes, picks that pin a host to a    *)
(* proxy, the flush loop of src/crawler.rs that hands changes to the       *)
(* SQLite writer, and the hydration at start.  Scores are the number of    *)
(* outcomes folded in; time is in ticks, Second of them to a second.       *)
(***************************************************************************)
EXTENDS SqliteWriter, FiniteSets

CONSTANTS
    Jobs,
    Checkers,           \* the health checker, if one is configured
    Proxies,
    Hosts,
    MaxFailures,        \* max_consecutive_failures
    Quarantine,         \* quarantine_secs, in ticks
    ChallengeQuarantine,\* challenge_quarantine_secs, in ticks
    Second,             \* ticks to a second
    CALLS, TICKS, FAULTS \* bounds of the model

ASSUME RouterAssumption ==
    /\ Jobs \cap Checkers = {}
    /\ "none" \notin Proxies \cup Hosts
    /\ {MaxFailures, Second} \subseteq Nat \ {0}
    /\ {Quarantine, ChallengeQuarantine, CALLS, TICKS, FAULTS} \subseteq Nat
    /\ Quarantine <= ChallengeQuarantine

Tasks == Jobs \cup Checkers

VARIABLES
    time,
    folded,     \* folded[p]: outcomes in the score of p
    fails,      \* fails[p]: consecutive_failures
    until,      \* until[p]: end of its quarantine, 0 for none
    affinity,   \* affinity[h]: the proxy h is pinned to, or None
    dirty,      \* pending_dirty
    pins,       \* pending_affinity
    at,         \* at[t]: what task t does next
    call,       \* call[t]: the proxy or host it is called for
    clock,      \* clock[t]: the time it read at the start of the call
    todo,       \* todo[t]: proxies it has yet to look at
    found,      \* found[t]: proxies it found alive
    sick,       \* sick[t]: proxies dead ever since its pick began
    flush,      \* the flush loop
    scoreRows,  \* scoreRows[p]: row of p in proxy_scores
    pinRows,    \* pinRows[h]: row of h in host_affinity
    phase,      \* hydration: "scores", "pins", then "up"
    calls, faults,
    lostScores, \* history: proxies a row of which was lost, or not read back
    lostPins,   \* hosts a row of which was lost, or not read back
    crossed     \* hosts two tasks pinned at the same time

routerVars == <<folded, fails, until, affinity, dirty, pins>>
taskVars == <<at, call, clock, todo, found, sick>>
tableVars == <<scoreRows, pinRows>>
historyVars == <<lostScores, lostPins, crossed>>
vars == <<writerVars, time, routerVars, taskVars, flush, tableVars, phase, calls, faults,
          historyVars>>

None == "none"
Start == 2 * Second + 1  \* 0 is before any time a quarantine ends
NoCall == [proxy |-> None, host |-> None, outcome |-> None]
NoFlush == [at |-> "idle", todo |-> {}, proxy |-> None, rows |-> <<>>, pins |-> <<>>]
NoRow == [folded |-> 0, until |-> 0, exact |-> 0]
Outcomes == {"success", "failure", "neutral", "challenge"}

MemoryInit ==
    /\ folded = [p \in Proxies |-> 0]
    /\ fails = [p \in Proxies |-> 0]
    /\ until = [p \in Proxies |-> 0]
    /\ affinity = [h \in Hosts |-> None]
    /\ dirty = {}
    /\ pins = <<>>
    /\ at = [t \in Tasks |-> "idle"]
    /\ call = [t \in Tasks |-> NoCall]
    /\ clock = [t \in Tasks |-> 0]
    /\ todo = [t \in Tasks |-> {}]
    /\ found = [t \in Tasks |-> {}]
    /\ sick = [t \in Tasks |-> {}]
    /\ flush = NoFlush
    /\ phase = "scores"

Init ==
    /\ WriterInit
    /\ MemoryInit
    /\ time = Start
    /\ scoreRows = [p \in Proxies |-> NoRow]
    /\ pinRows = [h \in Hosts |-> None]
    /\ calls = 0
    /\ faults = 0
    /\ lostScores = {}
    /\ lostPins = {}
    /\ crossed = {}

\* Still dead when quarantines end at ends and the time is now.
StillSick(ends, now) == sick' = [t \in Tasks |-> {p \in sick[t] : ends[p] > now}]

Go(t, step) == at' = [at EXCEPT ![t] = step]

Finish(t) ==
    /\ Go(t, "idle")
    /\ call' = [call EXCEPT ![t] = NoCall]
    /\ clock' = [clock EXCEPT ![t] = 0]
    /\ todo' = [todo EXCEPT ![t] = {}]
    /\ found' = [found EXCEPT ![t] = {}]
    /\ sick' = [sick EXCEPT ![t] = {}]

Call(t, c) ==
    /\ at[t] = "idle"
    /\ calls < CALLS
    /\ calls' = calls + 1
    /\ call' = [call EXCEPT ![t] = c]
    /\ clock' = [clock EXCEPT ![t] = time]

(* record_outcome. *)

\* The time is read before the score is locked.  The checker probes before the
\* hydration is over, and knows of no challenge and no 4xx.
Record(t, p, o) ==
    /\ t \in Checkers \/ phase = "up"
    /\ t \in Checkers => o \in {"success", "failure"}
    /\ Call(t, [NoCall EXCEPT !.proxy = p, !.outcome = o])
    /\ Go(t, "fold")
    /\ UNCHANGED <<writerVars, time, routerVars, todo, found, sick, flush, tableVars, phase,
                   faults, historyVars>>

FailsAfter(n, o) ==
    CASE o = "success" -> 0
      [] o \in {"failure", "challenge"} -> n + 1
      [] o = "neutral" -> n

\* Mutant of Trip: the longer of two quarantines is not kept.
TripAnyway(end, n, now) == IF n >= MaxFailures THEN now + Quarantine ELSE end
Trip(end, n, now) ==
    IF n >= MaxFailures /\ end <= now + Quarantine THEN now + Quarantine ELSE end

UntilAfter(p, o, n, now) ==
    Trip(IF o = "challenge" THEN now + ChallengeQuarantine ELSE until[p], n, now)

Fold(t) ==
    /\ at[t] = "fold"
    /\ LET p == call[t].proxy
           n == FailsAfter(fails[p], call[t].outcome)
       IN  /\ folded' = [folded EXCEPT ![p] = @ + 1]
           /\ fails' = [fails EXCEPT ![p] = n]
           /\ until' = [until EXCEPT ![p] = UntilAfter(p, call[t].outcome, n, clock[t])]
    /\ StillSick(until', time)
    /\ Go(t, "mark")
    /\ UNCHANGED <<writerVars, time, affinity, dirty, pins, call, clock, todo, found, flush,
                    tableVars, phase, calls, faults, historyVars>>

MarkDirty(t) ==
    /\ at[t] = "mark"
    /\ dirty' = dirty \cup {call[t].proxy}
    /\ Finish(t)
    /\ UNCHANGED <<writerVars, time, folded, fails, until, affinity, pins, flush, tableVars,
                   phase, calls, faults, historyVars>>

(* pick and best_alternative. *)

Alive(p, now) == until[p] <= now

Pick(t, h) ==
    /\ phase = "up"
    /\ Call(t, [NoCall EXCEPT !.host = h])
    /\ sick' = [sick EXCEPT ![t] = {p \in Proxies : ~Alive(p, time)}]
    /\ todo' = [todo EXCEPT ![t] = Proxies]
    /\ Go(t, "pinned")
    /\ UNCHANGED <<writerVars, time, routerVars, found, flush, tableVars, phase, faults,
                   historyVars>>

BestAlternative(t, h, avoid) ==
    /\ phase = "up"
    /\ Call(t, [NoCall EXCEPT !.host = h, !.proxy = avoid])
    /\ sick' = [sick EXCEPT ![t] = {p \in Proxies : ~Alive(p, time)}]
    /\ todo' = [todo EXCEPT ![t] = Proxies \ {avoid}]
    /\ Go(t, "scan")
    /\ UNCHANGED <<writerVars, time, routerVars, found, flush, tableVars, phase, faults,
                   historyVars>>

\* Mutant of UsePin: the pin is returned unseen, dead or not there at all.
UsePinBlind(t) ==
    /\ at[t] = "pinned"
    /\ found' = [found EXCEPT ![t] = {affinity[call[t].host]}]
    /\ Go(t, "done")
    /\ UNCHANGED <<writerVars, time, routerVars, call, clock, todo, sick, flush, tableVars,
                   phase, calls, faults, historyVars>>

\* A pin is honoured while the proxy is alive.
UsePin(t) ==
    /\ at[t] = "pinned"
    /\ LET p == affinity[call[t].host]
       IN  IF p # None /\ Alive(p, clock[t])
           THEN found' = [found EXCEPT ![t] = {p}] /\ Go(t, "done")
           ELSE UNCHANGED found /\ Go(t, "scan")
    /\ UNCHANGED <<writerVars, time, routerVars, call, clock, todo, sick, flush, tableVars,
                   phase, calls, faults, historyVars>>

Scan(t) ==
    /\ at[t] = "scan"
    /\ \E p \in todo[t] :
         /\ todo' = [todo EXCEPT ![t] = @ \ {p}]
         /\ found' = [found EXCEPT ![t] = IF Alive(p, clock[t]) THEN @ \cup {p} ELSE @]
    /\ UNCHANGED <<writerVars, time, routerVars, at, call, clock, sick, flush, tableVars,
                   phase, calls, faults, historyVars>>

\* Which of the live ones is the strategy's affair.  pick leaves a pin that is
\* the same alone; best_alternative always pins.
Choose(t) ==
    /\ at[t] = "scan"
    /\ todo[t] = {}
    /\ found[t] # {}
    /\ \E p \in found[t] :
         /\ found' = [found EXCEPT ![t] = {p}]
         /\ Go(t, IF call[t].proxy = None /\ affinity[call[t].host] = p THEN "done" ELSE "pin")
    /\ UNCHANGED <<writerVars, time, routerVars, call, clock, todo, sick, flush, tableVars,
                   phase, calls, faults, historyVars>>

NoneAlive(t) ==
    /\ at[t] = "scan"
    /\ todo[t] = {}
    /\ found[t] = {}
    /\ Finish(t)
    /\ UNCHANGED <<writerVars, time, routerVars, flush, tableVars, phase, calls, faults,
                   historyVars>>

\* The pin is set, and told to the flush loop under another lock.
Pin(t) ==
    /\ at[t] = "pin"
    /\ \E p \in found[t] : affinity' = [affinity EXCEPT ![call[t].host] = p]
    /\ crossed' = IF \E u \in Tasks \ {t} : at[u] = "push" /\ call[u].host = call[t].host
                  THEN crossed \cup {call[t].host} ELSE crossed
    /\ Go(t, "push")
    /\ UNCHANGED <<writerVars, time, folded, fails, until, dirty, pins, call, clock, todo,
                   found, sick, flush, tableVars, phase, calls, faults, lostScores, lostPins>>

\* Mutant of Push: a pin already waiting for its host is not pushed again.
PushOnce(t) ==
    /\ at[t] = "push"
    /\ \E p \in found[t] :
         pins' = IF \E n \in 1 .. Len(pins) : pins[n].key = call[t].host THEN pins
                 ELSE Append(pins, [key |-> call[t].host, value |-> p])
    /\ Go(t, "done")
    /\ UNCHANGED <<writerVars, time, folded, fails, until, affinity, dirty, call, clock, todo,
                   found, sick, flush, tableVars, phase, calls, faults, historyVars>>

Push(t) ==
    /\ at[t] = "push"
    /\ \E p \in found[t] : pins' = Append(pins, [key |-> call[t].host, value |-> p])
    /\ Go(t, "done")
    /\ UNCHANGED <<writerVars, time, folded, fails, until, affinity, dirty, call, clock, todo,
                   found, sick, flush, tableVars, phase, calls, faults, historyVars>>

\* The proxy of found[t] is returned.
Return(t) ==
    /\ at[t] = "done"
    /\ Finish(t)
    /\ UNCHANGED <<writerVars, time, routerVars, flush, tableVars, phase, calls, faults,
                   historyVars>>

(* The flush loop: drain_pending, pack_score_rows and the two saves. *)

DrainStarts ==
    /\ phase = "up"
    /\ flush.at = "idle"
    /\ dirty # {} \/ pins # <<>>
    /\ flush' = [flush EXCEPT !.at = "drain", !.todo = dirty]
    /\ UNCHANGED <<writerVars, time, routerVars, taskVars, tableVars, phase, calls, faults,
                   historyVars>>

\* Mutant of Unmark: every mark goes, not only those that were listed.
UnmarkAll ==
    /\ flush.at = "drain"
    /\ \E p \in flush.todo :
         /\ dirty' = {}
         /\ flush' = [flush EXCEPT !.at = "read", !.todo = @ \ {p}, !.proxy = p]
    /\ UNCHANGED <<writerVars, time, folded, fails, until, affinity, pins, taskVars, tableVars,
                   phase, calls, faults, historyVars>>

\* The mark of a proxy goes first, and its score is read after.
Unmark ==
    /\ flush.at = "drain"
    /\ \E p \in flush.todo :
         /\ dirty' = dirty \ {p}
         /\ flush' = [flush EXCEPT !.at = "read", !.todo = @ \ {p}, !.proxy = p]
    /\ UNCHANGED <<writerVars, time, folded, fails, until, affinity, pins, taskVars, tableVars,
                   phase, calls, faults, historyVars>>

ReadScore ==
    /\ flush.at = "read"
    /\ flush' = [flush EXCEPT !.at = "drain", !.proxy = None, !.rows = Append(@,
                   [key |-> flush.proxy, value |->
                     [folded |-> folded[flush.proxy], until |-> until[flush.proxy]]])]
    /\ UNCHANGED <<writerVars, time, routerVars, taskVars, tableVars, phase, calls, faults,
                   historyVars>>

TakePins ==
    /\ flush.at = "drain"
    /\ flush.todo = {}
    /\ flush' = [flush EXCEPT !.at = "scores", !.pins = pins]
    /\ pins' = <<>>
    /\ UNCHANGED <<writerVars, time, folded, fails, until, affinity, dirty, taskVars,
                   tableVars, phase, calls, faults, historyVars>>

Unix(t) == t \div Second

\* now_plus_offset_unix: whole seconds from now, rounded towards now.
ToUnix(end, now) ==
    IF end >= now THEN Unix(now) + (end - now) \div Second
    ELSE Unix(now) - (now - end) \div Second

\* Mutant of FromUnix: the offset is not added to the present instant.
FromUnixEarly(row, now) == (row - Unix(now)) * Second
\* unix_to_instant.
FromUnix(row, now) == now + (row - Unix(now)) * Second

\* pack_score_rows, at one reading of the clock.
Packed(r) == [key |-> r.key, value |->
    [folded |-> r.value.folded, exact |-> r.value.until,
     until |-> IF r.value.until = 0 THEN 0 ELSE ToUnix(r.value.until, time)]]

SendScores ==
    /\ flush.at = "scores"
    /\ IF flush.rows = <<>> THEN UNCHANGED writerVars
       ELSE Post([kind |-> "scores", rows |-> [n \in DOMAIN flush.rows |-> Packed(flush.rows[n])]])
    /\ flush' = [flush EXCEPT !.at = "pins", !.rows = <<>>]
    /\ UNCHANGED <<time, routerVars, taskVars, tableVars, phase, calls, faults, historyVars>>

SendPins ==
    /\ flush.at = "pins"
    /\ IF flush.pins = <<>> THEN UNCHANGED writerVars
       ELSE Post([kind |-> "pins", rows |-> flush.pins])
    /\ flush' = NoFlush
    /\ UNCHANGED <<time, routerVars, taskVars, tableVars, phase, calls, faults, historyVars>>

Flush == DrainStarts \/ Unmark \/ ReadScore \/ TakePins \/ SendScores \/ SendPins

(* The writer: what its transactions do to the two tables. *)

\* The value that writing ops in turn leaves for key k of a table.
Keys(op) == {op.rows[n].key : n \in DOMAIN op.rows}
Has(op, kind, k) == op.kind = kind /\ k \in Keys(op)
LastWith(ops, kind, k) ==
    CHOOSE n \in DOMAIN ops :
        Has(ops[n], kind, k) /\ \A m \in n + 1 .. Len(ops) : ~Has(ops[m], kind, k)
LastRow(rows, k) ==
    CHOOSE n \in DOMAIN rows :
        rows[n].key = k /\ \A m \in n + 1 .. Len(rows) : rows[m].key # k

After(old, ops, kind, k) ==
    IF \A n \in DOMAIN ops : ~Has(ops[n], kind, k) THEN old
    ELSE LET rows == ops[LastWith(ops, kind, k)].rows IN rows[LastRow(rows, k)].value

Written(ops) ==
    /\ scoreRows' = [p \in Proxies |-> After(scoreRows[p], ops, "scores", p)]
    /\ pinRows' = [h \in Hosts |-> After(pinRows[h], ops, "pins", h)]

Missing(ops) ==
    /\ lostScores' = lostScores
         \cup {p \in Proxies : \E n \in DOMAIN ops : Has(ops[n], "scores", p)}
    /\ lostPins' = lostPins
         \cup {h \in Hosts : \E n \in DOMAIN ops : Has(ops[n], "pins", h)}

WriterTakes ==
    /\ TakeBatch
    /\ UNCHANGED <<time, routerVars, taskVars, flush, tableVars, phase, calls, faults,
                   historyVars>>

Commits ==
    /\ EndBatch
    /\ Written(batch)
    /\ UNCHANGED <<time, routerVars, taskVars, flush, phase, calls, faults, historyVars>>

\* A row of one operation fails, and it ends there; the rest is committed.  Or
\* the commit fails.
OperationFails ==
    /\ faults < FAULTS
    /\ faults' = faults + 1
    /\ EndBatch
    /\ \/ Missing(batch) /\ UNCHANGED tableVars
       \/ \E n \in 1 .. Len(batch) :
            \E k \in 1 .. Len(batch[n].rows) :
              LET part(a, b) == [batch[n] EXCEPT !.rows = SubSeq(@, a, b)]
              IN  /\ Missing(<<part(k, Len(batch[n].rows))>>)
                  /\ Written([batch EXCEPT ![n] = part(1, k - 1)])
    /\ UNCHANGED <<time, routerVars, taskVars, flush, phase, calls, crossed>>

(* The start: hydrate_from_storage, while the health checker already probes. *)

\* Mutant of HydrateScores: the quarantines come back, the counters do not.
HydrateQuarantines ==
    /\ phase = "scores"
    /\ until' = [p \in Proxies |->
                   IF scoreRows[p] = NoRow THEN until[p]
                   ELSE IF scoreRows[p].until = 0 THEN 0 ELSE FromUnix(scoreRows[p].until, time)]
    /\ phase' = "pins"
    /\ UNCHANGED <<writerVars, time, folded, fails, affinity, dirty, pins, taskVars, flush,
                   tableVars, calls, faults, historyVars>>

HydrateScores ==
    /\ phase = "scores"
    /\ folded' = [p \in Proxies |-> IF scoreRows[p] = NoRow THEN folded[p]
                                    ELSE scoreRows[p].folded]
    /\ until' = [p \in Proxies |->
                   IF scoreRows[p] = NoRow THEN until[p]
                   ELSE IF scoreRows[p].until = 0 THEN 0 ELSE FromUnix(scoreRows[p].until, time)]
    /\ phase' = "pins"
    /\ UNCHANGED <<writerVars, time, fails, affinity, dirty, pins, taskVars, flush, tableVars,
                   calls, faults, historyVars>>

HydratePins ==
    /\ phase = "pins"
    /\ affinity' = [h \in Hosts |-> IF pinRows[h] = None THEN affinity[h] ELSE pinRows[h]]
    /\ phase' = "up"
    /\ UNCHANGED <<writerVars, time, folded, fails, until, dirty, pins, taskVars, flush,
                   tableVars, calls, faults, historyVars>>

\* A read fails: the run goes on with what it has.
HydrateFails ==
    /\ phase # "up"
    /\ faults < FAULTS
    /\ faults' = faults + 1
    /\ lostScores' = IF phase = "scores" THEN Proxies ELSE lostScores
    /\ lostPins' = Hosts
    /\ phase' = "up"
    /\ UNCHANGED <<writerVars, time, routerVars, taskVars, flush, tableVars, calls, crossed>>

\* The process ends and starts again: what was not written is gone.
Restart ==
    /\ faults < FAULTS
    /\ faults' = faults + 1
    /\ LoseAll
    /\ folded' = [p \in Proxies |-> 0]
    /\ fails' = [p \in Proxies |-> 0]
    /\ until' = [p \in Proxies |-> 0]
    /\ affinity' = [h \in Hosts |-> None]
    /\ dirty' = {}
    /\ pins' = <<>>
    /\ at' = [t \in Tasks |-> "idle"]
    /\ call' = [t \in Tasks |-> NoCall]
    /\ clock' = [t \in Tasks |-> 0]
    /\ todo' = [t \in Tasks |-> {}]
    /\ found' = [t \in Tasks |-> {}]
    /\ sick' = [t \in Tasks |-> {}]
    /\ flush' = NoFlush
    /\ phase' = "scores"
    /\ UNCHANGED <<time, tableVars, calls, historyVars>>

Tick ==
    /\ time < Start + TICKS
    /\ time' = time + 1
    /\ StillSick(until, time')
    /\ UNCHANGED <<writerVars, routerVars, at, call, clock, todo, found, flush, tableVars,
                   phase, calls, faults, historyVars>>

\* The bounds are reached and there is nothing left to do.
Done ==
    /\ calls = CALLS
    /\ time = Start + TICKS
    /\ phase = "up"
    /\ at = [t \in Tasks |-> "idle"]
    /\ dirty = {} /\ pins = <<>> /\ flush = NoFlush
    /\ channel = <<>> /\ batch = <<>>
    /\ UNCHANGED vars

Step(t) ==
    \/ Fold(t) \/ MarkDirty(t) \/ UsePin(t) \/ Scan(t) \/ Choose(t) \/ NoneAlive(t)
    \/ Pin(t) \/ Push(t) \/ Return(t)

Starts(t) ==
    \/ \E p \in Proxies, o \in Outcomes : Record(t, p, o)
    \/ t \in Jobs /\ \E h \in Hosts : Pick(t, h) \/ \E p \in Proxies : BestAlternative(t, h, p)

Writer == WriterTakes \/ Commits \/ OperationFails
Hydrate == HydrateScores \/ HydratePins \/ HydrateFails

Next ==
    \/ \E t \in Tasks : Step(t) \/ Starts(t)
    \/ Flush \/ Writer \/ Hydrate \/ Restart \/ Tick \/ Done

Spec == Init /\ [][Next]_vars

(***************************************************************************)
(* Properties.                                                             *)
(***************************************************************************)

Row == [folded : Nat, until : Int, exact : Int]
Drained == [key : Proxies, value : [folded : Nat, until : Int]]
PinRow == [key : Hosts, value : Proxies]
Op == [kind : {"scores"}, rows : Seq([key : Proxies, value : Row])]
      \cup [kind : {"pins"}, rows : Seq(PinRow)]

\* Types, and a task that pins or returns holds one proxy.
TypeOK ==
    /\ channel \in Seq(Op) /\ Len(channel) <= Capacity
    /\ batch \in Seq(Op) /\ Len(batch) <= MaxBatch
    /\ time \in Nat
    /\ folded \in [Proxies -> Nat]
    /\ fails \in [Proxies -> Nat]
    /\ until \in [Proxies -> Int]
    /\ affinity \in [Hosts -> Proxies \cup {None}]
    /\ dirty \subseteq Proxies
    /\ pins \in Seq(PinRow)
    /\ at \in [Tasks -> {"idle", "fold", "mark", "pinned", "scan", "pin", "push", "done"}]
    /\ call \in [Tasks -> [proxy : Proxies \cup {None}, host : Hosts \cup {None},
                           outcome : Outcomes \cup {None}]]
    /\ clock \in [Tasks -> Nat]
    /\ todo \in [Tasks -> SUBSET Proxies]
    /\ found \in [Tasks -> SUBSET Proxies]
    /\ \A t \in Tasks : at[t] \in {"pin", "push", "done"} => \E p \in Proxies : found[t] = {p}
    /\ sick \in [Tasks -> SUBSET Proxies]
    /\ flush \in [at : {"idle", "drain", "read", "scores", "pins"}, todo : SUBSET Proxies,
                  proxy : Proxies \cup {None}, rows : Seq(Drained), pins : Seq(PinRow)]
    /\ scoreRows \in [Proxies -> Row]
    /\ pinRows \in [Hosts -> Proxies \cup {None}]
    /\ phase \in {"scores", "pins", "up"}
    /\ calls \in 0 .. CALLS
    /\ faults \in 0 .. FAULTS
    /\ lostScores \subseteq Proxies
    /\ lostPins \subseteq Hosts
    /\ crossed \subseteq Hosts

\* What has been handed over and is not written, oldest first.
InFlight(kind, rows) == batch \o channel \o <<[kind |-> kind, rows |-> rows]>>

\* No score in memory is forgotten: once the scores are hydrated, which overwrites
\* what the health checker folded before, and while no write and no read failed, a
\* score that the rows do not have yet is marked, being marked or being read
\* (record_outcome marks after it folds, drain_pending reads after it unmarks).
SavedOrPending ==
    \A p \in Proxies \ lostScores :
        \/ phase = "scores"
        \/ p \in dirty
        \/ flush.proxy = p
        \/ \E t \in Tasks : at[t] = "mark" /\ call[t].proxy = p
        \/ After(scoreRows[p], InFlight("scores", flush.rows), "scores", p).folded = folded[p]

\* The last pin of a host that was pinned by one task at a time is on its way
\* to its row, or there (pick and best_alternative, pending_affinity).
PinsPersisted ==
    \A h \in Hosts \ (lostPins \cup crossed) :
        \/ phase # "up"
        \/ \E t \in Tasks : at[t] = "push" /\ call[t].host = h
        \/ After(pinRows[h], InFlight("pins", flush.pins \o pins), "pins", h) = affinity[h]

\* A proxy that a pick returns was alive at some time during the pick.
NotDeadThroughout == \A t \in Tasks : at[t] = "done" => found[t] \cap sick[t] = {}

\* A row is not replaced by one with fewer outcomes, through restarts and all,
\* unless the rows were not read at the start or a write failed.
SavedNeverGoesBack ==
    [][\A p \in Proxies \ lostScores : scoreRows'[p].folded >= scoreRows[p].folded]_vars

\* A quarantine comes back from its row less than two seconds early, and less
\* than one late or else already over (now_plus_offset_unix, unix_to_instant).
QuarantineSurvives ==
    [][phase = "scores" /\ phase' = "pins" =>
         \A p \in Proxies : scoreRows[p].until # 0 =>
           /\ until'[p] > scoreRows[p].exact - 2 * Second
           /\ until'[p] < scoreRows[p].exact + Second \/ until'[p] <= time]_vars

\* An outcome cuts a quarantine short by no more than the age of the time the
\* caller read before the lock (record_outcome: the longer of two windows is
\* kept, and no window is longer than a challenge's).
QuarantineKept ==
    [][\A t \in Tasks : at[t] = "fold" /\ at'[t] = "mark" =>
         LET p == call[t].proxy
         IN  until'[p] >= until[p] - (time - clock[t])]_vars
====
