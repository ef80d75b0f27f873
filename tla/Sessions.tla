---- MODULE Sessions ----
(***************************************************************************)
(* The lifecycle of browser sessions.  Two maps hold the state of a        *)
(* session: session_states, which the policy reads (src/crawler.rs,        *)
(* handle_challenge and the promotion after a render), and the registry,   *)
(* which operators read and which expires (identity/session_registry.rs).  *)
(* Jobs of the run write both, one map operation at a time; the TTL sweep  *)
(* and the end of the run take entries off the registry and archive them.  *)
(***************************************************************************)
EXTENDS Integers, FiniteSets

CONSTANTS
    Tasks,          \* jobs of the run that are in flight together
    RenderSessions, \* ids of browser sessions
    Http,           \* the one id of every challenge met without a browser
    Signals,        \* challenge signals: a kind of vendor and a level
    ScopeAuto,      \* session_scope_auto
    DropOnBlock,    \* drop_session_on_block
    JOBS,           \* bounds of the model: jobs,
    SWEEPS,         \* runs of the TTL sweep,
    FAULTS          \* archive calls that fail and jobs that are cancelled

Sessions == RenderSessions \cup {Http}
Vendors == {"captcha", "script", "denied"}
Levels == {"suspected", "widget", "page", "hard"}

ASSUME SessionsAssumption ==
    /\ IsFiniteSet(Tasks)
    /\ Http \notin RenderSessions
    /\ Signals \subseteq [vendor : Vendors, level : Levels]
    /\ {ScopeAuto, DropOnBlock} \subseteq BOOLEAN
    /\ {JOBS, SWEEPS, FAULTS} \subseteq Nat

VARIABLES
    states,     \* session_states; a session without an entry is "clean"
    registry,   \* registry[s]: state of the entry, or "none"
    stale,      \* entries nobody has used for their time to live
    scope,      \* render_scope: 0 url, 1 origin, 2 host, 3 registrable domain
    at,         \* at[t]: what job t does next
    session,    \* session[t]: the session it is about
    signal,     \* signal[t]: the challenge it met, if any
    seen,       \* seen[t]: the state it read off session_states
    next,       \* next[t]: the state it decided on
    scopeSeen,  \* scopeSeen[t]: the scope it read
    sweep,      \* the TTL sweep: what it does and the ids it has left
    flush,      \* the end of the run: the same
    jobs, sweeps, faults,
    created,    \* history: created[s], times the registry made an entry,
    archived,   \* archived[s], archive calls that were accepted,
    lost,       \* lost[s], entries whose archive call failed or was cut off,
    evicted,    \* sessions that ever left the registry,
    shared,     \* sessions two jobs ever had in hand at once,
    cut         \* sessions a job was about to evict when it was cancelled

taskVars == <<at, session, signal, seen, next, scopeSeen>>
historyVars == <<created, archived, lost, evicted, shared, cut>>
vars == <<states, registry, stale, scope, taskVars, sweep, flush, jobs, sweeps, faults,
          historyVars>>

NoSignal == [vendor |-> "none", level |-> "none"]
None == "none"
States == {"clean", "warm", "contaminated", "blocked"}
Steps == {"idle", "check", "promote", "warm", "read", "record", "register", "mark", "scope",
          "narrow", "drop", "evict", "archive"}

Rank(s) == CASE s = "clean" -> 0 [] s = "warm" -> 1 [] s = "contaminated" -> 2 [] OTHER -> 3

Init ==
    /\ states = [s \in Sessions |-> "clean"]
    /\ registry = [s \in Sessions |-> "none"]
    /\ stale = {}
    /\ scope = 3
    /\ at = [t \in Tasks |-> "idle"]
    /\ session = [t \in Tasks |-> Http]
    /\ signal = [t \in Tasks |-> NoSignal]
    /\ seen = [t \in Tasks |-> "clean"]
    /\ next = [t \in Tasks |-> "clean"]
    /\ scopeSeen = [t \in Tasks |-> 3]
    /\ sweep = [at |-> "asleep", todo |-> {}, id |-> None]
    /\ flush = [at |-> "run", todo |-> {}, id |-> None]
    /\ jobs = 0
    /\ sweeps = 0
    /\ faults = 0
    /\ created = [s \in Sessions |-> 0]
    /\ archived = [s \in Sessions |-> 0]
    /\ lost = [s \in Sessions |-> 0]
    /\ evicted = {}
    /\ shared = {}
    /\ cut = {}

(* Policy, on values. *)

\* Mutant of AfterChallenge: a weak signal resets a blocked session.
AfterWeak(state, level) ==
    CASE level = "hard" -> "blocked"
      [] level = "suspected" -> "warm"
      [] OTHER -> IF state = "blocked" THEN state ELSE "contaminated"

AfterChallenge(state, level) ==
    IF level = "hard" \/ state = "blocked" THEN "blocked"
    ELSE IF state = "contaminated" \/ level \in {"page", "widget"} THEN "contaminated"
    ELSE "warm"

\* decide_post_challenge, as far as it ends in GiveUp.
GivesUp(sig, state) ==
    \/ sig.level = "hard"
    \/ sig.vendor = "denied"
    \/ sig.vendor = "script" /\ sig.level = "page" /\ state \in {"contaminated", "blocked"}

Decision(sig, state) ==
    IF GivesUp(sig, state) THEN "blocked" ELSE AfterChallenge(state, sig.level)

\* Mutant of NarrowTo: the ranks are not compared.
ScopeFor(wide, level) ==
    CASE level = "hard" -> 0 [] level \in {"page", "widget"} -> 1 [] OTHER -> wide

\* decide_scope on a challenge: the scope to narrow to, or the same again.
NarrowTo(wide, level) ==
    CASE level = "hard" -> 0
      [] level \in {"page", "widget"} /\ wide > 1 -> 1
      [] OTHER -> wide

(* The registry. *)

GetOrCreate(s) ==
    /\ registry' = [registry EXCEPT ![s] = IF @ = "none" THEN "clean" ELSE @]
    /\ created' = [created EXCEPT ![s] = IF registry[s] = "none" THEN @ + 1 ELSE @]
    /\ stale' = stale \ {s}

Mark(s, state) == registry' = [registry EXCEPT ![s] = IF @ = "none" THEN @ ELSE state]

Evict(s) ==
    /\ registry' = [registry EXCEPT ![s] = "none"]
    /\ stale' = stale \ {s}
    /\ evicted' = IF registry[s] = "none" THEN evicted ELSE evicted \cup {s}

\* archive_session, whose failure every caller ignores.
Archive(s) ==
    \/ /\ archived' = [archived EXCEPT ![s] = @ + 1]
       /\ UNCHANGED <<lost, faults>>
    \/ /\ faults < FAULTS
       /\ faults' = faults + 1
       /\ lost' = [lost EXCEPT ![s] = @ + 1]
       /\ UNCHANGED archived

(* Jobs. *)

Go(t, step) == at' = [at EXCEPT ![t] = step]

Finish(t) ==
    /\ Go(t, "idle")
    /\ session' = [session EXCEPT ![t] = Http]
    /\ signal' = [signal EXCEPT ![t] = NoSignal]
    /\ seen' = [seen EXCEPT ![t] = "clean"]
    /\ next' = [next EXCEPT ![t] = "clean"]
    /\ scopeSeen' = [scopeSeen EXCEPT ![t] = 3]

InHand(t, s) == at[t] # "idle" /\ session[t] = s

Take(t, s, sig) ==
    /\ at[t] = "idle"
    /\ flush.at = "run"
    /\ jobs < JOBS
    /\ jobs' = jobs + 1
    /\ session' = [session EXCEPT ![t] = s]
    /\ signal' = [signal EXCEPT ![t] = sig]
    /\ shared' = IF \E u \in Tasks : InHand(u, s) THEN shared \cup {s} ELSE shared
    /\ UNCHANGED <<states, scope, seen, next, scopeSeen, sweep, flush, sweeps, faults,
                   archived, lost, evicted, cut>>

\* A render came back: its session is registered before anything else.
Rendered(t, s, sig) ==
    /\ Take(t, s, sig)
    /\ GetOrCreate(s)
    /\ Go(t, "check")

\* A challenge met without a browser.
Fetched(t, sig) ==
    /\ Take(t, Http, sig)
    /\ Go(t, "read")
    /\ UNCHANGED <<registry, stale, created>>

\* The session is promoted when the state read is clean and no challenge came.
Check(t) ==
    /\ at[t] = "check"
    /\ \/ /\ signal[t] # NoSignal
          /\ Go(t, "read")
          /\ UNCHANGED <<session, signal, seen, next, scopeSeen>>
       \/ /\ signal[t] = NoSignal
          /\ states[session[t]] = "clean"
          /\ Go(t, "promote")
          /\ UNCHANGED <<session, signal, seen, next, scopeSeen>>
       \/ /\ signal[t] = NoSignal
          /\ states[session[t]] # "clean"
          /\ Finish(t)
    /\ UNCHANGED <<states, registry, stale, scope, sweep, flush, jobs, sweeps, faults,
                   historyVars>>

Promote(t) ==
    /\ at[t] = "promote"
    /\ states' = [states EXCEPT ![session[t]] = "warm"]
    /\ Go(t, "warm")
    /\ UNCHANGED <<registry, stale, scope, session, signal, seen, next, scopeSeen, sweep,
                   flush, jobs, sweeps, faults, historyVars>>

MarkWarm(t) ==
    /\ at[t] = "warm"
    /\ Mark(session[t], "warm")
    /\ Finish(t)
    /\ UNCHANGED <<states, stale, scope, sweep, flush, jobs, sweeps, faults, historyVars>>

\* handle_challenge: the state is read before the challenge is recorded,
Read(t) ==
    /\ at[t] = "read"
    /\ seen' = [seen EXCEPT ![t] = states[session[t]]]
    /\ Go(t, "record")
    /\ UNCHANGED <<states, registry, stale, scope, session, signal, next, scopeSeen, sweep,
                   flush, jobs, sweeps, faults, historyVars>>

\* and what follows from it is written after.
Record(t) ==
    /\ at[t] = "record"
    /\ LET state == Decision(signal[t], seen[t])
       IN  /\ next' = [next EXCEPT ![t] = state]
           /\ states' = [states EXCEPT ![session[t]] = state]
    /\ Go(t, "register")
    /\ UNCHANGED <<registry, stale, scope, session, signal, seen, scopeSeen, sweep, flush,
                   jobs, sweeps, faults, historyVars>>

Register(t) ==
    /\ at[t] = "register"
    /\ GetOrCreate(session[t])
    /\ Go(t, "mark")
    /\ UNCHANGED <<states, scope, session, signal, seen, next, scopeSeen, sweep, flush, jobs,
                   sweeps, faults, archived, lost, evicted, shared, cut>>

\* Mutant of MarkNext: the entry takes the state the handler started from.
MarkSeen(t) ==
    /\ at[t] = "mark"
    /\ Mark(session[t], seen[t])
    /\ Go(t, "scope")
    /\ UNCHANGED <<states, stale, scope, session, signal, seen, next, scopeSeen, sweep, flush,
                   jobs, sweeps, faults, historyVars>>

MarkNext(t) ==
    /\ at[t] = "mark"
    /\ Mark(session[t], next[t])
    /\ Go(t, "scope")
    /\ UNCHANGED <<states, stale, scope, session, signal, seen, next, scopeSeen, sweep, flush,
                   jobs, sweeps, faults, historyVars>>

Narrows(t) == ScopeAuto /\ NarrowTo(scope, signal[t].level) # scope

\* Mutant of Drops: the action counts, not the state.
DropsOnGiveUp(t) == DropOnBlock /\ GivesUp(signal[t], seen[t])
Drops(t) == DropOnBlock /\ next[t] = "blocked"

AfterScope(t) ==
    IF Drops(t)
    THEN Go(t, "drop") /\ UNCHANGED <<session, signal, seen, next, scopeSeen>>
    ELSE Finish(t)

\* render_scope is read and decided on under one lock,
ReadScope(t) ==
    /\ at[t] = "scope"
    /\ \/ /\ Narrows(t)
          /\ scopeSeen' = [scopeSeen EXCEPT ![t] = scope]
          /\ Go(t, "narrow")
          /\ UNCHANGED <<session, signal, seen, next>>
       \/ /\ ~Narrows(t)
          /\ AfterScope(t)
    /\ UNCHANGED <<states, registry, stale, scope, sweep, flush, jobs, sweeps, faults,
                   historyVars>>

\* and written under the next.
WriteScope(t) ==
    /\ at[t] = "narrow"
    /\ scope' = NarrowTo(scopeSeen[t], signal[t].level)
    /\ AfterScope(t)
    /\ UNCHANGED <<states, registry, stale, sweep, flush, jobs, sweeps, faults, historyVars>>

\* evict_session: drop_session first, which awaits Chrome,
DropSession(t) ==
    /\ at[t] = "drop"
    /\ Go(t, "evict")
    /\ UNCHANGED <<states, registry, stale, scope, session, signal, seen, next, scopeSeen,
                   sweep, flush, jobs, sweeps, faults, historyVars>>

\* Mutant of EvictBlocked: the entry is taken to be there still.
EvictBlockedThere(t) ==
    /\ at[t] = "evict"
    /\ registry[session[t]] # "none"
    /\ Evict(session[t])
    /\ Go(t, "archive")
    /\ UNCHANGED <<states, scope, session, signal, seen, next, scopeSeen, sweep, flush, jobs,
                   sweeps, faults, created, archived, lost, shared, cut>>

EvictBlocked(t) ==
    /\ at[t] = "evict"
    /\ Evict(session[t])
    /\ IF registry[session[t]] = "none"
       THEN Finish(t)
       ELSE Go(t, "archive") /\ UNCHANGED <<session, signal, seen, next, scopeSeen>>
    /\ UNCHANGED <<states, scope, sweep, flush, jobs, sweeps, faults, created, archived,
                   lost, shared, cut>>

ArchiveBlocked(t) ==
    /\ at[t] = "archive"
    /\ Archive(session[t])
    /\ Finish(t)
    /\ UNCHANGED <<states, registry, stale, scope, sweep, flush, jobs, sweeps, created,
                   evicted, shared, cut>>

\* job_max_runtime_secs ends the job at whatever it awaits: what comes before
\* handle_challenge, record_challenge, drop_session or archive_session.
Cancelled(t) ==
    /\ at[t] \in {"read", "record", "drop", "archive"}
    /\ faults < FAULTS
    /\ faults' = faults + 1
    /\ lost' = IF at[t] = "archive" THEN [lost EXCEPT ![session[t]] = @ + 1] ELSE lost
    /\ cut' = IF at[t] = "drop" THEN cut \cup {session[t]} ELSE cut
    /\ Finish(t)
    /\ UNCHANGED <<states, registry, stale, scope, sweep, flush, jobs, sweeps, created,
                   archived, evicted, shared>>

(* The TTL sweep: spawn_cleanup_task. *)

\* An entry reaches its time to live.
Age(s) ==
    /\ registry[s] # "none"
    /\ s \notin stale
    /\ sweeps < SWEEPS
    /\ stale' = stale \cup {s}
    /\ UNCHANGED <<states, registry, scope, taskVars, sweep, flush, jobs, sweeps, faults,
                   historyVars>>

SweepStarts ==
    /\ sweep.at = "asleep"
    /\ stale # {}
    /\ flush.at # "ended"
    /\ sweeps < SWEEPS
    /\ sweeps' = sweeps + 1
    /\ sweep' = [at |-> "next", todo |-> stale, id |-> None]
    /\ UNCHANGED <<states, registry, stale, scope, taskVars, flush, jobs, faults, historyVars>>

SweepDrops ==
    /\ sweep.at = "next"
    /\ \/ /\ sweep.todo = {}
          /\ sweep' = [at |-> "asleep", todo |-> {}, id |-> None]
       \/ \E s \in sweep.todo :
             sweep' = [at |-> "evict", todo |-> sweep.todo \ {s}, id |-> s]
    /\ UNCHANGED <<states, registry, stale, scope, taskVars, flush, jobs, sweeps, faults,
                   historyVars>>

\* The entry goes, used since or not.
SweepEvicts ==
    /\ sweep.at = "evict"
    /\ Evict(sweep.id)
    /\ sweep' = IF registry[sweep.id] = "none"
                THEN [sweep EXCEPT !.at = "next", !.id = None]
                ELSE [sweep EXCEPT !.at = "archive"]
    /\ UNCHANGED <<states, scope, taskVars, flush, jobs, sweeps, faults, created, archived,
                   lost, shared, cut>>

SweepArchives ==
    /\ sweep.at = "archive"
    /\ Archive(sweep.id)
    /\ sweep' = [sweep EXCEPT !.at = "next", !.id = None]
    /\ UNCHANGED <<states, registry, stale, scope, taskVars, flush, jobs, sweeps, created,
                   evicted, shared, cut>>

Sweep == SweepDrops \/ SweepEvicts \/ SweepArchives

(* The end of the run: flush_sessions_on_run_end. *)

FlushStarts ==
    /\ flush.at = "run"
    /\ \A t \in Tasks : at[t] = "idle"
    /\ flush' = [at |-> "next", todo |-> {s \in Sessions : registry[s] # "none"}, id |-> None]
    /\ UNCHANGED <<states, registry, stale, scope, taskVars, sweep, jobs, sweeps, faults,
                   historyVars>>

\* Mutant of FlushEvicts: the row of the listing is archived, gone or not.
FlushListed ==
    /\ flush.at = "next"
    /\ \E s \in flush.todo :
         /\ Evict(s)
         /\ flush' = [at |-> "archive", todo |-> flush.todo \ {s}, id |-> s]
    /\ UNCHANGED <<states, scope, taskVars, sweep, jobs, sweeps, faults, created, archived,
                   lost, shared, cut>>

FlushEvicts ==
    /\ flush.at = "next"
    /\ \E s \in flush.todo :
         /\ Evict(s)
         /\ flush' = IF registry[s] = "none"
                     THEN [flush EXCEPT !.todo = @ \ {s}]
                     ELSE [at |-> "archive", todo |-> flush.todo \ {s}, id |-> s]
    /\ UNCHANGED <<states, scope, taskVars, sweep, jobs, sweeps, faults, created, archived,
                   lost, shared, cut>>

FlushArchives ==
    /\ flush.at = "archive"
    /\ Archive(flush.id)
    /\ flush' = [flush EXCEPT !.at = "next", !.id = None]
    /\ UNCHANGED <<states, registry, stale, scope, taskVars, sweep, jobs, sweeps, created,
                   evicted, shared, cut>>

\* run returns: the sweep is aborted at whatever it awaits.
RunReturns ==
    /\ flush.at = "next"
    /\ flush.todo = {}
    /\ flush' = [flush EXCEPT !.at = "ended"]
    /\ lost' = IF sweep.at = "archive" THEN [lost EXCEPT ![sweep.id] = @ + 1] ELSE lost
    /\ sweep' = [at |-> "aborted", todo |-> {}, id |-> None]
    /\ UNCHANGED <<states, registry, stale, scope, taskVars, jobs, sweeps, faults, created,
                   archived, evicted, shared, cut>>

Flush == FlushEvicts \/ FlushArchives \/ RunReturns

Step(t) ==
    \/ Check(t) \/ Promote(t) \/ MarkWarm(t) \/ Read(t) \/ Record(t) \/ Register(t)
    \/ MarkNext(t) \/ ReadScope(t) \/ WriteScope(t) \/ DropSession(t) \/ EvictBlocked(t)
    \/ ArchiveBlocked(t)

Ended == flush.at = "ended" /\ UNCHANGED vars

Next ==
    \/ \E t \in Tasks : Step(t) \/ Cancelled(t) \/ \E sig \in Signals : Fetched(t, sig)
    \/ \E t \in Tasks, s \in RenderSessions, sig \in Signals \cup {NoSignal} : Rendered(t, s, sig)
    \/ \E s \in Sessions : Age(s)
    \/ SweepStarts \/ Sweep
    \/ FlushStarts \/ Flush
    \/ Ended

Spec == Init /\ [][Next]_vars

\* Jobs and the two background passes run on; when the run ends is the run
\* loop's affair.
Runs(t) == WF_vars(Step(t))

JobsRun == \A t \in Tasks : Runs(t)

Fairness ==
    /\ JobsRun
    /\ WF_vars(Sweep)
    /\ WF_vars(Flush)

FairSpec == Spec /\ Fairness

(* Properties. *)

TypeOK ==
    /\ states \in [Sessions -> States]
    /\ registry \in [Sessions -> States \cup {"none"}]
    /\ stale \subseteq {s \in Sessions : registry[s] # "none"}
    /\ scope \in 0 .. 3
    /\ at \in [Tasks -> Steps]
    /\ session \in [Tasks -> Sessions]
    /\ signal \in [Tasks -> Signals \cup {NoSignal}]
    /\ seen \in [Tasks -> States]
    /\ next \in [Tasks -> States]
    /\ scopeSeen \in [Tasks -> 0 .. 3]
    /\ sweep \in [at : {"asleep", "next", "evict", "archive", "aborted"},
                  todo : SUBSET Sessions, id : Sessions \cup {None}]
    /\ flush \in [at : {"run", "next", "archive", "ended"},
                  todo : SUBSET Sessions, id : Sessions \cup {None}]
    /\ sweep.at \in {"evict", "archive"} => sweep.id \in Sessions
    /\ flush.at = "archive" => flush.id \in Sessions
    /\ {jobs, sweeps, faults} \subseteq Nat
    /\ created \in [Sessions -> Nat]
    /\ archived \in [Sessions -> Nat]
    /\ lost \in [Sessions -> Nat]
    /\ evicted \subseteq Sessions
    /\ shared \subseteq Sessions
    /\ cut \subseteq Sessions

\* "Monotonic transition" (antibot/mod.rs:187): a session falls back to a
\* milder state only by a job that read its state before another changed it.
StateOnlyRises ==
    [][\A s \in Sessions : Rank(states'[s]) < Rank(states[s]) => s \in shared]_states

\* session_scope_auto only narrows: the scope widens only by a job that read
\* it before another job narrowed it.
ScopeOnlyNarrows ==
    [][scope' > scope => \E t \in Tasks : at[t] = "narrow" /\ scopeSeen[t] # scope]_scope

\* drop_session_on_block: a blocked entry leaves the registry.  It is left
\* there by a job that is done with it only if that job was cancelled,
BlockedIsTaken ==
    DropOnBlock => \A s \in Sessions \ cut : registry[s] = "blocked" =>
        \E t \in Tasks : InHand(t, s) /\ next[t] = "blocked"
                         /\ at[t] \in {"scope", "narrow", "drop", "evict"}

\* no job is ever stuck, although the sweep or the end of the run may take the
\* entry away at any of its steps,
JobsGoOn == \A t \in Tasks : at[t] # "idle" => ENABLED <<Step(t)>>_vars

\* and it goes in the end, whatever else happens to the session.
BlockedIsEvicted ==
    DropOnBlock => \A s \in Sessions :
        registry[s] = "blocked" ~> registry[s] # "blocked" \/ s \in cut

Archiving(s) ==
    Cardinality({t \in Tasks : at[t] = "archive" /\ session[t] = s})
    + (IF sweep.at = "archive" /\ sweep.id = s THEN 1 ELSE 0)
    + (IF flush.at = "archive" /\ flush.id = s THEN 1 ELSE 0)

\* Every entry the registry made is in the registry, being archived, archived
\* by one accepted call, or lost to a failed or aborted one: the sweep, the end
\* of the run and the handling of a block may all be after the same entry.  A
\* run that returns leaves no entry behind.
ArchivedOnce ==
    \A s \in Sessions :
        /\ created[s] = archived[s] + lost[s] + Archiving(s)
                        + (IF registry[s] = "none" THEN 0 ELSE 1)
        /\ flush.at = "ended" => registry[s] = "none"

\* The two maps agree on a session that never left the registry and that no
\* two jobs ever had in hand together, once the last job is done with it.
MapsAgree ==
    \A s \in Sessions \ (evicted \cup shared) :
        (\A t \in Tasks : ~InHand(t, s)) =>
            states[s] = IF registry[s] = "none" THEN "clean" ELSE registry[s]
====
