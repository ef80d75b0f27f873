---- MODULE RenderPool ----
(***************************************************************************)
(* Renders over shared browsers (src/render/pool.rs, the acquisition and   *)
(* release in render_core) and the page pool below them.  A render (one of *)
(* Tasks, the permits of the semaphore) finds or launches the browser of   *)
(* its proxy, finds or creates the browser context of its session, and     *)
(* rents a tab.  Browsers beyond max_browsers are evicted by whoever       *)
(* launches the next one; sessions are dropped by the TTL sweep and by the *)
(* handling of challenges, while renders are under way.  One step is what  *)
(* a task does between two awaits, two locks or two atomic operations.     *)
(***************************************************************************)
EXTENDS PagePool

CONSTANTS
    Droppers,       \* tasks that call drop_session
    Browsers,       \* browser keys: one per proxy
    Sessions,       \* session ids
    MaxBrowsers,    \* max_browsers
    RENDERS,        \* bounds of the model: renders begun, a fault counts as one,
    FAULTS          \* calls of drop_session and Chrome processes that die

ASSUME RenderAssumption ==
    /\ Keys = Browsers \X Sessions
    /\ IsFiniteSet(Tasks)
    /\ MaxBrowsers \in Nat \ {0}
    /\ {RENDERS, FAULTS} \subseteq Nat

VARIABLES
    at,         \* at[t]: what task t does next
    key,        \* key[t]: the browser and session it renders in
    inst,       \* inst[t]: the browser instance it holds, 0 for none
    ctx,        \* ctx[t]: the context it found or created
    lock,       \* lock[t]: generation of the lock it holds or waits for
    victim,     \* victim[t]: the browser key it is evicting
    page,       \* page[t]: the tab it holds
    browsers,   \* browsers[b]: instance registered under key b, 0 for none
    mru,        \* browser keys, the last launched first
    browserGen, \* a lock of browser_locks is its key and this generation
    contexts,   \* contexts[k]: context registered under key k, 0 for none
    contextGen, \* the same for context_locks
    home,       \* home[i]: the browser key instance i was launched for
    watched,    \* instances with a shim watcher: it holds the browser, and
                \* ends when Chrome no longer answers
    owner,      \* owner[c]: the key and the instance context c was created with
    live,       \* contexts Chrome has not disposed of
    drop,       \* drop[d]: the call of drop_session that d is in
    renders, faults, pages, \* how many were begun, happened, were opened
    sweep,      \* context keys of the browser that is being evicted: those
                \* whose tabs are still to go, and the one whose counter is
    evicted,    \* history: browser keys that were evicted,
    dropped,    \* sessions for which drop_session was called,
    leaked      \* leaked[k]: tabs counted and lost before a lease held them

taskVars == <<at, key, inst, ctx, lock, victim, page>>
browserVars == <<browsers, mru, browserGen, home, watched, sweep, evicted>>
contextVars == <<contexts, contextGen, owner, live>>
dropVars == <<drop, dropped>>
countVars == <<renders, faults, pages, leaked>>
vars == <<poolVars, taskVars, browserVars, contextVars, dropVars, countVars>>

Launching == {"launch", "book", "forget", "prune"}  \* holding the launch lock
Leasing == {"reset", "install", "leased"}           \* counted in flight
Steps == {"idle", "browser", "launchlock", "context", "ctxlock", "create", "acquire",
          "open", "register", "stash"} \cup Launching \cup Leasing

NoKey == <<>>
NoDrop == [at |-> "off", session |-> "none", todo |-> {}, key |-> NoKey, ctx |-> 0, inst |-> 0]
NoSweep == [todo |-> {}, key |-> NoKey]

B(t) == key[t][1]
Registered == {b \in Browsers : browsers[b] # 0}
Go(t, s) == at' = [at EXCEPT ![t] = s]
Set(f, t, v) == [f EXCEPT ![t] = v]

Init ==
    /\ PoolInit
    /\ at = [t \in Tasks |-> "idle"]
    /\ key = [t \in Tasks |-> NoKey]
    /\ inst = [t \in Tasks |-> 0]
    /\ ctx = [t \in Tasks |-> 0]
    /\ lock = [t \in Tasks |-> 0]
    /\ victim = [t \in Tasks |-> NoKey]
    /\ page = [t \in Tasks |-> NoPage]
    /\ browsers = [b \in Browsers |-> 0]
    /\ mru = <<>>
    /\ browserGen = [b \in Browsers |-> 0]
    /\ contexts = [k \in Keys |-> 0]
    /\ contextGen = [k \in Keys |-> 0]
    /\ home = <<>>
    /\ watched = {}
    /\ owner = <<>>
    /\ live = {}
    /\ drop = [d \in Droppers |-> NoDrop]
    /\ renders = 0
    /\ faults = 0
    /\ pages = 0
    /\ sweep = NoSweep
    /\ evicted = {}
    /\ dropped = {}
    /\ leaked = [k \in Keys |-> 0]

(* The browser of a proxy: ensure_browser. *)

Begin(t, k) ==
    /\ at[t] = "idle"
    /\ renders + faults < RENDERS
    /\ renders' = renders + 1
    /\ key' = Set(key, t, k)
    /\ Go(t, "browser")
    /\ UNCHANGED <<poolVars, inst, ctx, lock, victim, page, browserVars, contextVars,
                   dropVars, faults, pages, leaked>>

\* The render is over, by success or by an error: what the task held is gone.
Finish(t) ==
    /\ Go(t, "idle")
    /\ key' = Set(key, t, NoKey)
    /\ inst' = Set(inst, t, 0)
    /\ ctx' = Set(ctx, t, 0)
    /\ lock' = Set(lock, t, 0)
    /\ victim' = Set(victim, t, NoKey)
    /\ page' = Set(page, t, NoPage)

HoldBrowser(t) ==
    /\ inst' = Set(inst, t, browsers[B(t)])
    /\ lock' = Set(lock, t, 0)
    /\ Go(t, "context")

FindBrowser(t) ==
    /\ at[t] = "browser"
    /\ \/ /\ B(t) \in Registered
          /\ HoldBrowser(t)
       \/ /\ B(t) \notin Registered
          /\ Go(t, "launchlock")
          /\ lock' = Set(lock, t, browserGen[B(t)])
          /\ UNCHANGED inst
    /\ UNCHANGED <<poolVars, key, ctx, victim, page, browserVars, contextVars, dropVars,
                   countVars>>

LaunchLockFree(t) ==
    \A u \in Tasks : ~ (at[u] \in Launching /\ B(u) = B(t) /\ lock[u] = lock[t])

\* Mutant of LockBrowser: the registry is not looked at again under the lock.
LockBrowserBlind(t) ==
    /\ at[t] = "launchlock"
    /\ LaunchLockFree(t)
    /\ Go(t, "launch")
    /\ UNCHANGED <<poolVars, key, inst, lock, ctx, victim, page, browserVars, contextVars,
                   dropVars, countVars>>

LockBrowser(t) ==
    /\ at[t] = "launchlock"
    /\ LaunchLockFree(t)
    /\ \/ B(t) \in Registered /\ HoldBrowser(t)
       \/ B(t) \notin Registered /\ Go(t, "launch") /\ UNCHANGED <<inst, lock>>
    /\ UNCHANGED <<poolVars, key, ctx, victim, page, browserVars, contextVars, dropVars,
                   countVars>>

\* Chrome is up: its watcher holds it before the registry does.
Launch(t) ==
    /\ at[t] = "launch"
    /\ home' = Append(home, B(t))
    /\ watched' = watched \cup {Len(home')}
    /\ browsers' = [browsers EXCEPT ![B(t)] = Len(home')]
    /\ inst' = Set(inst, t, Len(home'))
    /\ Go(t, "book")
    /\ UNCHANGED <<poolVars, key, ctx, lock, victim, page, mru, browserGen, sweep, evicted,
                   contextVars, dropVars, countVars>>

LaunchFails(t) ==
    /\ at[t] = "launch"
    /\ Finish(t)
    /\ UNCHANGED <<poolVars, browserVars, contextVars, dropVars, countVars>>

InMru(b) == \E n \in 1 .. Len(mru) : mru[n] = b

\* b leaves the place it has in mru, if any, and comes first.
Front(b) ==
    LET place == CHOOSE n \in 1 .. Len(mru) : mru[n] = b
        len == IF InMru(b) THEN Len(mru) ELSE Len(mru) + 1
    IN  [n \in 1 .. len |->
          IF n = 1 THEN b ELSE IF InMru(b) /\ n > place THEN mru[n] ELSE mru[n - 1]]

\* Mutant of Unregister: the key leaves the mru list alone.
KeepRegistered(b) == browsers
Unregister(b) == [browsers EXCEPT ![b] = 0]

\* The mru lock is taken, the key booked, and the last one beyond the cap
\* taken off both registries.  mru exceeds the cap by one at most, so the
\* loop has one round.
Book(t) ==
    /\ at[t] = "book"
    /\ \A u \in Tasks : at[u] \notin {"forget", "prune"}
    /\ LET all == Front(B(t))
           old == all[Len(all)]
           over == Len(all) > MaxBrowsers
       IN  /\ mru' = IF over THEN SubSeq(all, 1, Len(all) - 1) ELSE all
           /\ IF over /\ browsers[old] # 0
              THEN /\ browsers' = Unregister(old)
                   /\ evicted' = evicted \cup {old}
                   /\ victim' = Set(victim, t, old)
                   /\ Go(t, "forget")
                   /\ UNCHANGED lock
              ELSE /\ lock' = Set(lock, t, 0)
                   /\ Go(t, "context")
                   /\ UNCHANGED <<browsers, evicted, victim>>
    /\ UNCHANGED <<poolVars, key, inst, ctx, page, browserGen, home, watched, sweep,
                   contextVars, dropVars, countVars>>

KeysOf(b) == {k \in Keys : k[1] = b}

\* A caller of try_acquire keeps the idle lock while it counts the tab.
IdleFree == \A u \in Tasks : ~ (at[u] = "acquire" /\ arc[u] # NoCounter)

\* The launch lock of the evicted browser goes, and its contexts are listed.
Forget(t) ==
    /\ at[t] = "forget"
    /\ browserGen' = [browserGen EXCEPT ![victim[t]] = @ + 1]
    /\ sweep' = [NoSweep EXCEPT !.todo = {k \in KeysOf(victim[t]) : contexts[k] # 0}]
    /\ Go(t, "prune")
    /\ UNCHANGED <<poolVars, key, inst, ctx, lock, victim, page, browsers, mru, home, watched,
                   evicted, contextVars, dropVars, countVars>>

\* One context of the list: its tabs go,
SweepIdle(t) ==
    /\ at[t] = "prune"
    /\ sweep.key = NoKey
    /\ IdleFree
    /\ \E k \in sweep.todo :
         /\ DropIdle(k)
         /\ sweep' = [todo |-> sweep.todo \ {k}, key |-> k]
    /\ UNCHANGED <<taskVars, browsers, mru, browserGen, home, watched, evicted, contextVars,
                   dropVars, countVars>>

\* and its counter.
SweepCounter(t) ==
    /\ at[t] = "prune"
    /\ sweep.key # NoKey
    /\ RemoveCounter(sweep.key)
    /\ sweep' = [sweep EXCEPT !.key = NoKey]
    /\ UNCHANGED <<taskVars, browsers, mru, browserGen, home, watched, evicted, contextVars,
                   dropVars, countVars>>

\* Then its contexts and their locks; Chrome is not told.
Prune(t) ==
    /\ at[t] = "prune"
    /\ sweep = NoSweep
    /\ contexts' = [k \in Keys |-> IF k \in KeysOf(victim[t]) THEN 0 ELSE contexts[k]]
    /\ contextGen' = [k \in Keys |-> IF k \in KeysOf(victim[t]) THEN contextGen[k] + 1
                                     ELSE contextGen[k]]
    /\ victim' = Set(victim, t, NoKey)
    /\ lock' = Set(lock, t, 0)
    /\ Go(t, "context")
    /\ UNCHANGED <<poolVars, key, inst, ctx, page, browserVars, owner, live,
                   dropVars, countVars>>

(* The context of a session: ensure_session_context. *)

HoldContext(t) ==
    /\ ctx' = Set(ctx, t, contexts[key[t]])
    /\ lock' = Set(lock, t, 0)
    /\ Go(t, "acquire")

FindContext(t) ==
    /\ at[t] = "context"
    /\ \/ /\ contexts[key[t]] # 0
          /\ HoldContext(t)
       \/ /\ contexts[key[t]] = 0
          /\ Go(t, "ctxlock")
          /\ lock' = Set(lock, t, contextGen[key[t]])
          /\ UNCHANGED ctx
    /\ UNCHANGED <<poolVars, key, inst, victim, page, browserVars, contextVars, dropVars,
                   countVars>>

ContextLockFree(t) ==
    \A u \in Tasks : ~ (at[u] = "create" /\ key[u] = key[t] /\ lock[u] = lock[t])

\* Mutant of LockContext: two tasks may be past the lock.
LockContextOpen(t) ==
    /\ at[t] = "ctxlock"
    /\ \/ contexts[key[t]] # 0 /\ HoldContext(t)
       \/ contexts[key[t]] = 0 /\ Go(t, "create") /\ UNCHANGED <<ctx, lock>>
    /\ UNCHANGED <<poolVars, key, inst, victim, page, browserVars, contextVars, dropVars,
                   countVars>>

LockContext(t) ==
    /\ at[t] = "ctxlock"
    /\ ContextLockFree(t)
    /\ \/ contexts[key[t]] # 0 /\ HoldContext(t)
       \/ contexts[key[t]] = 0 /\ Go(t, "create") /\ UNCHANGED <<ctx, lock>>
    /\ UNCHANGED <<poolVars, key, inst, victim, page, browserVars, contextVars, dropVars,
                   countVars>>

CreateContext(t) ==
    /\ at[t] = "create"
    /\ inst[t] \in watched
    /\ owner' = Append(owner, [key |-> key[t], inst |-> inst[t]])
    /\ live' = live \cup {Len(owner')}
    /\ contexts' = [contexts EXCEPT ![key[t]] = Len(owner')]
    /\ ctx' = Set(ctx, t, Len(owner'))
    /\ lock' = Set(lock, t, 0)
    /\ Go(t, "acquire")
    /\ UNCHANGED <<poolVars, key, inst, victim, page, browserVars, contextGen,
                   dropVars, countVars>>

ContextFails(t) ==
    /\ at[t] = "create"
    /\ Finish(t)
    /\ UNCHANGED <<poolVars, browserVars, contextVars, dropVars, countVars>>

(* A tab: the acquisition block of render_core. *)

\* The counter is looked up, by a caller of try_acquire that has found a tab
\* or by one that will give a tab back.
Fetch(t) ==
    /\ \/ at[t] \in {"reset", "leased"}
       \/ /\ at[t] = "acquire"
          /\ IdleFree
          /\ \E n \in 1 .. Len(idle[key[t]]) : ~WornOut(idle[key[t]][n])
    /\ CountersFor(t, key[t])
    /\ UNCHANGED <<taskVars, browserVars, contextVars, dropVars, countVars>>

TakeIdle(t, n) ==
    /\ at[t] = "acquire"
    /\ TryAcquire(t, key[t], n)
    /\ page' = Set(page, t, Lent(idle[key[t]][n]))
    /\ Go(t, "reset")
    /\ UNCHANGED <<key, inst, ctx, lock, victim, browserVars, contextVars, dropVars, countVars>>

NoIdle(t) ==
    /\ at[t] = "acquire"
    /\ IdleFree
    /\ AcquireNone(key[t])
    /\ Go(t, "open")
    /\ UNCHANGED <<key, inst, ctx, lock, victim, page, browserVars, contextVars, dropVars,
                   countVars>>

\* The lent tab is sent to about:blank; a tab of a context that is gone fails.
ResetOk(t) ==
    /\ at[t] = "reset"
    /\ arc[t] = NoCounter
    /\ page[t].ctx \in live
    /\ Go(t, "leased")
    /\ UNCHANGED <<poolVars, key, inst, ctx, lock, victim, page, browserVars, contextVars,
                   dropVars, countVars>>

ResetFails(t) ==
    /\ at[t] = "reset"
    /\ Uncount(t)
    /\ page' = Set(page, t, NoPage)
    /\ Go(t, "open")
    /\ UNCHANGED <<key, inst, ctx, lock, victim, browserVars, contextVars, dropVars, countVars>>

\* A new tab, in the context the task holds: the instance must still run it.
\* Its counter is looked up,
Open(t) ==
    /\ at[t] = "open"
    /\ ctx[t] \in live
    /\ owner[ctx[t]].inst = inst[t]
    /\ pages' = pages + 1
    /\ page' = Set(page, t, [id |-> pages', ctx |-> ctx[t], uses |-> 1])
    /\ CountersFor(t, key[t])
    /\ Go(t, "register")
    /\ UNCHANGED <<key, inst, ctx, lock, victim, browserVars, contextVars, dropVars, renders,
                   faults, leaked>>

\* and bumped: register_fresh.
RegisterFresh(t) ==
    /\ at[t] = "register"
    /\ CountFresh(t)
    /\ Go(t, "install")
    /\ UNCHANGED <<key, inst, ctx, lock, victim, page, browserVars, contextVars, dropVars,
                   countVars>>

OpenFails(t) ==
    /\ at[t] = "open"
    /\ Finish(t)
    /\ UNCHANGED <<poolVars, browserVars, contextVars, dropVars, countVars>>

InstallOk(t) ==
    /\ at[t] = "install"
    /\ Go(t, "leased")
    /\ UNCHANGED <<poolVars, key, inst, ctx, lock, victim, page, browserVars, contextVars,
                   dropVars, countVars>>

\* `?` between register_fresh and PageLease::new, or a job that is cancelled
\* before the lease is made: nothing takes the count back.
LosesPage(t) ==
    /\ at[t] \in {"reset", "install"}
    /\ arc[t] = NoCounter
    /\ leaked' = [leaked EXCEPT ![key[t]] = @ + 1]
    /\ Finish(t)
    /\ UNCHANGED <<poolVars, browserVars, contextVars, dropVars, renders, faults, pages>>

\* release_dirty, the Drop of a lease that an error abandons, and
\* release_clean of a tab that is worn out or too old.
ReleaseDirty(t) ==
    /\ at[t] = "leased"
    /\ Uncount(t)
    /\ Finish(t)
    /\ UNCHANGED <<browserVars, contextVars, dropVars, countVars>>

\* release_clean of any other tab: the decrement,
ReleaseClean(t) ==
    /\ at[t] = "leased"
    /\ ~WornOut(page[t])
    /\ Uncount(t)
    /\ Go(t, "stash")
    /\ UNCHANGED <<key, inst, ctx, lock, victim, page, browserVars, contextVars, dropVars,
                   countVars>>

\* and back into the queue, whatever has become of the context meanwhile.
StashPage(t) ==
    /\ at[t] = "stash"
    /\ IdleFree
    /\ Stash(key[t], page[t])
    /\ Finish(t)
    /\ UNCHANGED <<browserVars, contextVars, dropVars, countVars>>

\* The job is cancelled where it holds nothing.  Later on LaunchFails,
\* ContextFails, LosesPage, OpenFails and ReleaseDirty do what a cancellation does.
Cancelled(t) ==
    /\ at[t] \in {"browser", "launchlock", "context", "ctxlock"}
    /\ Finish(t)
    /\ UNCHANGED <<poolVars, browserVars, contextVars, dropVars, countVars>>

(* drop_session. *)

StartDrop(d, s) ==
    /\ drop[d].at = "off"
    /\ faults < FAULTS
    /\ faults' = faults + 1
    /\ dropped' = dropped \cup {s}
    /\ drop' = [drop EXCEPT ![d] =
                 [NoDrop EXCEPT !.at = "next", !.session = s,
                   !.todo = {<<k, contexts[k]>> : k \in {l \in Keys : l[2] = s /\ contexts[l] # 0}}]]
    /\ UNCHANGED <<poolVars, taskVars, browserVars, contextVars, renders, pages, leaked>>

\* One context of the list: its tabs go,
DropPages(d) ==
    /\ drop[d].at = "next"
    /\ IdleFree
    /\ \E e \in drop[d].todo :
         /\ DropIdle(e[1])
         /\ drop' = [drop EXCEPT ![d].at = "counter",
                                 ![d].todo = @ \ {e},
                                 ![d].key = e[1],
                                 ![d].ctx = e[2]]
    /\ UNCHANGED <<taskVars, browserVars, contextVars, dropped, countVars>>

\* then its counter, and its browser is looked up.
DropCounter(d) ==
    /\ drop[d].at = "counter"
    /\ RemoveCounter(drop[d].key)
    /\ LET b == drop[d].key[1]
       IN  drop' = [drop EXCEPT ![d].at = IF b \in Registered THEN "dispose" ELSE "forget",
                                ![d].inst = browsers[b]]
    /\ UNCHANGED <<taskVars, browserVars, contextVars, dropped, countVars>>

\* Chrome disposes of the context, or the call fails: it does so for a
\* context of another instance.
Dispose(d) ==
    /\ drop[d].at = "dispose"
    /\ drop' = [drop EXCEPT ![d].at = "forget"]
    /\ \/ /\ owner[drop[d].ctx].inst = drop[d].inst
          /\ live' = live \ {drop[d].ctx}
       \/ UNCHANGED live
    /\ UNCHANGED <<poolVars, taskVars, browserVars, contexts, contextGen, owner, dropped,
                   countVars>>

ForgetContext(d) ==
    /\ drop[d].at = "forget"
    /\ contexts' = [contexts EXCEPT ![drop[d].key] = 0]
    /\ contextGen' = [contextGen EXCEPT ![drop[d].key] = @ + 1]
    /\ drop' = [drop EXCEPT ![d].at = "next", ![d].key = NoKey, ![d].ctx = 0, ![d].inst = 0]
    /\ UNCHANGED <<poolVars, taskVars, browserVars, owner, live, dropped, countVars>>

EndDrop(d) ==
    /\ drop[d].at = "next"
    /\ drop[d].todo = {}
    /\ drop' = [drop EXCEPT ![d] = NoDrop]
    /\ UNCHANGED <<poolVars, taskVars, browserVars, contextVars, dropped, countVars>>

\* A Chrome process dies: its watcher ends, its registry entry stays.
ChromeDies(i) ==
    /\ faults < FAULTS
    /\ faults' = faults + 1
    /\ watched' = watched \ {i}
    /\ live' = {c \in live : owner[c].inst # i}
    /\ UNCHANGED <<poolVars, taskVars, browsers, mru, browserGen, home, sweep, evicted, contexts,
                   contextGen, owner, dropVars, renders, pages, leaked>>

Step(t) ==
    \/ FindBrowser(t) \/ LockBrowser(t) \/ Launch(t) \/ LaunchFails(t)
    \/ Book(t) \/ Forget(t) \/ SweepIdle(t) \/ SweepCounter(t) \/ Prune(t)
    \/ FindContext(t) \/ LockContext(t) \/ CreateContext(t) \/ ContextFails(t)
    \/ Fetch(t) \/ \E n \in 1 .. MaxPages : TakeIdle(t, n)
    \/ NoIdle(t) \/ ResetOk(t) \/ ResetFails(t)
    \/ Open(t) \/ RegisterFresh(t) \/ OpenFails(t) \/ InstallOk(t) \/ LosesPage(t)
    \/ ReleaseDirty(t) \/ ReleaseClean(t) \/ StashPage(t) \/ Cancelled(t)

DropStep(d) == DropPages(d) \/ DropCounter(d) \/ Dispose(d) \/ ForgetContext(d) \/ EndDrop(d)

Done ==
    /\ \A t \in Tasks : at[t] = "idle"
    /\ \A d \in Droppers : drop[d].at = "off"
    /\ renders + faults >= RENDERS
    /\ UNCHANGED vars

Next ==
    \/ \E t \in Tasks : Step(t) \/ \E k \in Keys : Begin(t, k)
    \/ \E d \in Droppers : DropStep(d) \/ \E s \in Sessions : StartDrop(d, s)
    \/ \E i \in watched : ChromeDies(i)
    \/ Done

Spec == Init /\ [][Next]_vars

(* Properties. *)

TypeOK ==
    /\ PoolTypeOK
    /\ at \in [Tasks -> Steps]
    /\ key \in [Tasks -> Keys \cup {NoKey}]
    /\ inst \in [Tasks -> Nat]
    /\ ctx \in [Tasks -> Nat]
    /\ lock \in [Tasks -> Nat]
    /\ victim \in [Tasks -> Browsers \cup {NoKey}]
    /\ page \in [Tasks -> Page]
    /\ browsers \in [Browsers -> 0 .. Len(home)]
    /\ mru \in Seq(Browsers)
    /\ browserGen \in [Browsers -> Nat]
    /\ contexts \in [Keys -> 0 .. Len(owner)]
    /\ contextGen \in [Keys -> Nat]
    /\ home \in Seq(Browsers)
    /\ watched \subseteq 1 .. Len(home)
    /\ sweep \in [todo : SUBSET Keys, key : Keys \cup {NoKey}]
    /\ owner \in Seq([key : Keys, inst : Nat])
    /\ live \subseteq 1 .. Len(owner)
    /\ drop \in [Droppers -> [at : {"off", "next", "counter", "dispose", "forget"},
                             session : Sessions \cup {NoDrop.session},
                             todo : SUBSET (Keys \X Nat), key : Keys \cup {NoKey},
                             ctx : Nat, inst : Nat]]
    /\ {renders, faults, pages} \subseteq Nat
    /\ evicted \subseteq Browsers
    /\ dropped \subseteq Sessions
    /\ leaked \in [Keys -> Nat]

HasPage == {"reset", "register", "install", "leased", "stash"}

\* A tab is in one place: with one render, or once in one queue of idle tabs
\* (PageLease, page_pool.rs:252-308; try_acquire and release).
PageHeldOnce ==
    /\ \A t, u \in Tasks :
         at[t] \in HasPage /\ at[u] \in HasPage /\ t # u => page[t].id # page[u].id
    /\ \A t \in Tasks, k \in Keys : \A n \in 1 .. Len(idle[k]) :
         at[t] \in HasPage => idle[k][n].id # page[t].id
    /\ \A k, l \in Keys : \A m \in 1 .. Len(idle[k]), n \in 1 .. Len(idle[l]) :
         <<k, m>> # <<l, n>> => idle[k][m].id # idle[l][n].id

\* A render only ever holds a tab of its own proxy and session; and while
\* nobody evicted the browser or dropped the session, the tab is in the very
\* context the render found, so that its cookies are the session's.
OwnContext ==
    \A t \in Tasks : at[t] \in HasPage =>
        /\ page[t].ctx \in 1 .. Len(owner)
        /\ owner[page[t].ctx].key = key[t]
        /\ B(t) \notin evicted /\ key[t][2] \notin dropped => page[t].ctx = ctx[t]

\* No queue outgrows max_pages_per_context, and no idle tab is used up.
IdleReusable ==
    \A k \in Keys : /\ Len(idle[k]) <= MaxPages
                    /\ \A n \in 1 .. Len(idle[k]) : ~WornOut(idle[k][n])

Leases(k) == {t \in Tasks : at[t] \in Leasing /\ key[t] = k}

\* The in-flight counter of a context never claims more than the tabs that
\* are out and those lost before a lease held them; and while nobody evicted
\* the browser or dropped the session it counts exactly these.  After that it
\* may fall short, and below zero: a lease takes one off the counter there is
\* when it ends, whichever counter it was booked on.
CountsBalance ==
    \A k \in Keys :
        LET out == Cardinality(Leases(k)) + leaked[k]
        IN  /\ inFlight[k] <= out
            /\ k[1] \notin evicted /\ k[2] \notin dropped => inFlight[k] = out

\* Every registered browser can be evicted: it is in the mru list, or the
\* task that launched it has yet to book it.  So Chrome processes in the
\* registry beyond max_browsers are those just being launched.
RegisteredIsTracked ==
    /\ \A b \in Registered : InMru(b) \/ \E t \in Tasks : at[t] = "book" /\ B(t) = b
    /\ Len(mru) <= MaxBrowsers
    /\ \A m, n \in 1 .. Len(mru) : mru[m] = mru[n] => m = n

\* "so we don't spawn Chrome twice": a key that was never evicted launched one
\* browser, and a key neither evicted nor dropped has one context.
OncePerKey ==
    /\ \A i, j \in 1 .. Len(home) : home[i] = home[j] /\ home[i] \notin evicted => i = j
    /\ \A c, e \in 1 .. Len(owner) :
         owner[c].key = owner[e].key /\ owner[c].key[1] \notin evicted
             /\ owner[c].key[2] \notin dropped => c = e

\* The comment at pool.rs:1654: the Chrome process of an evicted browser is
\* released when the last render that uses it finishes.
EvictedIsReleased ==
    \A i \in 1 .. Len(home) :
        browsers[home[i]] # i /\ (\A t \in Tasks : inst[t] # i) => i \notin watched

(* The lease of a tab, as the page pool promises it. *)

Drives(t, p) == at[t] \in HasPage /\ page[t].id = p
Queued(k, p) == \E n \in 1 .. Len(idle[k]) : idle[k][n].id = p

LentTo(t) == [place |-> "lent", to |-> t, key |-> key[t], uses |-> page[t].uses]
IdleAt(k, n) == [place |-> "idle", key |-> k, uses |-> idle[k][n].uses]
Gone == [place |-> "closed"]

\* How a tab reads in the abstract lease.
TabOf(p) ==
    IF \E t \in Tasks : Drives(t, p) THEN LentTo(CHOOSE t \in Tasks : Drives(t, p))
    ELSE IF \E k \in Keys : Queued(k, p)
    THEN LET k == CHOOSE l \in Keys : Queued(l, p)
         IN  IdleAt(k, CHOOSE n \in 1 .. Len(idle[k]) : idle[k][n].id = p)
    ELSE Gone

\* Renders, evictions and dropped sessions implement it.
Tabs == INSTANCE TabLease WITH tabs <- [p \in 1 .. pages |-> TabOf(p)]
ImplementsTabLease == Tabs!Spec
====
