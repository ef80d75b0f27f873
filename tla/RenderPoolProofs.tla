---- MODULE RenderPoolProofs ----
(***************************************************************************)
(* Proofs about RenderPool and the page pool below it, for any number of   *)
(* renders, browsers, sessions and tabs.                                   *)
(***************************************************************************)
EXTENDS RenderPool, FiniteSetTheorems, SequenceTheorems, TLAPS

(* The mru list. *)

\* Moving a key to the front keeps the others.
LEMMA FrontMoves ==
    ASSUME mru \in Seq(Browsers), NEW b \in Browsers
    PROVE  /\ Front(b) \in Seq(Browsers)
           /\ Len(Front(b)) = IF InMru(b) THEN Len(mru) ELSE Len(mru) + 1
           /\ Front(b)[1] = b
           /\ \A n \in 1 .. Len(mru) : \E m \in 1 .. Len(Front(b)) : Front(b)[m] = mru[n]
           /\ (\A m, n \in 1 .. Len(mru) : mru[m] = mru[n] => m = n)
                => \A m, n \in 1 .. Len(Front(b)) : Front(b)[m] = Front(b)[n] => m = n
  <1> DEFINE place == CHOOSE n \in 1 .. Len(mru) : mru[n] = b
             len == IF InMru(b) THEN Len(mru) ELSE Len(mru) + 1
             all == [n \in 1 .. len |-> IF n = 1 THEN b
                                        ELSE IF InMru(b) /\ n > place THEN mru[n] ELSE mru[n - 1]]
  <1>1. Front(b) = all
    BY DEF Front
  <1>2. Len(mru) \in Nat /\ \A n \in 1 .. Len(mru) : mru[n] \in Browsers
    OBVIOUS
  <1>3. InMru(b) => place \in 1 .. Len(mru) /\ mru[place] = b
    BY DEF InMru
  <1>4. len \in Nat /\ len >= 1
    BY <1>2, <1>3
  <1> HIDE DEF place
  <1>5. \A n \in 1 .. len : all[n] \in Browsers
    BY <1>2, <1>3
  <1>6. all \in Seq(Browsers) /\ Len(all) = len
    BY <1>4, <1>5
  <1>7. all[1] = b
    BY <1>4
  <1>8. ASSUME NEW n \in 1 .. Len(mru)
        PROVE  \E m \in 1 .. len : all[m] = mru[n]
    <2>1. CASE InMru(b) /\ n > place
      BY <1>2, <1>3, <2>1
    <2>2. CASE InMru(b) /\ n = place
      BY <1>3, <1>4, <1>7, <2>2
    <2>3. CASE InMru(b) /\ n < place
      <3>1. n + 1 \in 1 .. len /\ n + 1 # 1 /\ ~ (n + 1 > place)
        BY <1>2, <1>3, <2>3
      <3>2. all[n + 1] = mru[n]
        BY <1>2, <3>1
      <3> QED
        BY <3>1, <3>2
    <2>4. CASE ~InMru(b)
      <3>1. n + 1 \in 1 .. len /\ n + 1 # 1
        BY <1>2, <2>4
      <3>2. all[n + 1] = mru[n]
        BY <1>2, <2>4, <3>1
      <3> QED
        BY <3>1, <3>2
    <2> QED
      BY <1>2, <1>3, <2>1, <2>2, <2>3, <2>4
  <1>9. ASSUME \A m, n \in 1 .. Len(mru) : mru[m] = mru[n] => m = n,
               NEW m \in 1 .. len, NEW n \in 1 .. len, all[m] = all[n]
        PROVE  m = n
    <2> DEFINE At(i) == IF InMru(b) /\ i > place THEN i ELSE i - 1
    <2>1. \A i \in 2 .. len : At(i) \in 1 .. Len(mru) /\ all[i] = mru[At(i)]
      BY <1>2, <1>3
    <2>2. \A i \in 2 .. len : all[i] # b
      <3> SUFFICES ASSUME NEW i \in 2 .. len, mru[At(i)] = b
                   PROVE  FALSE
        BY <2>1
      <3>1. InMru(b)
        BY <2>1 DEF InMru
      <3>2. At(i) = place
        BY <1>3, <1>9, <2>1, <3>1
      <3> QED
        BY <1>3, <3>1, <3>2
    <2> HIDE DEF all
    <2>3. CASE m = 1 \/ n = 1
      <3>1. all[m] = b /\ all[n] = b
        BY <1>7, <1>9, <2>3
      <3>2. m \notin 2 .. len /\ n \notin 2 .. len
        BY <2>2, <3>1
      <3> QED
        BY <1>4, <3>2
    <2>4. CASE m # 1 /\ n # 1
      <3>1. At(m) = At(n)
        BY <1>9, <2>1, <2>4, SMTT(40)
      <3> QED
        BY <1>2, <1>3, <3>1, <2>4
    <2> QED
      BY <2>3, <2>4
  <1> HIDE DEF all
  <1> QED
    BY <1>1, <1>6, <1>7, <1>8, <1>9

(* Which steps change what. *)

\* Browsers.
LEMMA BrowserFrame ==
    ASSUME [Next]_vars
    PROVE  \/ UNCHANGED browserVars
           \/ \E t \in Tasks : \/ Launch(t) \/ Book(t) \/ Forget(t)
                              \/ SweepIdle(t) \/ SweepCounter(t)
           \/ \E i \in watched : ChromeDies(i)
  BY ZenonT(60) DEF Next, Step, DropStep, Done, vars, FindBrowser, LockBrowser, LaunchFails, Prune,
     FindContext, LockContext, CreateContext, ContextFails, Fetch, TakeIdle, NoIdle, ResetOk,
     ResetFails, Open, RegisterFresh, OpenFails, InstallOk, LosesPage, ReleaseDirty,
     ReleaseClean, StashPage, Cancelled, Begin, DropPages, DropCounter, Dispose, ForgetContext,
     EndDrop, StartDrop

\* Contexts.
LEMMA ContextFrame ==
    ASSUME [Next]_vars
    PROVE  \/ UNCHANGED contextVars
           \/ \E t \in Tasks : Prune(t) \/ CreateContext(t)
           \/ \E i \in watched : ChromeDies(i)
           \/ \E d \in Droppers : Dispose(d) \/ ForgetContext(d)
  BY ZenonT(60) DEF Next, Step, DropStep, Done, vars, FindBrowser, LockBrowser, Launch, LaunchFails, Book,
     Forget, SweepIdle, SweepCounter, FindContext, LockContext, ContextFails, Fetch, TakeIdle,
     NoIdle, ResetOk, ResetFails, Open, RegisterFresh, OpenFails, InstallOk, LosesPage,
     ReleaseDirty, ReleaseClean, StashPage, Cancelled, Begin, DropPages, DropCounter, EndDrop,
     StartDrop

\* Calls of drop_session.
LEMMA DropFrame ==
    ASSUME [Next]_vars
    PROVE  \/ UNCHANGED dropVars
           \/ \E d \in Droppers, s \in Sessions : StartDrop(d, s)
           \/ \E d \in Droppers : \/ DropPages(d) \/ DropCounter(d) \/ Dispose(d)
                                 \/ ForgetContext(d) \/ EndDrop(d)
  BY ZenonT(60) DEF Next, Step, DropStep, Done, vars, FindBrowser, LockBrowser, Launch, LaunchFails, Book,
     Forget, SweepIdle, SweepCounter, Prune, FindContext, LockContext, CreateContext,
     ContextFails, Fetch, TakeIdle, NoIdle, ResetOk, ResetFails, Open, RegisterFresh, OpenFails,
     InstallOk, LosesPage, ReleaseDirty, ReleaseClean, StashPage, Cancelled, Begin, ChromeDies

\* Counters.
LEMMA CountFrame ==
    ASSUME [Next]_vars
    PROVE  \/ UNCHANGED countVars
           \/ \E t \in Tasks : Open(t) \/ LosesPage(t)
           \/ \E t \in Tasks, k \in Keys : Begin(t, k)
           \/ \E d \in Droppers, s \in Sessions : StartDrop(d, s)
           \/ \E i \in watched : ChromeDies(i)
  BY ZenonT(60) DEF Next, Step, DropStep, Done, vars, FindBrowser, LockBrowser, Launch, LaunchFails, Book,
     Forget, SweepIdle, SweepCounter, Prune, FindContext, LockContext, CreateContext,
     ContextFails, Fetch, TakeIdle, NoIdle, ResetOk, ResetFails, RegisterFresh, OpenFails,
     InstallOk, ReleaseDirty, ReleaseClean, StashPage, Cancelled, DropPages, DropCounter,
     Dispose, ForgetContext, EndDrop

\* The page pool.
LEMMA PoolFrame ==
    ASSUME [Next]_vars
    PROVE  \/ UNCHANGED poolVars
           \/ \E t \in Tasks : \/ SweepIdle(t) \/ SweepCounter(t) \/ Fetch(t) \/ NoIdle(t)
                              \/ ResetFails(t) \/ Open(t) \/ RegisterFresh(t)
                              \/ ReleaseDirty(t) \/ ReleaseClean(t) \/ StashPage(t)
           \/ \E t \in Tasks, n \in 1 .. MaxPages : TakeIdle(t, n)
           \/ \E d \in Droppers : DropPages(d) \/ DropCounter(d)
  BY ZenonT(60) DEF Next, Step, DropStep, Done, vars, FindBrowser, LockBrowser, Launch, LaunchFails, Book,
     Forget, Prune, FindContext, LockContext, CreateContext, ContextFails, ResetOk, OpenFails,
     InstallOk, LosesPage, Cancelled, Begin, Dispose, ForgetContext, EndDrop, StartDrop,
     ChromeDies

\* Tasks.
LEMMA TaskFrame ==
    ASSUME [Next]_vars
    PROVE  \/ UNCHANGED taskVars
           \/ \E t \in Tasks :
                \/ FindBrowser(t) \/ LockBrowser(t) \/ Launch(t) \/ LaunchFails(t)
                \/ Book(t) \/ Forget(t) \/ Prune(t) \/ FindContext(t) \/ LockContext(t)
                \/ CreateContext(t) \/ ContextFails(t) \/ NoIdle(t) \/ ResetOk(t)
                \/ ResetFails(t) \/ Open(t) \/ RegisterFresh(t) \/ OpenFails(t) \/ InstallOk(t)
                \/ LosesPage(t) \/ ReleaseDirty(t) \/ ReleaseClean(t) \/ StashPage(t)
                \/ Cancelled(t)
           \/ \E t \in Tasks, n \in 1 .. MaxPages : TakeIdle(t, n)
           \/ \E t \in Tasks, k \in Keys : Begin(t, k)
  BY ZenonT(60) DEF Next, Step, DropStep, Done, vars, SweepIdle, SweepCounter, Fetch, DropPages,
     DropCounter, Dispose, ForgetContext, EndDrop, StartDrop, ChromeDies

(* Types. *)

\* A task that is in a render has a key.
Busy == \A t \in Tasks : at[t] # "idle" => key[t] \in Keys

TaskTypes ==
    /\ at \in [Tasks -> Steps]
    /\ key \in [Tasks -> Keys \cup {NoKey}]
    /\ inst \in [Tasks -> Nat]
    /\ ctx \in [Tasks -> Nat]
    /\ lock \in [Tasks -> Nat]
    /\ victim \in [Tasks -> Browsers \cup {NoKey}]
    /\ page \in [Tasks -> Page]
    /\ Busy
    /\ \A t \in Tasks : at[t] \in {"forget", "prune"} => victim[t] \in Browsers

BrowserTypes ==
    /\ browsers \in [Browsers -> 0 .. Len(home)]
    /\ mru \in Seq(Browsers)
    /\ browserGen \in [Browsers -> Nat]
    /\ home \in Seq(Browsers)
    /\ watched \subseteq 1 .. Len(home)
    /\ sweep \in [todo : SUBSET Keys, key : Keys \cup {NoKey}]
    /\ evicted \subseteq Browsers

ContextTypes ==
    /\ contexts \in [Keys -> 0 .. Len(owner)]
    /\ contextGen \in [Keys -> Nat]
    /\ owner \in Seq([key : Keys, inst : Nat])
    /\ live \subseteq 1 .. Len(owner)

\* What a Dropper keeps.
Call == [at : {"off", "next", "counter", "dispose", "forget"},
         session : Sessions \cup {NoDrop.session}, todo : SUBSET (Keys \X Nat),
         key : Keys \cup {NoKey}, ctx : Nat, inst : Nat]

\* A context is being dropped.
Dropping(d) == drop[d].at \in {"counter", "dispose", "forget"}

DropTypes ==
    /\ drop \in [Droppers -> Call]
    /\ \A d \in Droppers : Dropping(d) => drop[d].key \in Keys
    /\ dropped \subseteq Sessions

CountTypes ==
    /\ {renders, faults, pages} \subseteq Nat
    /\ leaked \in [Keys -> Nat]

Types == PoolTypeOK /\ TaskTypes /\ BrowserTypes /\ ContextTypes /\ DropTypes /\ CountTypes

LEMMA TypesAreTypeOK == Types => TypeOK
  BY DEF Types, TypeOK, TaskTypes, BrowserTypes, ContextTypes, DropTypes, CountTypes,
     Call

LEMMA KeyParts == \A k \in Keys : k[1] \in Browsers /\ k[2] \in Sessions
  BY RenderAssumption

LEMMA NoPageIsPage == NoPage \in Page
  BY PoolAssumption DEF NoPage, Page

\* A tab that is lent is a tab still.
LEMMA LentIsPage ==
    ASSUME PoolTypeOK, NEW k \in Keys, NEW n \in 1 .. Len(idle[k]), ~WornOut(idle[k][n])
    PROVE  Lent(idle[k][n]) \in Page
  <1>1. idle[k] \in Seq(Page)
    BY DEF PoolTypeOK
  <1>2. PICK p \in Page : p = idle[k][n]
    BY <1>1
  <1>3. p.uses \in Nat /\ p.uses < MaxUses /\ p.id \in Nat /\ p.ctx \in Nat
    BY <1>2, PoolAssumption DEF Page, WornOut
  <1> QED
    BY <1>2, <1>3, PoolAssumption, SMTT(40) DEF Lent, Page

\* What a task reads.
LEMMA TaskReads ==
    ASSUME Types, NEW t \in Tasks, at[t] # "idle"
    PROVE  /\ key[t] \in Keys /\ B(t) \in Browsers
           /\ browsers[B(t)] \in Nat /\ browserGen[B(t)] \in Nat
           /\ contexts[key[t]] \in Nat /\ contextGen[key[t]] \in Nat
  <1>1. key[t] \in Keys /\ B(t) \in Browsers
    BY KeyParts DEF Types, TaskTypes, Busy, B
  <1>2. Len(home) \in Nat /\ Len(owner) \in Nat
    BY DEF Types, BrowserTypes, ContextTypes
  <1>3. browsers[B(t)] \in 0 .. Len(home) /\ browserGen[B(t)] \in Nat
    BY <1>1 DEF Types, BrowserTypes
  <1>4. contexts[key[t]] \in 0 .. Len(owner) /\ contextGen[key[t]] \in Nat
    BY <1>1 DEF Types, ContextTypes
  <1> QED
    BY <1>1, <1>2, <1>3, <1>4

\* What booking makes of the mru list.
LEMMA BookedList ==
    ASSUME Types, NEW b \in Browsers
    PROVE  /\ Front(b) \in Seq(Browsers)
           /\ Len(Front(b)) \in Nat /\ Len(Front(b)) >= 1
           /\ Front(b)[Len(Front(b))] \in Browsers
           /\ SubSeq(Front(b), 1, Len(Front(b)) - 1) \in Seq(Browsers)
  <1>1. mru \in Seq(Browsers) /\ Len(mru) \in Nat
    BY DEF Types, BrowserTypes
  <1>2. InMru(b) => Len(mru) >= 1
    BY <1>1 DEF InMru
  <1>3. Front(b) \in Seq(Browsers) /\ Len(Front(b)) \in Nat /\ Len(Front(b)) >= 1
    <2>1. Front(b) \in Seq(Browsers)
      BY <1>1, FrontMoves
    <2>2. Len(Front(b)) = IF InMru(b) THEN Len(mru) ELSE Len(mru) + 1
      BY <1>1, FrontMoves
    <2> QED
      BY <1>1, <1>2, <2>1, <2>2
  <1> DEFINE all == Front(b)
  <1> HIDE DEF all
  <1>4. all \in Seq(Browsers) /\ Len(all) \in Nat /\ Len(all) >= 1
    BY <1>3 DEF all
  <1>5. all[Len(all)] \in Browsers /\ SubSeq(all, 1, Len(all) - 1) \in Seq(Browsers)
    BY <1>4
  <1> QED
    BY <1>3, <1>5 DEF all

LEMMA InitTypes == Init => Types
  BY NoPageIsPage DEF Init, PoolInit, Types, PoolTypeOK, TaskTypes, BrowserTypes, ContextTypes,
     DropTypes, CountTypes, Busy, Steps, NoDrop, NoSweep, Call, Dropping

LEMMA NextBrowserTypes == Types /\ [Next]_vars => BrowserTypes'
  <1> SUFFICES ASSUME Types, [Next]_vars
               PROVE  BrowserTypes'
    OBVIOUS
  <1> USE KeyParts
  <1>1. ASSUME NEW t \in Tasks, Launch(t)
        PROVE  BrowserTypes'
    BY <1>1, SMTT(40) DEF Launch, B, Go, Set, Types, TaskTypes, BrowserTypes, Busy, Launching
  <1>2. ASSUME NEW t \in Tasks, Book(t)
        PROVE  BrowserTypes'
    <2>1. B(t) \in Browsers
      BY <1>2, TaskReads DEF Book
    <2> DEFINE all == Front(B(t))
               old == all[Len(all)]
    <2>2. /\ old \in Browsers /\ all \in Seq(Browsers)
          /\ SubSeq(all, 1, Len(all) - 1) \in Seq(Browsers)
      BY <2>1, BookedList
    <2> HIDE DEF all, old
    <2>3. mru' \in Seq(Browsers)
      BY <1>2, <2>2 DEF Book, all
    <2>4. \/ browsers' = browsers /\ evicted' = evicted
          \/ browsers' = [browsers EXCEPT ![old] = 0] /\ evicted' = evicted \cup {old}
      BY <1>2 DEF Book, Unregister, all, old
    <2>5. /\ Len(home) \in Nat /\ browsers \in [Browsers -> 0 .. Len(home)]
          /\ evicted \subseteq Browsers
      BY DEF Types, BrowserTypes
    <2>6. browsers' \in [Browsers -> 0 .. Len(home)] /\ evicted' \subseteq Browsers
      BY <2>2, <2>4, <2>5
    <2> QED
      BY <1>2, <2>3, <2>6 DEF Book, Types, BrowserTypes
  <1>3. ASSUME NEW t \in Tasks, Forget(t)
        PROVE  BrowserTypes'
    <2>1. victim[t] \in Browsers
      BY <1>3 DEF Forget, Types, TaskTypes
    <2>2. sweep' \in [todo : SUBSET Keys, key : Keys \cup {NoKey}]
      <3>1. {k \in KeysOf(victim[t]) : contexts[k] # 0} \in SUBSET Keys
        BY DEF KeysOf
      <3>2. sweep' = [todo |-> {k \in KeysOf(victim[t]) : contexts[k] # 0}, key |-> NoKey]
        BY <1>3 DEF Forget, NoSweep
      <3> QED
        BY <3>1, <3>2
    <2>3. browserGen' \in [Browsers -> Nat]
      BY <1>3, <2>1 DEF Forget, Types, BrowserTypes
    <2>4. UNCHANGED <<browsers, mru, home, watched, evicted>>
      BY <1>3 DEF Forget
    <2> QED
      BY <2>2, <2>3, <2>4 DEF Types, BrowserTypes
  <1>4. ASSUME NEW t \in Tasks, SweepIdle(t) \/ SweepCounter(t)
        PROVE  BrowserTypes'
    <2>1. UNCHANGED <<browsers, mru, browserGen, home, watched, evicted>>
      BY <1>4 DEF SweepIdle, SweepCounter
    <2>2. CASE SweepIdle(t)
      <3>1. PICK k \in sweep.todo : sweep' = [todo |-> sweep.todo \ {k}, key |-> k]
        BY <2>2 DEF SweepIdle
      <3>2. sweep.todo \subseteq Keys
        BY DEF Types, BrowserTypes
      <3>3. sweep.todo \ {k} \in SUBSET Keys /\ k \in Keys
        BY <3>2
      <3>4. sweep' \in [todo : SUBSET Keys, key : Keys \cup {NoKey}]
        BY <3>1, <3>3
      <3> QED
        BY <2>1, <3>4 DEF Types, BrowserTypes
    <2>3. CASE SweepCounter(t)
      <3>1. sweep' \in [todo : SUBSET Keys, key : Keys \cup {NoKey}]
        BY <2>3 DEF SweepCounter, Types, BrowserTypes
      <3> QED
        BY <2>1, <3>1 DEF Types, BrowserTypes
    <2> QED
      BY <1>4, <2>2, <2>3
  <1>5. ASSUME NEW i \in watched, ChromeDies(i)
        PROVE  BrowserTypes'
    BY <1>5 DEF ChromeDies, Types, TaskTypes, BrowserTypes, Busy, Launching
  <1>6. CASE UNCHANGED browserVars
    BY <1>6 DEF browserVars, Types, TaskTypes, BrowserTypes, Busy, Launching
  <1> QED
    BY BrowserFrame, <1>1, <1>2, <1>3, <1>4, <1>5, <1>6

LEMMA NextContextTypes == Types /\ [Next]_vars => ContextTypes'
  <1> SUFFICES ASSUME Types, [Next]_vars
               PROVE  ContextTypes'
    OBVIOUS
  <1>1. ASSUME NEW t \in Tasks, Prune(t)
        PROVE  ContextTypes'
    BY <1>1 DEF Prune, KeysOf, Go, Set, Types, TaskTypes, ContextTypes, Busy
  <1>2. ASSUME NEW t \in Tasks, CreateContext(t)
        PROVE  ContextTypes'
    <2>1. key[t] \in Keys /\ inst[t] \in Nat
      BY <1>2, TaskReads DEF CreateContext, Types, TaskTypes
    <2>2. [key |-> key[t], inst |-> inst[t]] \in [key : Keys, inst : Nat]
      BY <2>1
    <2>3. /\ owner' \in Seq([key : Keys, inst : Nat])
          /\ Len(owner') = Len(owner) + 1 /\ Len(owner) \in Nat
      BY <1>2, <2>2 DEF CreateContext, Types, ContextTypes
    <2>4. contexts' = [contexts EXCEPT ![key[t]] = Len(owner')] /\ live' = live \cup {Len(owner')}
      BY <1>2 DEF CreateContext
    <2>5. contexts \in [Keys -> 0 .. Len(owner)] /\ live \subseteq 1 .. Len(owner)
      BY DEF Types, ContextTypes
    <2>6. contexts' \in [Keys -> 0 .. Len(owner')] /\ live' \subseteq 1 .. Len(owner')
      <3> DEFINE m == Len(owner)
                 n == Len(owner')
      <3>1. n = m + 1 /\ m \in Nat
        BY <2>3
      <3> HIDE DEF m, n
      <3>2. 0 .. m \subseteq 0 .. n /\ 1 .. m \subseteq 1 .. n /\ n \in 0 .. n /\ n \in 1 .. n
        BY <3>1
      <3> QED
        BY <2>4, <2>5, <3>2 DEF m, n
    <2> QED
      BY <1>2, <2>3, <2>6 DEF CreateContext, Types, ContextTypes
  <1>3. ASSUME NEW d \in Droppers, Dispose(d)
        PROVE  ContextTypes'
    BY <1>3 DEF Dispose, Types, TaskTypes, ContextTypes, Busy
  <1>4. ASSUME NEW d \in Droppers, ForgetContext(d)
        PROVE  ContextTypes'
    <2>1. drop[d].key \in Keys
      BY <1>4 DEF ForgetContext, Types, DropTypes, Dropping
    <2> QED
      BY <1>4, <2>1, SMTT(40) DEF ForgetContext, Types, ContextTypes
  <1>5. ASSUME NEW i \in watched, ChromeDies(i)
        PROVE  ContextTypes'
    BY <1>5 DEF ChromeDies, Types, TaskTypes, ContextTypes, Busy
  <1>6. CASE UNCHANGED contextVars
    BY <1>6 DEF contextVars, Types, TaskTypes, ContextTypes, Busy
  <1> QED
    BY ContextFrame, <1>1, <1>2, <1>3, <1>4, <1>5, <1>6

LEMMA NextDropTypes == Types /\ [Next]_vars => DropTypes'
  <1> SUFFICES ASSUME Types, [Next]_vars
               PROVE  DropTypes'
    OBVIOUS
  <1>1. ASSUME NEW d \in Droppers, DropPages(d)
        PROVE  DropTypes'
    <2>1. PICK e \in drop[d].todo :
            drop' = [drop EXCEPT ![d].at = "counter", ![d].todo = @ \ {e}, ![d].key = e[1],
                                 ![d].ctx = e[2]]
      BY <1>1 DEF DropPages
    <2>2. e \in Keys \X Nat
      BY <2>1 DEF Types, DropTypes, Call
    <2>3. dropped' = dropped
      BY <1>1 DEF DropPages
    <2> DEFINE c == [drop[d] EXCEPT !.at = "counter", !.todo = @ \ {e}, !.key = e[1],
                                    !.ctx = e[2]]
    <2>4. drop \in [Droppers -> Call] /\ drop[d] \in Call /\ dropped \subseteq Sessions
      BY DEF Types, DropTypes
    <2>5. c \in Call /\ c.key \in Keys
      BY <2>2, <2>4 DEF Call
    <2>6. drop' = [drop EXCEPT ![d] = c]
      BY <2>1, <2>4
    <2> HIDE DEF c
    <2> QED
      BY <2>3, <2>4, <2>5, <2>6 DEF Types, DropTypes, Dropping
  <1>2. ASSUME NEW d \in Droppers, Dispose(d)
        PROVE  DropTypes'
    <2>1. drop' = [drop EXCEPT ![d].at = "forget"] /\ dropped' = dropped /\ drop[d].at = "dispose"
      BY <1>2 DEF Dispose
    <2> QED
      BY <2>1 DEF Types, DropTypes, Call, Dropping
  <1>3. ASSUME NEW d \in Droppers, ForgetContext(d)
        PROVE  DropTypes'
    <2> DEFINE r == [drop[d] EXCEPT !.at = "next", !.key = NoKey, !.ctx = 0, !.inst = 0]
    <2>1. drop' = [drop EXCEPT ![d] = r] /\ dropped' = dropped
      BY <1>3 DEF ForgetContext
    <2>2. /\ r \in Call
          /\ r.at = "next"
      BY ZenonT(60) DEF Types, DropTypes, Call
    <2> HIDE DEF r
    <2> QED
      BY <2>1, <2>2 DEF Types, DropTypes, Dropping
  <1>4. ASSUME NEW d \in Droppers, EndDrop(d)
        PROVE  DropTypes'
    BY <1>4 DEF EndDrop, Types, DropTypes, Call, NoDrop, Dropping
  <1>5. ASSUME NEW d \in Droppers, NEW s \in Sessions, StartDrop(d, s)
        PROVE  DropTypes'
    <2> DEFINE list == {<<k, contexts[k]>> : k \in {l \in Keys : l[2] = s /\ contexts[l] # 0}}
    <2>1. \A k \in Keys : contexts[k] \in 0 .. Len(owner) /\ Len(owner) \in Nat
      BY DEF Types, ContextTypes
    <2>2. list \in SUBSET (Keys \X Nat)
      BY <2>1
    <2> HIDE DEF list
    <2> DEFINE r == [NoDrop EXCEPT !.at = "next", !.session = s, !.todo = list]
    <2>3. drop' = [drop EXCEPT ![d] = r] /\ dropped' = dropped \cup {s}
      BY <1>5 DEF StartDrop, list
    <2>4. /\ r \in Call
          /\ r.at = "next"
      BY <2>2 DEF NoDrop, Call
    <2> HIDE DEF r
    <2> QED
      BY <2>2, <2>3, <2>4 DEF Types, DropTypes, Dropping
  <1>6. ASSUME NEW d \in Droppers, DropCounter(d)
        PROVE  DropTypes'
    <2> DEFINE b == drop[d].key[1]
               next == IF b \in Registered THEN "dispose" ELSE "forget"
               c == [drop[d] EXCEPT !.at = next, !.inst = browsers[b]]
    <2>1. drop \in [Droppers -> Call] /\ drop[d] \in Call /\ dropped \subseteq Sessions
      BY DEF Types, DropTypes
    <2>2. drop[d].key \in Keys
      BY <1>6 DEF DropCounter, Types, DropTypes, Dropping
    <2>3. browsers[b] \in 0 .. Len(home) /\ Len(home) \in Nat
      BY <2>2, KeyParts DEF Types, BrowserTypes
    <2>4. browsers[b] \in Nat /\ next \in {"dispose", "forget"}
      BY <2>3
    <2> HIDE DEF b, next
    <2>5. c \in Call /\ c.key \in Keys
      BY <2>1, <2>2, <2>4 DEF Call
    <2>6. drop' = [drop EXCEPT ![d] = c] /\ dropped' = dropped
      BY <1>6, <2>1 DEF DropCounter, b, next
    <2> HIDE DEF c
    <2> QED
      BY <2>1, <2>5, <2>6 DEF Types, DropTypes, Dropping
  <1>7. CASE UNCHANGED dropVars
    BY <1>7 DEF dropVars, Types, DropTypes, Dropping
  <1> QED
    BY DropFrame, <1>1, <1>2, <1>3, <1>4, <1>5, <1>6, <1>7

LEMMA NextCountTypes == Types /\ [Next]_vars => CountTypes'
  <1> SUFFICES ASSUME Types, [Next]_vars
               PROVE  CountTypes'
    OBVIOUS
  <1>1. ASSUME NEW t \in Tasks, NEW k \in Keys, Begin(t, k)
        PROVE  CountTypes'
    BY <1>1 DEF Begin, Go, Set, Types, CountTypes
  <1>2. ASSUME NEW t \in Tasks, Open(t)
        PROVE  CountTypes'
    BY <1>2 DEF Open, CountersFor, Go, Set, Types, CountTypes
  <1>3. ASSUME NEW t \in Tasks, LosesPage(t)
        PROVE  CountTypes'
    <2>1. key[t] \in Keys
      BY <1>3, TaskReads DEF LosesPage
    <2> QED
      BY <1>3, <2>1 DEF LosesPage, Types, CountTypes
  <1>4. ASSUME NEW d \in Droppers, NEW s \in Sessions, StartDrop(d, s)
        PROVE  CountTypes'
    BY <1>4 DEF StartDrop, Types, CountTypes
  <1>5. ASSUME NEW i \in watched, ChromeDies(i)
        PROVE  CountTypes'
    BY <1>5 DEF ChromeDies, Types, CountTypes
  <1>6. CASE UNCHANGED countVars
    BY <1>6 DEF countVars, Types, CountTypes
  <1> QED
    BY CountFrame, <1>1, <1>2, <1>3, <1>4, <1>5, <1>6

LEMMA NextPoolTypes == Types /\ [Next]_vars => PoolTypeOK'
  <1> SUFFICES ASSUME Types, [Next]_vars
               PROVE  PoolTypeOK'
    OBVIOUS
  <1>0. /\ idle \in [Keys -> Seq(Page)]
        /\ inFlight \in [Keys -> Int]
        /\ arc \in [Tasks -> Keys \cup {NoCounter, Detached}]
        /\ <<>> \in Seq(Page)
    BY DEF Types, PoolTypeOK
  <1>1. ASSUME NEW t \in Tasks, NEW d \in {-1, 1}, Bump(t, d)
        PROVE  inFlight' \in [Keys -> Int] /\ arc' \in [Tasks -> Keys \cup {NoCounter, Detached}]
    <2>1. inFlight \in [Keys -> Int] /\ arc \in [Tasks -> Keys \cup {NoCounter, Detached}]
      BY DEF Types, PoolTypeOK
    <2>2. \A k \in Keys : inFlight[k] \in Int /\ inFlight[k] + d \in Int
      BY <2>1
    <2>3. /\ inFlight' = [k \in Keys |-> IF k = arc[t] THEN inFlight[k] + d ELSE inFlight[k]]
          /\ arc' = [arc EXCEPT ![t] = NoCounter]
      BY <1>1 DEF Bump
    <2> QED
      BY <2>1, <2>2, <2>3
  <1>2. ASSUME NEW t \in Tasks, NEW n \in 1 .. MaxPages, TakeIdle(t, n)
        PROVE  PoolTypeOK'
    <2>1. key[t] \in Keys
      BY <1>2, TaskReads DEF TakeIdle
    <2>2. idle[key[t]] \in Seq(Page) /\ n \in 1 .. Len(idle[key[t]])
      BY <1>2, <2>1 DEF TakeIdle, TryAcquire, Types, PoolTypeOK
    <2>3. SubSeq(idle[key[t]], n + 1, Len(idle[key[t]])) \in Seq(Page)
      BY <2>2
    <2> QED
      BY <1>1, <1>2, <2>1, <2>3, SMTT(40) DEF TakeIdle, TryAcquire, Types, PoolTypeOK
  <1>3. ASSUME NEW t \in Tasks, NoIdle(t)
        PROVE  PoolTypeOK'
    BY <1>0, <1>3 DEF NoIdle, AcquireNone, PoolTypeOK
  <1>4. ASSUME NEW t \in Tasks, ResetFails(t) \/ ReleaseDirty(t) \/ ReleaseClean(t)
        PROVE  PoolTypeOK'
    <2>1. Uncount(t)
      BY <1>4 DEF ResetFails, ReleaseDirty, ReleaseClean
    <2> QED
      BY <1>1, <2>1, -1 \in {-1, 1} DEF Uncount, Types, PoolTypeOK
  <1>5. ASSUME NEW t \in Tasks, Fetch(t) \/ Open(t)
        PROVE  PoolTypeOK'
    <2>1. key[t] \in Keys
      BY <1>5, TaskReads DEF Fetch, Open
    <2>2. CountersFor(t, key[t])
      BY <1>5 DEF Fetch, Open
    <2> QED
      BY <2>1, <2>2 DEF CountersFor, Types, PoolTypeOK
  <1>6. ASSUME NEW t \in Tasks, RegisterFresh(t)
        PROVE  PoolTypeOK'
    BY <1>1, <1>6, 1 \in {-1, 1} DEF RegisterFresh, CountFresh, Types, PoolTypeOK
  <1>7. ASSUME NEW t \in Tasks, StashPage(t)
        PROVE  PoolTypeOK'
    BY <1>7, SMTT(40) DEF StashPage, Stash, Types, TaskTypes, PoolTypeOK, Busy
  <1>8. ASSUME NEW k, DropIdle(k)
        PROVE  PoolTypeOK'
    BY <1>0, <1>8 DEF DropIdle, PoolTypeOK
  <1>9. ASSUME NEW k, RemoveCounter(k)
        PROVE  PoolTypeOK'
    <2>1. inFlight' \in [Keys -> Int] /\ idle' = idle
      <3>1. inFlight' = [inFlight EXCEPT ![k] = 0] /\ idle' = idle
        BY <1>9 DEF RemoveCounter
      <3>2. inFlight \in [Keys -> Int] /\ 0 \in Int
        BY <1>0
      <3> QED
        BY <3>1, <3>2, ZenonT(30)
    <2>2. arc' \in [Tasks -> Keys \cup {NoCounter, Detached}]
      <3> DEFINE S == Keys \cup {NoCounter, Detached}
      <3>1. \A t \in Tasks : arc[t] \in S /\ Detached \in S
        BY <1>0
      <3>2. arc' = [t \in Tasks |-> IF arc[t] = k THEN Detached ELSE arc[t]]
        BY <1>9 DEF RemoveCounter
      <3> HIDE DEF S
      <3>3. arc' \in [Tasks -> S]
        BY <3>1, <3>2
      <3> QED
        BY <3>3 DEF S
    <2> QED
      BY <1>0, <2>1, <2>2 DEF PoolTypeOK
  <1>10. ASSUME NEW t \in Tasks, SweepIdle(t) \/ SweepCounter(t)
         PROVE  PoolTypeOK'
    BY <1>8, <1>9, <1>10 DEF SweepIdle, SweepCounter
  <1>11. ASSUME NEW d \in Droppers, DropPages(d) \/ DropCounter(d)
         PROVE  PoolTypeOK'
    BY <1>8, <1>9, <1>11 DEF DropPages, DropCounter
  <1>12. CASE UNCHANGED poolVars
    BY <1>12 DEF poolVars, Types, PoolTypeOK
  <1> QED
    BY PoolFrame, <1>2, <1>3, <1>4, <1>5, <1>6, <1>7, <1>10, <1>11, <1>12

LEMMA NextTaskTypes == Types /\ [Next]_vars => TaskTypes'
  <1> SUFFICES ASSUME Types, [Next]_vars
               PROVE  TaskTypes'
    OBVIOUS
  <1> USE KeyParts, NoPageIsPage
  <1>1. ASSUME NEW t \in Tasks, FindBrowser(t)
        PROVE  TaskTypes'
    <2>1. /\ key[t] \in Keys /\ browsers[B(t)] \in Nat /\ browserGen[B(t)] \in Nat
          /\ contexts[key[t]] \in Nat /\ contextGen[key[t]] \in Nat
      BY <1>1, TaskReads DEF FindBrowser
    <2> QED
      BY <1>1, <2>1 DEF FindBrowser, HoldBrowser, Go, Set,
         TaskTypes, Busy, Types, Steps, Launching, Leasing
  <1>2. ASSUME NEW t \in Tasks, LockBrowser(t)
        PROVE  TaskTypes'
    <2>1. /\ key[t] \in Keys /\ browsers[B(t)] \in Nat /\ browserGen[B(t)] \in Nat
          /\ contexts[key[t]] \in Nat /\ contextGen[key[t]] \in Nat
      BY <1>2, TaskReads DEF LockBrowser
    <2> QED
      BY <1>2, <2>1 DEF LockBrowser, HoldBrowser, Go, Set,
         TaskTypes, Busy, Types, Steps, Launching, Leasing
  <1>3. ASSUME NEW t \in Tasks, Launch(t)
        PROVE  TaskTypes'
    BY <1>3 DEF Launch, B, Go, Set, Types, TaskTypes, Busy, Steps, Launching, Leasing
  <1>4. ASSUME NEW t \in Tasks, LaunchFails(t)
        PROVE  TaskTypes'
    BY <1>4 DEF LaunchFails, Finish, Go, Set, Types, TaskTypes, Busy, Steps, Launching, Leasing
  <1>5. ASSUME NEW t \in Tasks, Book(t)
        PROVE  TaskTypes'
    <2>1. B(t) \in Browsers
      BY <1>5, TaskReads DEF Book
    <2> DEFINE old == Front(B(t))[Len(Front(B(t)))]
    <2>2. old \in Browsers
      BY <2>1, BookedList
    <2> HIDE DEF old
    <2>3. \/ /\ at' = [at EXCEPT ![t] = "forget"]
             /\ victim' = [victim EXCEPT ![t] = old] /\ lock' = lock
          \/ /\ at' = [at EXCEPT ![t] = "context"] /\ lock' = [lock EXCEPT ![t] = 0]
             /\ victim' = victim
      BY <1>5 DEF Book, Go, Set, old
    <2>4. UNCHANGED <<key, inst, ctx, page>>
      BY <1>5 DEF Book
    <2>5. CASE /\ at' = [at EXCEPT ![t] = "forget"] /\ victim' = [victim EXCEPT ![t] = old]
               /\ lock' = lock
      BY <1>5, <2>2, <2>4, <2>5 DEF Book, Types, TaskTypes, Busy, Steps, Launching
    <2>6. CASE /\ at' = [at EXCEPT ![t] = "context"] /\ lock' = [lock EXCEPT ![t] = 0]
               /\ victim' = victim
      BY <1>5, <2>4, <2>6 DEF Book, Types, TaskTypes, Busy, Steps
    <2> QED
      BY <2>3, <2>5, <2>6
  <1>6. ASSUME NEW t \in Tasks, Forget(t)
        PROVE  TaskTypes'
    BY <1>6 DEF Forget, Go, Types, TaskTypes, Busy, Steps, Launching,
       Leasing
  <1>7. ASSUME NEW t \in Tasks, Prune(t)
        PROVE  TaskTypes'
    BY <1>7 DEF Prune, KeysOf, Go, Set, Types, TaskTypes, Busy, Steps, Launching, Leasing
  <1>8. ASSUME NEW t \in Tasks, FindContext(t)
        PROVE  TaskTypes'
    <2>1. /\ key[t] \in Keys /\ browsers[B(t)] \in Nat /\ browserGen[B(t)] \in Nat
          /\ contexts[key[t]] \in Nat /\ contextGen[key[t]] \in Nat
      BY <1>8, TaskReads DEF FindContext
    <2> QED
      BY <1>8, <2>1 DEF FindContext, HoldContext, Go, Set,
         TaskTypes, Busy, Types, Steps, Launching, Leasing
  <1>9. ASSUME NEW t \in Tasks, LockContext(t)
        PROVE  TaskTypes'
    <2>1. /\ key[t] \in Keys /\ browsers[B(t)] \in Nat /\ browserGen[B(t)] \in Nat
          /\ contexts[key[t]] \in Nat /\ contextGen[key[t]] \in Nat
      BY <1>9, TaskReads DEF LockContext
    <2> QED
      BY <1>9, <2>1 DEF LockContext, HoldContext, Go, Set,
         TaskTypes, Busy, Types, Steps, Launching, Leasing
  <1>10. ASSUME NEW t \in Tasks, CreateContext(t)
         PROVE  TaskTypes'
    BY <1>10 DEF CreateContext, Go, Set, Types, TaskTypes, Busy, Steps, Launching, Leasing
  <1>11. ASSUME NEW t \in Tasks, ContextFails(t)
         PROVE  TaskTypes'
    BY <1>11 DEF ContextFails, Finish, Go, Set, Types, TaskTypes, Busy, Steps, Launching,
       Leasing
  <1>12. ASSUME NEW t \in Tasks, NEW n \in 1 .. MaxPages, TakeIdle(t, n)
         PROVE  TaskTypes'
    <2>1. key[t] \in Keys
      BY <1>12, TaskReads DEF TakeIdle
    <2>2. Lent(idle[key[t]][n]) \in Page
      BY <1>12, <2>1, LentIsPage DEF TakeIdle, TryAcquire, Types
    <2> QED
      BY <1>12, <2>2 DEF TakeIdle, Go, Set, Types, TaskTypes, Busy, Steps, Leasing
  <1>13. ASSUME NEW t \in Tasks, NoIdle(t)
         PROVE  TaskTypes'
    BY <1>13 DEF NoIdle, AcquireNone, Go, Types, TaskTypes, Busy, Steps, Launching, Leasing
  <1>14. ASSUME NEW t \in Tasks, ResetOk(t)
         PROVE  TaskTypes'
    BY <1>14 DEF ResetOk, Go, Types, TaskTypes, Busy, Steps, Launching, Leasing
  <1>15. ASSUME NEW t \in Tasks, ResetFails(t)
         PROVE  TaskTypes'
    BY <1>15 DEF ResetFails, Uncount, Bump, Go, Set, Types, TaskTypes, Busy, Steps, Launching,
       Leasing
  <1>16. ASSUME NEW t \in Tasks, Open(t)
         PROVE  TaskTypes'
    <2>1. pages' \in Nat /\ ctx[t] \in Nat
      BY <1>16 DEF Open, Types, CountTypes, TaskTypes
    <2>2. [id |-> pages', ctx |-> ctx[t], uses |-> 1] \in Page
      BY <2>1, PoolAssumption DEF Page
    <2> QED
      BY <1>16, <2>2 DEF Open, Go, Set, Types, TaskTypes, Busy, Steps, Leasing
  <1>17. ASSUME NEW t \in Tasks, OpenFails(t)
         PROVE  TaskTypes'
    BY <1>17 DEF OpenFails, Finish, Go, Set, Types, TaskTypes, Busy, Steps, Launching, Leasing
  <1>18. ASSUME NEW t \in Tasks, InstallOk(t)
         PROVE  TaskTypes'
    BY <1>18 DEF InstallOk, Go, Types, TaskTypes, Busy, Steps, Launching, Leasing
  <1>19. ASSUME NEW t \in Tasks, LosesPage(t)
         PROVE  TaskTypes'
    BY <1>19 DEF LosesPage, Finish, Go, Set, Types, TaskTypes, Busy, Steps, Launching, Leasing
  <1>20. ASSUME NEW t \in Tasks, ReleaseDirty(t)
         PROVE  TaskTypes'
    BY <1>20 DEF ReleaseDirty, Uncount, Bump, Finish, Go, Set, Types, TaskTypes, Busy, Steps,
       Launching, Leasing
  <1>21. ASSUME NEW t \in Tasks, ReleaseClean(t)
         PROVE  TaskTypes'
    BY <1>21 DEF ReleaseClean, Uncount, Bump, Go, Types, TaskTypes, Busy, Steps, Launching,
       Leasing
  <1>22. ASSUME NEW t \in Tasks, StashPage(t)
         PROVE  TaskTypes'
    BY <1>22 DEF StashPage, Stash, Finish, Go, Set, Types, TaskTypes, Busy, Steps, Launching,
       Leasing
  <1>23. ASSUME NEW t \in Tasks, Cancelled(t)
         PROVE  TaskTypes'
    BY <1>23 DEF Cancelled, Finish, Go, Set, Types, TaskTypes, Busy, Steps, Launching, Leasing
  <1>24. ASSUME NEW t \in Tasks, NEW k \in Keys, Begin(t, k)
         PROVE  TaskTypes'
    BY <1>24 DEF Begin, Go, Set, Types, TaskTypes, Busy, Steps, Launching, Leasing
  <1>25. ASSUME NEW t \in Tasks, RegisterFresh(t)
         PROVE  TaskTypes'
    BY <1>25 DEF RegisterFresh, Go, Types, TaskTypes, Busy, Steps, Launching, Leasing
  <1>26. CASE UNCHANGED taskVars
    BY <1>26 DEF taskVars, Types, TaskTypes, Busy, Steps, Launching, Leasing
  <1> QED
    BY TaskFrame, <1>1, <1>2, <1>3, <1>4, <1>5, <1>6, <1>7, <1>8, <1>9, <1>10, <1>11, <1>12,
       <1>13, <1>14, <1>15, <1>16, <1>17, <1>18, <1>19, <1>20, <1>21, <1>22, <1>23, <1>24, <1>25,
       <1>26

LEMMA NextTypes == Types /\ [Next]_vars => Types'
  BY NextBrowserTypes, NextContextTypes, NextDropTypes, NextCountTypes, NextPoolTypes,
     NextTaskTypes DEF Types

(* Tabs. *)

\* No tab is added, and every render keeps what it drives; queues may be emptied.
OnlyCloses ==
    /\ pages' = pages
    /\ \A t \in Tasks : at'[t] \in HasPage <=> at[t] \in HasPage
    /\ \A t \in Tasks : at[t] \in HasPage => page'[t] = page[t] /\ key'[t] = key[t]
    /\ \A t \in Tasks : at'[t] = "stash" => at[t] = "stash" \/ ~WornOut(page[t])
    /\ \A k \in Keys : idle'[k] = idle[k] \/ idle'[k] = <<>>

\* A render lets its tab go without giving it back.
EndsLease(t) ==
    /\ UNCHANGED <<pages, idle>>
    /\ at[t] \in HasPage /\ at'[t] \notin HasPage
    /\ \A u \in Tasks \ {t} : at'[u] = at[u] /\ page'[u] = page[u] /\ key'[u] = key[u]

LEMMA LeaseSteps ==
    ASSUME Types, [Next]_vars
    PROVE  \/ OnlyCloses
           \/ \E t \in Tasks : EndsLease(t) \/ Open(t) \/ StashPage(t)
           \/ \E t \in Tasks, n \in 1 .. MaxPages : TakeIdle(t, n)
  <1>1. ASSUME NEW t \in Tasks, FindBrowser(t)
        PROVE  OnlyCloses
    BY <1>1 DEF FindBrowser, HoldBrowser, Registered, B, Go, Set, OnlyCloses, HasPage, Types,
       TaskTypes, PoolTypeOK, poolVars, countVars
  <1>2. ASSUME NEW t \in Tasks, LockBrowser(t)
        PROVE  OnlyCloses
    BY <1>2, SMTT(40) DEF LockBrowser, HoldBrowser, LaunchLockFree, Registered, B, Go, Set,
       OnlyCloses,
       HasPage, Types, TaskTypes, PoolTypeOK, poolVars, countVars
  <1>3. ASSUME NEW t \in Tasks, Launch(t)
        PROVE  OnlyCloses
    BY <1>3 DEF Launch, B, Go, Set, OnlyCloses, HasPage, Types, TaskTypes, PoolTypeOK, poolVars,
       countVars
  <1>4. ASSUME NEW t \in Tasks, LaunchFails(t)
        PROVE  OnlyCloses
    BY <1>4 DEF LaunchFails, Finish, Go, Set, OnlyCloses, HasPage, Types, TaskTypes, PoolTypeOK,
       poolVars, countVars
  <1>5. ASSUME NEW t \in Tasks, Book(t)
        PROVE  OnlyCloses
    BY <1>5 DEF Book, B, Unregister, Go, Set, OnlyCloses, HasPage, Types, TaskTypes, PoolTypeOK,
       poolVars, countVars
  <1>6. ASSUME NEW t \in Tasks, Forget(t)
        PROVE  OnlyCloses
    BY <1>6 DEF Forget, Go, OnlyCloses, HasPage, Types, TaskTypes,
       PoolTypeOK, poolVars,
       countVars
  <1>7. ASSUME NEW t \in Tasks, Prune(t)
        PROVE  OnlyCloses
    BY <1>7 DEF Prune, KeysOf, Go, Set, OnlyCloses, HasPage, Types, TaskTypes, PoolTypeOK,
       poolVars,
       countVars
  <1>8. ASSUME NEW t \in Tasks, FindContext(t)
        PROVE  OnlyCloses
    BY <1>8 DEF FindContext, HoldContext, Go, Set, OnlyCloses, HasPage, Types, TaskTypes,
       PoolTypeOK,
       poolVars, countVars
  <1>9. ASSUME NEW t \in Tasks, LockContext(t)
        PROVE  OnlyCloses
    BY <1>9 DEF LockContext, HoldContext, ContextLockFree, Go, Set, OnlyCloses, HasPage, Types,
       TaskTypes, PoolTypeOK, poolVars, countVars
  <1>10. ASSUME NEW t \in Tasks, CreateContext(t)
         PROVE  OnlyCloses
    BY <1>10 DEF CreateContext, Go, Set, OnlyCloses, HasPage, Types, TaskTypes, PoolTypeOK,
       poolVars,
       countVars
  <1>11. ASSUME NEW t \in Tasks, ContextFails(t)
         PROVE  OnlyCloses
    BY <1>11 DEF ContextFails, Finish, Go, Set, OnlyCloses, HasPage, Types, TaskTypes,
       PoolTypeOK,
       poolVars, countVars
  <1>12. ASSUME NEW t \in Tasks, NoIdle(t)
         PROVE  OnlyCloses
    BY <1>12 DEF NoIdle, AcquireNone, Go, OnlyCloses, HasPage, Types, TaskTypes, PoolTypeOK,
       countVars
  <1>13. ASSUME NEW t \in Tasks, ResetOk(t)
         PROVE  OnlyCloses
    BY <1>13 DEF ResetOk, Go, OnlyCloses, HasPage, Types, TaskTypes, PoolTypeOK, poolVars,
       countVars
  <1>14. ASSUME NEW t \in Tasks, ResetFails(t)
         PROVE  EndsLease(t)
    BY <1>14 DEF ResetFails, Uncount, Bump, Go, Set, EndsLease, HasPage, Types, TaskTypes,
       PoolTypeOK, countVars
  <1>15. ASSUME NEW t \in Tasks, OpenFails(t)
         PROVE  OnlyCloses
    BY <1>15 DEF OpenFails, Finish, Go, Set, OnlyCloses, HasPage, Types, TaskTypes, PoolTypeOK,
       poolVars, countVars
  <1>16. ASSUME NEW t \in Tasks, InstallOk(t)
         PROVE  OnlyCloses
    BY <1>16 DEF InstallOk, Go, OnlyCloses, HasPage, Types, TaskTypes, PoolTypeOK, poolVars,
       countVars
  <1>17. ASSUME NEW t \in Tasks, LosesPage(t)
         PROVE  EndsLease(t)
    BY <1>17 DEF LosesPage, Finish, Go, Set, EndsLease, HasPage, Types, TaskTypes, PoolTypeOK,
       poolVars
  <1>18. ASSUME NEW t \in Tasks, ReleaseDirty(t)
         PROVE  EndsLease(t)
    BY <1>18 DEF ReleaseDirty, Uncount, Bump, Finish, Go, Set, EndsLease, HasPage, Types,
       TaskTypes, PoolTypeOK, countVars
  <1>19. ASSUME NEW t \in Tasks, ReleaseClean(t)
         PROVE  OnlyCloses
    BY <1>19 DEF ReleaseClean, Uncount, Bump, Go, OnlyCloses, HasPage, Types, TaskTypes,
       PoolTypeOK,
       countVars
  <1>20. ASSUME NEW t \in Tasks, Cancelled(t)
         PROVE  OnlyCloses
    BY <1>20 DEF Cancelled, Finish, Go, Set, OnlyCloses, HasPage, Types, TaskTypes, PoolTypeOK,
       poolVars, countVars
  <1>21. ASSUME NEW t \in Tasks, NEW k \in Keys, Begin(t, k)
         PROVE  OnlyCloses
    BY <1>21, SMTT(40) DEF Begin, Go, Set, OnlyCloses, HasPage, Types, TaskTypes, PoolTypeOK,
       poolVars
  <1>22. ASSUME NEW d \in Droppers, DropPages(d)
         PROVE  OnlyCloses
    BY <1>22 DEF DropPages, DropIdle, OnlyCloses, HasPage, Types, TaskTypes,
       PoolTypeOK, taskVars, countVars
  <1>23. ASSUME NEW d \in Droppers, Dispose(d)
         PROVE  OnlyCloses
    BY <1>23 DEF Dispose, OnlyCloses, HasPage, Types, TaskTypes, PoolTypeOK, poolVars, taskVars,
       countVars
  <1>24. ASSUME NEW d \in Droppers, ForgetContext(d)
         PROVE  OnlyCloses
    BY <1>24 DEF ForgetContext, OnlyCloses, HasPage, Types, TaskTypes, PoolTypeOK, poolVars,
       taskVars, countVars
  <1>25. ASSUME NEW d \in Droppers, EndDrop(d)
         PROVE  OnlyCloses
    BY <1>25 DEF EndDrop, OnlyCloses, HasPage, Types, TaskTypes, PoolTypeOK, poolVars, taskVars,
       countVars
  <1>26. ASSUME NEW d \in Droppers, NEW s \in Sessions, StartDrop(d, s)
         PROVE  OnlyCloses
    BY <1>26 DEF StartDrop, OnlyCloses, HasPage, Types, TaskTypes, PoolTypeOK, poolVars,
       taskVars
  <1>27. ASSUME NEW i \in watched, ChromeDies(i)
         PROVE  OnlyCloses
    BY <1>27 DEF ChromeDies, OnlyCloses, HasPage, Types, TaskTypes, PoolTypeOK, poolVars,
       taskVars
  <1>28. ASSUME NEW t \in Tasks, SweepIdle(t) \/ SweepCounter(t)
         PROVE  OnlyCloses
    BY <1>28 DEF SweepIdle, SweepCounter, DropIdle, RemoveCounter, OnlyCloses, HasPage, Types,
       TaskTypes, PoolTypeOK, taskVars, countVars
  <1>29. ASSUME NEW t \in Tasks, Fetch(t)
         PROVE  OnlyCloses
    BY <1>29 DEF Fetch, CountersFor, OnlyCloses, HasPage, Types, TaskTypes, PoolTypeOK, taskVars,
       countVars
  <1>30. ASSUME NEW t \in Tasks, RegisterFresh(t)
         PROVE  OnlyCloses
    BY <1>30 DEF RegisterFresh, CountFresh, Bump, Go, OnlyCloses, HasPage, Types, TaskTypes,
       PoolTypeOK, countVars
  <1>31. ASSUME NEW d \in Droppers, DropCounter(d)
         PROVE  OnlyCloses
    BY <1>31 DEF DropCounter, RemoveCounter, OnlyCloses, HasPage, Types, TaskTypes, PoolTypeOK,
       taskVars, countVars
  <1>32. CASE UNCHANGED vars
    BY <1>32 DEF vars, poolVars, taskVars, countVars, OnlyCloses, HasPage, Types, TaskTypes,
       PoolTypeOK
  <1> QED
    BY <1>1, <1>2, <1>3, <1>4, <1>5, <1>6, <1>7, <1>8, <1>9, <1>10, <1>11, <1>12, <1>13, <1>14,
       <1>15, <1>16, <1>17, <1>18, <1>19, <1>20, <1>21, <1>22, <1>23, <1>24, <1>25, <1>26,
       <1>27, <1>28, <1>29, <1>30, <1>31, <1>32 DEF Next, Step, DropStep, Done

\* What is left of the tabs in hand and in the queues when none is added.
Fewer ==
    /\ pages' = pages
    /\ \A t \in Tasks : at'[t] \in HasPage => at[t] \in HasPage /\ page'[t] = page[t]
    /\ \A t \in Tasks : at'[t] = "stash" => at[t] = "stash" \/ ~WornOut(page[t])
    /\ \A k \in Keys : idle'[k] = idle[k] \/ idle'[k] = <<>>

LEMMA TabSteps ==
    ASSUME Types, [Next]_vars
    PROVE  \/ Fewer
           \/ \E t \in Tasks : Open(t) \/ StashPage(t)
           \/ \E t \in Tasks, n \in 1 .. MaxPages : TakeIdle(t, n)
  <1>1. OnlyCloses => Fewer
    BY DEF OnlyCloses, Fewer
  <1>2. ASSUME NEW t \in Tasks, EndsLease(t)
        PROVE  Fewer
    BY <1>2 DEF EndsLease, Fewer, HasPage
  <1> QED
    BY <1>1, <1>2, LeaseSteps

\* Every tab has a number given before, and what is stashed may be lent again.
TabsKnown ==
    /\ \A t \in Tasks : at[t] \in HasPage => page[t].id \in 1 .. pages
    /\ \A k \in Keys : \A n \in 1 .. Len(idle[k]) : idle[k][n].id \in 1 .. pages
    /\ \A t \in Tasks : at[t] = "stash" => ~WornOut(page[t])

\* What the queues hold after a tab is taken.
LEMMA AfterTake ==
    ASSUME Types, NEW t \in Tasks, NEW n \in 1 .. MaxPages, TakeIdle(t, n), NEW l \in Keys
    PROVE  /\ key[t] \in Keys /\ n \in 1 .. Len(idle[key[t]]) /\ ~WornOut(idle[key[t]][n])
           /\ l # key[t] => idle'[l] = idle[l]
           /\ l = key[t] => /\ Len(idle'[l]) = Len(idle[l]) - n
                            /\ \A i \in 1 .. Len(idle'[l]) : /\ n + i \in 1 .. Len(idle[l])
                                                             /\ n + i # n
                                                             /\ idle'[l][i] = idle[l][n + i]
  <1>1. key[t] \in Keys /\ n \in 1 .. Len(idle[key[t]]) /\ ~WornOut(idle[key[t]][n])
    BY TaskReads DEF TakeIdle, TryAcquire
  <1>2. idle \in [Keys -> Seq(Page)]
    BY DEF Types, PoolTypeOK
  <1>3. idle' = [idle EXCEPT ![key[t]] = SubSeq(@, n + 1, Len(@))]
    BY DEF TakeIdle, TryAcquire
  <1>4. l # key[t] => idle'[l] = idle[l]
    BY <1>2, <1>3
  <1>5. ASSUME l = key[t]
        PROVE  /\ Len(idle'[l]) = Len(idle[l]) - n
               /\ \A i \in 1 .. Len(idle'[l]) : /\ n + i \in 1 .. Len(idle[l])
                                                /\ n + i # n
                                                /\ idle'[l][i] = idle[l][n + i]
    <2>1. idle'[l] = SubSeq(idle[l], n + 1, Len(idle[l])) /\ idle[l] \in Seq(Page)
      BY <1>2, <1>3, <1>5
    <2>2. n \in 1 .. Len(idle[l])
      BY <1>1, <1>5
    <2> QED
      BY <2>1, <2>2
  <1> QED
    BY <1>1, <1>4, <1>5

\* And after one is stashed.
LEMMA AfterStash ==
    ASSUME Types, NEW t \in Tasks, StashPage(t), NEW l \in Keys
    PROVE  /\ key[t] \in Keys
           /\ l # key[t] => idle'[l] = idle[l]
           /\ \/ idle'[l] = idle[l]
              \/ /\ l = key[t]
                 /\ Len(idle[l]) < MaxPages
                 /\ Len(idle'[l]) = Len(idle[l]) + 1 /\ Len(idle[l]) \in Nat
                 /\ idle'[l][Len(idle[l]) + 1] = page[t]
                 /\ \A i \in 1 .. Len(idle[l]) : idle'[l][i] = idle[l][i]
  <1>1. key[t] \in Keys /\ page[t] \in Page
    BY TaskReads DEF StashPage, Types, TaskTypes
  <1>2. idle \in [Keys -> Seq(Page)]
    BY DEF Types, PoolTypeOK
  <1>3. idle' = [idle EXCEPT ![key[t]] = IF Len(@) < MaxPages THEN Append(@, page[t]) ELSE @]
    BY DEF StashPage, Stash
  <1>4. l # key[t] => idle'[l] = idle[l]
    BY <1>2, <1>3
  <1>5. CASE l = key[t] /\ Len(idle[l]) < MaxPages
    <2>1. idle'[l] = Append(idle[l], page[t]) /\ idle[l] \in Seq(Page)
      BY <1>2, <1>3, <1>5
    <2> QED
      BY <1>1, <1>4, <1>5, <2>1
  <1>6. CASE l = key[t] /\ ~ (Len(idle[l]) < MaxPages)
    BY <1>1, <1>2, <1>3, <1>6
  <1> QED
    BY <1>1, <1>4, <1>5, <1>6

LEMMA InitTabs == Init => TabsKnown /\ PageHeldOnce /\ IdleReusable
  BY PoolAssumption DEF Init, PoolInit, TabsKnown, PageHeldOnce, IdleReusable, HasPage

LEMMA NextTabsKnown == Types /\ TabsKnown /\ [Next]_vars => TabsKnown'
  <1> SUFFICES ASSUME Types, TabsKnown, [Next]_vars
               PROVE  TabsKnown'
    OBVIOUS
  <1>0. /\ pages \in Nat /\ idle \in [Keys -> Seq(Page)]
        /\ page \in [Tasks -> Page] /\ at \in [Tasks -> Steps]
    BY DEF Types, CountTypes, PoolTypeOK, TaskTypes
  <1>1. CASE Fewer
    <2>1. \A t \in Tasks : at'[t] = "stash" => ~WornOut(page'[t])
      BY <1>1 DEF Fewer, TabsKnown, HasPage
    <2> QED
      BY <1>1, <2>1 DEF Fewer, TabsKnown, WornOut
  <1>2. ASSUME NEW t \in Tasks, Open(t)
        PROVE  TabsKnown'
    <2>1. pages' = pages + 1 /\ idle' = idle /\ page'[t].id = pages'
          /\ at' = [at EXCEPT ![t] = "register"]
          /\ \A u \in Tasks \ {t} : page'[u] = page[u]
      BY <1>0, <1>2 DEF Open, CountersFor, Go, Set
    <2> QED
      BY <1>0, <2>1 DEF TabsKnown, HasPage, WornOut
  <1>3. ASSUME NEW t \in Tasks, StashPage(t)
        PROVE  TabsKnown'
    <2>1. pages' = pages /\ at'[t] = "idle" /\ at[t] = "stash"
          /\ \A u \in Tasks \ {t} : at'[u] = at[u] /\ page'[u] = page[u]
      BY <1>0, <1>3 DEF StashPage, Finish, Go, Set, countVars
    <2>2. ASSUME NEW l \in Keys, NEW i \in 1 .. Len(idle'[l])
          PROVE  idle'[l][i].id \in 1 .. pages'
      <3>1. CASE idle'[l] = idle[l]
        BY <2>1, <3>1 DEF TabsKnown
      <3>2. CASE i = Len(idle[l]) + 1 /\ idle'[l][i] = page[t]
        BY <2>1, <3>2 DEF TabsKnown, HasPage
      <3>3. CASE i \in 1 .. Len(idle[l]) /\ idle'[l][i] = idle[l][i]
        BY <2>1, <3>3 DEF TabsKnown
      <3> QED
        BY <1>3, <3>1, <3>2, <3>3, AfterStash, SMTT(40)
    <2> QED
      BY <2>1, <2>2 DEF TabsKnown, HasPage, WornOut
  <1>4. ASSUME NEW t \in Tasks, NEW n \in 1 .. MaxPages, TakeIdle(t, n)
        PROVE  TabsKnown'
    <2>1. pages' = pages /\ at'[t] = "reset" /\ page'[t].id = idle[key[t]][n].id
          /\ \A u \in Tasks \ {t} : at'[u] = at[u] /\ page'[u] = page[u]
      BY <1>0, <1>4, AfterTake DEF TakeIdle, Lent, Go, Set, countVars
    <2>2. ASSUME NEW l \in Keys, NEW i \in 1 .. Len(idle'[l])
          PROVE  idle'[l][i].id \in 1 .. pages'
      <3>1. CASE l # key[t]
        BY <1>4, <2>1, <3>1, AfterTake, ZenonT(60) DEF TabsKnown
      <3>2. CASE l = key[t]
        <4>1. n + i \in 1 .. Len(idle[l]) /\ idle'[l][i] = idle[l][n + i]
          BY <1>4, <3>2, AfterTake, ZenonT(60)
        <4> QED
          BY <2>1, <4>1 DEF TabsKnown
      <3> QED
        BY <3>1, <3>2
    <2>3. page'[t].id \in 1 .. pages'
      <3>1. key[t] \in Keys
        BY <1>4, TaskReads DEF TakeIdle
      <3>2. n \in 1 .. Len(idle[key[t]])
        BY <1>4, <3>1, AfterTake
      <3> QED
        BY <2>1, <3>1, <3>2 DEF TabsKnown
    <2> QED
      BY <2>1, <2>2, <2>3 DEF TabsKnown, HasPage, WornOut
  <1> QED
    BY <1>1, <1>2, <1>3, <1>4, TabSteps

LEMMA NextPageHeldOnce ==
    Types /\ TabsKnown /\ PageHeldOnce /\ [Next]_vars => PageHeldOnce'
  <1> SUFFICES ASSUME Types, TabsKnown, PageHeldOnce, [Next]_vars
               PROVE  PageHeldOnce'
    OBVIOUS
  <1>0. /\ pages \in Nat /\ idle \in [Keys -> Seq(Page)]
        /\ page \in [Tasks -> Page] /\ at \in [Tasks -> Steps]
    BY DEF Types, CountTypes, PoolTypeOK, TaskTypes
  <1>1. CASE Fewer
    BY <1>1, SMTT(40) DEF Fewer, PageHeldOnce
  <1>2. ASSUME NEW t \in Tasks, Open(t)
        PROVE  PageHeldOnce'
    <2>1. /\ idle' = idle /\ page'[t].id = pages + 1
          /\ at' = [at EXCEPT ![t] = "register"]
          /\ \A u \in Tasks \ {t} : page'[u] = page[u]
      BY <1>0, <1>2 DEF Open, CountersFor, Go, Set
    <2>2. \A i \in 1 .. pages : i # pages + 1
      BY <1>0
    <2> QED
      BY <1>0, <2>1, <2>2, SMTT(40) DEF PageHeldOnce, TabsKnown, HasPage
  <1>3. ASSUME NEW t \in Tasks, StashPage(t)
        PROVE  PageHeldOnce'
    <2>1. /\ at'[t] = "idle" /\ at[t] = "stash" /\ "idle" \notin HasPage /\ "stash" \in HasPage
          /\ \A u \in Tasks \ {t} : at'[u] = at[u] /\ page'[u] = page[u]
      BY <1>0, <1>3 DEF StashPage, Finish, Go, Set, HasPage
    <2> DEFINE New(l, i) == l = key[t] /\ i = Len(idle[l]) + 1 /\ idle'[l][i] = page[t]
               Same(l, i) == i \in 1 .. Len(idle[l]) /\ idle'[l][i] = idle[l][i]
    <2>2. \A l \in Keys : \A i \in 1 .. Len(idle'[l]) : New(l, i) \/ Same(l, i)
      <3> SUFFICES ASSUME NEW l \in Keys, NEW i \in 1 .. Len(idle'[l])
                   PROVE  New(l, i) \/ Same(l, i)
        OBVIOUS
      <3>1. CASE idle'[l] = idle[l]
        BY <3>1
      <3>2. CASE idle'[l] # idle[l]
        BY <1>3, <3>2, AfterStash
      <3> QED
        BY <3>1, <3>2
    <2> HIDE DEF New, Same
    <2>3. \A u \in Tasks : at'[u] \in HasPage => u # t /\ at[u] \in HasPage /\ page'[u] = page[u]
      BY <2>1
    <2>4. \A t1, u1 \in Tasks :
            at'[t1] \in HasPage /\ at'[u1] \in HasPage /\ t1 # u1 => page'[t1].id # page'[u1].id
      BY <2>3 DEF PageHeldOnce
    <2>5. \A u \in Tasks, l \in Keys : \A i \in 1 .. Len(idle'[l]) :
            at'[u] \in HasPage => idle'[l][i].id # page'[u].id
      <3> SUFFICES ASSUME NEW u \in Tasks, NEW l \in Keys, NEW i \in 1 .. Len(idle'[l]),
                          at'[u] \in HasPage
                   PROVE  idle'[l][i].id # page'[u].id
        OBVIOUS
      <3>1. CASE New(l, i)
        BY <2>1, <2>3, <3>1 DEF PageHeldOnce, New
      <3>2. CASE Same(l, i)
        BY <2>3, <3>2 DEF PageHeldOnce, Same
      <3> QED
        BY <2>2, <3>1, <3>2
    <2>6. \A k, l \in Keys : \A m \in 1 .. Len(idle'[k]), n \in 1 .. Len(idle'[l]) :
            <<k, m>> # <<l, n>> => idle'[k][m].id # idle'[l][n].id
      <3> SUFFICES ASSUME NEW k \in Keys, NEW l \in Keys, NEW m \in 1 .. Len(idle'[k]),
                          NEW n \in 1 .. Len(idle'[l]), <<k, m>> # <<l, n>>
                   PROVE  idle'[k][m].id # idle'[l][n].id
        OBVIOUS
      <3>1. CASE New(k, m) /\ New(l, n)
        BY <3>1 DEF New
      <3>2. CASE New(k, m) /\ Same(l, n)
        BY <2>1, <3>2 DEF PageHeldOnce, New, Same
      <3>3. CASE Same(k, m) /\ New(l, n)
        BY <2>1, <3>3 DEF PageHeldOnce, New, Same
      <3>4. CASE Same(k, m) /\ Same(l, n)
        BY <3>4 DEF PageHeldOnce, Same
      <3> QED
        BY <2>2, <3>1, <3>2, <3>3, <3>4
    <2> QED
      BY <2>4, <2>5, <2>6 DEF PageHeldOnce
  <1>4. ASSUME NEW t \in Tasks, NEW n \in 1 .. MaxPages, TakeIdle(t, n)
        PROVE  PageHeldOnce'
    <2>1. /\ at'[t] = "reset" /\ page'[t].id = idle[key[t]][n].id
          /\ \A u \in Tasks \ {t} : at'[u] = at[u] /\ page'[u] = page[u]
      BY <1>0, <1>4 DEF TakeIdle, Lent, Go, Set
    <2>2. key[t] \in Keys
      BY <1>4, TaskReads DEF TakeIdle
    <2>3. n \in 1 .. Len(idle[key[t]])
      BY <1>4, <2>2, AfterTake
    <2> DEFINE old(l, i) == IF l = key[t] THEN n + i ELSE i
    <2>4. \A l \in Keys : \A i \in 1 .. Len(idle'[l]) :
            /\ old(l, i) \in 1 .. Len(idle[l]) /\ idle'[l][i] = idle[l][old(l, i)]
            /\ <<l, old(l, i)>> # <<key[t], n>>
      <3> SUFFICES ASSUME NEW l \in Keys, NEW i \in 1 .. Len(idle'[l])
                   PROVE  /\ old(l, i) \in 1 .. Len(idle[l]) /\ idle'[l][i] = idle[l][old(l, i)]
                          /\ <<l, old(l, i)>> # <<key[t], n>>
        OBVIOUS
      <3>1. CASE l = key[t]
        BY <1>4, <3>1, AfterTake
      <3>2. CASE l # key[t]
        BY <1>4, <3>2, AfterTake
      <3> QED
        BY <3>1, <3>2
    <2>5. \A k, l \in Keys : \A i, j \in Nat :
            <<k, i>> # <<l, j>> => <<k, old(k, i)>> # <<l, old(l, j)>>
      OBVIOUS
    <2> HIDE DEF old
    <2>6. \A t1, u1 \in Tasks :
            at'[t1] \in HasPage /\ at'[u1] \in HasPage /\ t1 # u1 => page'[t1].id # page'[u1].id
      BY <2>1, <2>2, <2>3 DEF PageHeldOnce
    <2>7. \A u \in Tasks, l \in Keys : \A i \in 1 .. Len(idle'[l]) :
            at'[u] \in HasPage => idle'[l][i].id # page'[u].id
      <3> SUFFICES ASSUME NEW u \in Tasks, NEW l \in Keys, NEW i \in 1 .. Len(idle'[l]),
                          at'[u] \in HasPage
                   PROVE  idle'[l][i].id # page'[u].id
        OBVIOUS
      <3>1. CASE u = t
        <4>1. PICK j \in 1 .. Len(idle[l]) : idle'[l][i] = idle[l][j] /\ <<l, j>> # <<key[t], n>>
          BY <2>4
        <4>2. idle[l][j].id # idle[key[t]][n].id
          BY <2>2, <2>3, <4>1 DEF PageHeldOnce
        <4> QED
          BY <2>1, <3>1, <4>1, <4>2
      <3>2. CASE u # t
        <4>1. PICK j \in 1 .. Len(idle[l]) : idle'[l][i] = idle[l][j]
          BY <2>4
        <4>2. at[u] \in HasPage /\ page'[u] = page[u]
          BY <2>1, <3>2
        <4> QED
          BY <4>1, <4>2 DEF PageHeldOnce
      <3> QED
        BY <3>1, <3>2
    <2>8. \A k, l \in Keys : \A i \in 1 .. Len(idle'[k]), j \in 1 .. Len(idle'[l]) :
            <<k, i>> # <<l, j>> => idle'[k][i].id # idle'[l][j].id
      <3> SUFFICES ASSUME NEW k \in Keys, NEW l \in Keys, NEW i \in 1 .. Len(idle'[k]),
                          NEW j \in 1 .. Len(idle'[l]), <<k, i>> # <<l, j>>
                   PROVE  idle'[k][i].id # idle'[l][j].id
        OBVIOUS
      <3>1. i \in Nat /\ j \in Nat
        BY <2>4 DEF old
      <3>2. <<k, old(k, i)>> # <<l, old(l, j)>>
        BY <2>5, <3>1
      <3>3. /\ old(k, i) \in 1 .. Len(idle[k]) /\ old(l, j) \in 1 .. Len(idle[l])
            /\ idle'[k][i] = idle[k][old(k, i)] /\ idle'[l][j] = idle[l][old(l, j)]
        BY <2>4
      <3> QED
        BY <3>2, <3>3, SMTT(40) DEF PageHeldOnce
    <2> QED
      BY <2>6, <2>7, <2>8 DEF PageHeldOnce
  <1> QED
    BY <1>1, <1>2, <1>3, <1>4, TabSteps

LEMMA NextIdleReusable ==
    Types /\ TabsKnown /\ IdleReusable /\ [Next]_vars => IdleReusable'
  <1> SUFFICES ASSUME Types, TabsKnown, IdleReusable, [Next]_vars
               PROVE  IdleReusable'
    OBVIOUS
  <1>a. \A k \in Keys : \A i \in 1 .. Len(idle'[k]) : idle'[k][i].uses \in Nat
    <2>1. Types'
      BY NextTypes
    <2>2. \A k \in Keys : \A i \in 1 .. Len(idle'[k]) : idle'[k][i] \in Page
      <3>1. \A k \in Keys : idle'[k] \in Seq(Page)
        BY <2>1 DEF Types, PoolTypeOK
      <3> QED
        BY <3>1
    <2> QED
      BY <2>2, PoolAssumption DEF Page
  <1> SUFFICES ASSUME NEW k \in Keys
               PROVE  /\ Len(idle'[k]) <= MaxPages
                      /\ \A i \in 1 .. Len(idle'[k]) : idle'[k][i].uses < MaxUses
    BY <1>a, PoolAssumption DEF IdleReusable, WornOut
  <1>0. /\ idle[k] \in Seq(Page) /\ Len(idle[k]) <= MaxPages /\ MaxPages \in Nat /\ MaxUses \in Nat
        /\ Len(idle[k]) \in Nat
    BY PoolAssumption DEF Types, PoolTypeOK, IdleReusable
  <1>1. \A i \in 1 .. Len(idle[k]) : idle[k][i].uses < MaxUses
    <2>1. \A i \in 1 .. Len(idle[k]) : idle[k][i] \in Page /\ ~WornOut(idle[k][i])
      BY <1>0 DEF IdleReusable
    <2> QED
      BY <1>0, <2>1, SMTT(40) DEF Page, WornOut
  <1>2. CASE Fewer \/ \E t \in Tasks : Open(t)
    <2>1. idle'[k] = idle[k] \/ idle'[k] = <<>>
      BY <1>2 DEF Fewer, Open, CountersFor
    <2> QED
      BY <1>0, <1>1, <2>1
  <1>3. ASSUME NEW t \in Tasks, StashPage(t)
        PROVE  /\ Len(idle'[k]) <= MaxPages
               /\ \A i \in 1 .. Len(idle'[k]) : idle'[k][i].uses < MaxUses
    <2>1. page[t].uses < MaxUses
      <3>1. page[t] \in Page /\ ~WornOut(page[t])
        BY <1>3 DEF StashPage, TabsKnown, Types, TaskTypes
      <3> QED
        BY <1>0, <3>1 DEF Page, WornOut
    <2>2. CASE idle'[k] = idle[k]
      BY <1>0, <1>1, <2>2
    <2>3. CASE idle'[k] # idle[k]
      <3>1. /\ Len(idle[k]) < MaxPages /\ Len(idle'[k]) = Len(idle[k]) + 1
            /\ idle'[k][Len(idle[k]) + 1] = page[t]
            /\ \A i \in 1 .. Len(idle[k]) : idle'[k][i] = idle[k][i]
        BY <1>3, <2>3, AfterStash
      <3>2. Len(idle'[k]) <= MaxPages
        BY <1>0, <3>1
      <3>3. ASSUME NEW i \in 1 .. Len(idle'[k])
            PROVE  idle'[k][i].uses < MaxUses
        <4>1. i \in 1 .. Len(idle[k]) \/ i = Len(idle[k]) + 1
          BY <1>0, <3>1
        <4> QED
          BY <1>1, <2>1, <3>1, <4>1
      <3> QED
        BY <3>2, <3>3
    <2> QED
      BY <2>2, <2>3
  <1>4. ASSUME NEW t \in Tasks, NEW n \in 1 .. MaxPages, TakeIdle(t, n)
        PROVE  /\ Len(idle'[k]) <= MaxPages
               /\ \A i \in 1 .. Len(idle'[k]) : idle'[k][i].uses < MaxUses
    <2>1. CASE k # key[t]
      BY <1>0, <1>1, <1>4, <2>1, AfterTake
    <2>2. CASE k = key[t]
      <3>1. /\ Len(idle'[k]) = Len(idle[k]) - n
            /\ \A i \in 1 .. Len(idle'[k]) : /\ n + i \in 1 .. Len(idle[k])
                                             /\ idle'[k][i] = idle[k][n + i]
        BY <1>4, <2>2, AfterTake, ZenonT(60)
      <3>2. Len(idle'[k]) <= MaxPages
        BY <1>0, <3>1
      <3>3. \A i \in 1 .. Len(idle'[k]) : idle'[k][i].uses < MaxUses
        BY <1>1, <3>1
      <3> QED
        BY <3>2, <3>3
    <2> QED
      BY <2>1, <2>2
  <1> QED
    BY <1>2, <1>3, <1>4, TabSteps

(* Browsers. *)

\* A step that books nobody.
BookKeeps ==
    /\ mru' = mru
    /\ \A t \in Tasks : at[t] = "book" => at'[t] = "book" /\ key'[t] = key[t]
    /\ \A b \in Browsers : browsers'[b] # 0 =>
         browsers[b] # 0 \/ \E t \in Tasks : at'[t] = "book" /\ key'[t][1] = b

LEMMA BookSteps ==
    ASSUME Types, [Next]_vars
    PROVE  BookKeeps \/ \E t \in Tasks : Book(t)
  <1>1. ASSUME NEW t \in Tasks, FindBrowser(t)
        PROVE  BookKeeps \/ \E u \in Tasks : Book(u)
    BY <1>1 DEF FindBrowser, HoldBrowser, Go, BookKeeps, Types, TaskTypes, browserVars
  <1>2. ASSUME NEW t \in Tasks, LockBrowser(t)
        PROVE  BookKeeps \/ \E u \in Tasks : Book(u)
    BY <1>2 DEF LockBrowser, HoldBrowser, Go, BookKeeps, Types, TaskTypes, browserVars
  <1>3. ASSUME NEW t \in Tasks, Launch(t)
        PROVE  BookKeeps \/ \E u \in Tasks : Book(u)
    BY <1>3 DEF Launch, B, Go, Set, BookKeeps, Types, TaskTypes, BrowserTypes
  <1>4. ASSUME NEW t \in Tasks, LaunchFails(t)
        PROVE  BookKeeps \/ \E u \in Tasks : Book(u)
    BY <1>4 DEF LaunchFails, Finish, Go, Set, BookKeeps, Types, TaskTypes, BrowserTypes, B,
       browserVars
  <1>5. ASSUME NEW t \in Tasks, Book(t)
        PROVE  BookKeeps \/ \E u \in Tasks : Book(u)
    BY <1>5
  <1>6. ASSUME NEW t \in Tasks, Forget(t)
        PROVE  BookKeeps \/ \E u \in Tasks : Book(u)
    BY <1>6 DEF Forget, Go, BookKeeps, Types, TaskTypes, BrowserTypes, B
  <1>7. ASSUME NEW t \in Tasks, Prune(t)
        PROVE  BookKeeps \/ \E u \in Tasks : Book(u)
    BY <1>7 DEF Prune, Go, Set, BookKeeps, Types, TaskTypes, BrowserTypes, B, browserVars
  <1>8. ASSUME NEW t \in Tasks, FindContext(t)
        PROVE  BookKeeps \/ \E u \in Tasks : Book(u)
    BY <1>8 DEF FindContext, HoldContext, Go, BookKeeps, Types, TaskTypes, browserVars
  <1>9. ASSUME NEW t \in Tasks, LockContext(t)
        PROVE  BookKeeps \/ \E u \in Tasks : Book(u)
    BY <1>9 DEF LockContext, HoldContext, Go, BookKeeps, Types, TaskTypes, browserVars
  <1>10. ASSUME NEW t \in Tasks, CreateContext(t)
         PROVE  BookKeeps \/ \E u \in Tasks : Book(u)
    BY <1>10 DEF CreateContext, Go, Set, BookKeeps, Types, TaskTypes, BrowserTypes, B,
       browserVars
  <1>11. ASSUME NEW t \in Tasks, ContextFails(t)
         PROVE  BookKeeps \/ \E u \in Tasks : Book(u)
    BY <1>11 DEF ContextFails, Finish, Go, Set, BookKeeps, Types, TaskTypes, BrowserTypes, B,
       browserVars
  <1>12. ASSUME NEW t \in Tasks, NEW n \in 1 .. MaxPages, TakeIdle(t, n)
         PROVE  BookKeeps \/ \E u \in Tasks : Book(u)
    BY <1>12 DEF TakeIdle, Go, Set, BookKeeps, Types, TaskTypes, BrowserTypes, B, browserVars
  <1>13. ASSUME NEW t \in Tasks, NoIdle(t)
         PROVE  BookKeeps \/ \E u \in Tasks : Book(u)
    BY <1>13 DEF NoIdle, Go, BookKeeps, Types, TaskTypes, BrowserTypes, B, browserVars
  <1>14. ASSUME NEW t \in Tasks, ResetOk(t)
         PROVE  BookKeeps \/ \E u \in Tasks : Book(u)
    BY <1>14 DEF ResetOk, Go, BookKeeps, Types, TaskTypes, BrowserTypes, B, browserVars
  <1>15. ASSUME NEW t \in Tasks, ResetFails(t)
         PROVE  BookKeeps \/ \E u \in Tasks : Book(u)
    BY <1>15 DEF ResetFails, Go, Set, BookKeeps, Types, TaskTypes, BrowserTypes, B, browserVars
  <1>16. ASSUME NEW t \in Tasks, Open(t)
         PROVE  BookKeeps \/ \E u \in Tasks : Book(u)
    BY <1>16 DEF Open, Go, Set, BookKeeps, Types, TaskTypes, BrowserTypes, B, browserVars
  <1>17. ASSUME NEW t \in Tasks, OpenFails(t)
         PROVE  BookKeeps \/ \E u \in Tasks : Book(u)
    BY <1>17 DEF OpenFails, Finish, Go, Set, BookKeeps, Types, TaskTypes, BrowserTypes, B,
       browserVars
  <1>18. ASSUME NEW t \in Tasks, InstallOk(t)
         PROVE  BookKeeps \/ \E u \in Tasks : Book(u)
    BY <1>18 DEF InstallOk, Go, BookKeeps, Types, TaskTypes, BrowserTypes, B, browserVars
  <1>19. ASSUME NEW t \in Tasks, LosesPage(t)
         PROVE  BookKeeps \/ \E u \in Tasks : Book(u)
    BY <1>19 DEF LosesPage, Finish, Go, Set, BookKeeps, Types, TaskTypes, BrowserTypes, B,
       browserVars
  <1>20. ASSUME NEW t \in Tasks, ReleaseDirty(t)
         PROVE  BookKeeps \/ \E u \in Tasks : Book(u)
    BY <1>20 DEF ReleaseDirty, Finish, Go, Set, BookKeeps, Types, TaskTypes, BrowserTypes, B,
       browserVars
  <1>21. ASSUME NEW t \in Tasks, ReleaseClean(t)
         PROVE  BookKeeps \/ \E u \in Tasks : Book(u)
    BY <1>21 DEF ReleaseClean, Go, BookKeeps, Types, TaskTypes, BrowserTypes, B, browserVars
  <1>22. ASSUME NEW t \in Tasks, StashPage(t)
         PROVE  BookKeeps \/ \E u \in Tasks : Book(u)
    BY <1>22 DEF StashPage, Finish, Go, Set, BookKeeps, Types, TaskTypes, BrowserTypes, B,
       browserVars
  <1>23. ASSUME NEW t \in Tasks, Cancelled(t)
         PROVE  BookKeeps \/ \E u \in Tasks : Book(u)
    BY <1>23 DEF Cancelled, Finish, Go, Set, BookKeeps, Types, TaskTypes, BrowserTypes, B,
       browserVars
  <1>24. ASSUME NEW t \in Tasks, NEW k \in Keys, Begin(t, k)
         PROVE  BookKeeps \/ \E u \in Tasks : Book(u)
    BY <1>24 DEF Begin, Go, Set, BookKeeps, Types, TaskTypes, BrowserTypes, B, browserVars
  <1>25. ASSUME NEW d \in Droppers, DropPages(d)
         PROVE  BookKeeps \/ \E u \in Tasks : Book(u)
    BY <1>25 DEF DropPages, BookKeeps, Types, TaskTypes, BrowserTypes, B, taskVars, browserVars
  <1>26. ASSUME NEW d \in Droppers, Dispose(d)
         PROVE  BookKeeps \/ \E u \in Tasks : Book(u)
    BY <1>26 DEF Dispose, BookKeeps, Types, TaskTypes, BrowserTypes, B, taskVars, browserVars
  <1>27. ASSUME NEW d \in Droppers, ForgetContext(d)
         PROVE  BookKeeps \/ \E u \in Tasks : Book(u)
    BY <1>27 DEF ForgetContext, BookKeeps, Types, TaskTypes, BrowserTypes, B, taskVars,
       browserVars
  <1>28. ASSUME NEW d \in Droppers, EndDrop(d)
         PROVE  BookKeeps \/ \E u \in Tasks : Book(u)
    BY <1>28 DEF EndDrop, BookKeeps, Types, TaskTypes, BrowserTypes, B, taskVars, browserVars
  <1>29. ASSUME NEW d \in Droppers, NEW s \in Sessions, StartDrop(d, s)
         PROVE  BookKeeps \/ \E u \in Tasks : Book(u)
    BY <1>29 DEF StartDrop, BookKeeps, Types, TaskTypes, BrowserTypes, B, taskVars, browserVars
  <1>30. ASSUME NEW i \in watched, ChromeDies(i)
         PROVE  BookKeeps \/ \E u \in Tasks : Book(u)
    BY <1>30 DEF ChromeDies, BookKeeps, Types, TaskTypes, BrowserTypes, B, taskVars
  <1>31. CASE UNCHANGED vars
    BY <1>31 DEF vars, taskVars, browserVars, BookKeeps, Types, TaskTypes, BrowserTypes, B
  <1>32. ASSUME NEW t \in Tasks, SweepIdle(t) \/ SweepCounter(t) \/ Fetch(t)
         PROVE  BookKeeps \/ \E u \in Tasks : Book(u)
    BY <1>32 DEF SweepIdle, SweepCounter, Fetch, BookKeeps, Types, TaskTypes, BrowserTypes, B,
       taskVars, browserVars
  <1>33. ASSUME NEW t \in Tasks, RegisterFresh(t)
         PROVE  BookKeeps \/ \E u \in Tasks : Book(u)
    BY <1>33 DEF RegisterFresh, Go, BookKeeps, Types, TaskTypes, BrowserTypes, B, browserVars
  <1>34. ASSUME NEW d \in Droppers, DropCounter(d)
         PROVE  BookKeeps \/ \E u \in Tasks : Book(u)
    BY <1>34 DEF DropCounter, BookKeeps, Types, TaskTypes, BrowserTypes, B, taskVars,
       browserVars
  <1> QED
    BY <1>1, <1>2, <1>3, <1>4, <1>5, <1>6, <1>7, <1>8, <1>9, <1>10, <1>11, <1>12, <1>13, <1>14,
       <1>15, <1>16, <1>17, <1>18, <1>19, <1>20, <1>21, <1>22, <1>23, <1>24, <1>25, <1>26,
       <1>27, <1>28, <1>29, <1>30, <1>31,
       <1>32, <1>33, <1>34 DEF Next, Step, DropStep, Done

LEMMA ShorterByOne ==
    ASSUME NEW s \in Seq(Browsers), Len(s) >= 1
    PROVE  /\ Len(SubSeq(s, 1, Len(s) - 1)) = Len(s) - 1
           /\ \A n \in 1 .. Len(s) - 1 : SubSeq(s, 1, Len(s) - 1)[n] = s[n]
  <1> DEFINE m == Len(s) - 1
  <1>1. m \in Nat /\ m = Len(s) - 1 /\ Len(s) \in Nat /\ m \in 1 - 1 .. Len(s)
    OBVIOUS
  <1>2. /\ Len(SubSeq(s, 1, m)) = IF 1 <= m THEN m - 1 + 1 ELSE 0
        /\ \A n \in 1 .. m - 1 + 1 : SubSeq(s, 1, m)[n] = s[1 + n - 1]
    <2> HIDE DEF m
    <2> QED
      BY <1>1, SubSeqProperties
  <1>3. Len(SubSeq(s, 1, m)) = m /\ \A n \in 1 .. m : SubSeq(s, 1, m)[n] = s[n]
    <2> HIDE DEF m
    <2>1. Len(SubSeq(s, 1, m)) = m
      BY <1>1, <1>2
    <2>2. ASSUME NEW n \in 1 .. m
          PROVE  SubSeq(s, 1, m)[n] = s[n]
      <3>1. n \in 1 .. m - 1 + 1 /\ 1 + n - 1 = n
        BY <1>1
      <3> QED
        BY <1>2, <3>1
    <2> QED
      BY <2>1, <2>2
  <1> QED
    BY <1>3

LEMMA InitTracked == Init => RegisteredIsTracked
  BY RenderAssumption DEF Init, RegisteredIsTracked, Registered

LEMMA NextTracked == Types /\ RegisteredIsTracked /\ [Next]_vars => RegisteredIsTracked'
  <1> SUFFICES ASSUME Types, RegisteredIsTracked, [Next]_vars
               PROVE  RegisteredIsTracked'
    OBVIOUS
  <1>1. CASE BookKeeps
    BY <1>1 DEF BookKeeps, RegisteredIsTracked, Registered, InMru, B
  <1>2. ASSUME NEW t \in Tasks, Book(t)
        PROVE  RegisteredIsTracked'
    <2> DEFINE b == B(t)
               all == Front(b)
               old == all[Len(all)]
    <2>0. /\ mru \in Seq(Browsers) /\ Len(mru) \in Nat
          /\ Len(mru) <= MaxBrowsers /\ MaxBrowsers \in Nat \ {0}
      BY RenderAssumption DEF Types, BrowserTypes, RegisteredIsTracked
    <2>1. b \in Browsers
      BY <1>2, TaskReads DEF Book
    <2>2. /\ all \in Seq(Browsers) /\ Len(all) \in Nat /\ Len(all) >= 1 /\ old \in Browsers
          /\ SubSeq(all, 1, Len(all) - 1) \in Seq(Browsers)
      BY <2>1, BookedList
    <2>3. Len(all) <= MaxBrowsers + 1
      <3>1. Len(all) = IF InMru(b) THEN Len(mru) ELSE Len(mru) + 1
        BY <2>0, <2>1, FrontMoves
      <3> HIDE DEF all
      <3> QED
        BY <2>0, <3>1
    <2>4. all[1] = b /\ \A n \in 1 .. Len(mru) : \E m \in 1 .. Len(all) : all[m] = mru[n]
      BY <2>0, <2>1, FrontMoves
    <2>5. \A m, n \in 1 .. Len(all) : all[m] = all[n] => m = n
      BY <2>0, <2>1, FrontMoves DEF RegisteredIsTracked
    <2>6. \A u \in Tasks \ {t} : at'[u] = at[u] /\ key'[u] = key[u]
      BY <1>2 DEF Book, Go, Types, TaskTypes
    <2> HIDE DEF all, b, old
    <2>7. CASE Len(all) > MaxBrowsers
      <3>1. mru' = SubSeq(all, 1, Len(all) - 1)
        BY <1>2, <2>7 DEF Book, all, b
      <3>2. Len(mru') = Len(all) - 1 /\ \A n \in 1 .. Len(all) - 1 : mru'[n] = all[n]
        BY <2>2, <3>1, ShorterByOne
      <3>3. \A c \in Browsers : browsers'[c] # 0 => browsers[c] # 0 /\ c # old
        BY <1>2, <2>2, <2>7 DEF Book, Unregister, Types, BrowserTypes, all, b, old
      <3>4. ASSUME NEW c \in Browsers, browsers'[c] # 0
            PROVE  InMru(c)' \/ \E u \in Tasks : at'[u] = "book" /\ key'[u][1] = c
        <4>1. ASSUME NEW m \in 1 .. Len(all), all[m] = c
              PROVE  InMru(c)'
          <5>1. m # Len(all)
            BY <3>3, <3>4, <4>1 DEF old
          <5> QED
            BY <2>2, <3>2, <4>1, <5>1 DEF InMru
        <4>2. CASE InMru(c)
          BY <2>4, <4>1, <4>2 DEF InMru
        <4>3. CASE \E u \in Tasks \ {t} : at[u] = "book" /\ B(u) = c
          BY <2>6, <4>3 DEF B
        <4>4. CASE c = b
          BY <2>2, <2>4, <4>1, <4>4
        <4> QED
          BY <3>3, <3>4, <4>2, <4>3, <4>4 DEF RegisteredIsTracked, Registered, b
      <3> QED
        BY <2>0, <2>2, <2>3, <2>5, <3>2, <3>4 DEF RegisteredIsTracked, Registered, B
    <2>8. CASE ~ (Len(all) > MaxBrowsers)
      <3>1. mru' = all /\ browsers' = browsers
        BY <1>2, <2>8 DEF Book, all, b
      <3>4. ASSUME NEW c \in Browsers, browsers'[c] # 0
            PROVE  InMru(c)' \/ \E u \in Tasks : at'[u] = "book" /\ key'[u][1] = c
        <4>2. CASE InMru(c)
          BY <2>4, <3>1, <4>2 DEF InMru
        <4>3. CASE \E u \in Tasks \ {t} : at[u] = "book" /\ B(u) = c
          BY <2>6, <4>3 DEF B
        <4>4. CASE c = b
          BY <2>2, <2>4, <3>1, <4>4 DEF InMru
        <4> QED
          BY <3>1, <3>4, <4>2, <4>3, <4>4 DEF RegisteredIsTracked, Registered, b
      <3> QED
        BY <2>0, <2>2, <2>5, <2>8, <3>1, <3>4 DEF RegisteredIsTracked, Registered, B
    <2> QED
      BY <2>7, <2>8
  <1> QED
    BY <1>1, <1>2, BookSteps

(* One browser per key. *)

LaunchExcl ==
    \A t, u \in Tasks : at[t] \in Launching /\ at[u] \in Launching /\ B(t) = B(u)
                          /\ lock[t] = lock[u] => t = u

\* Who waits for, or holds, the launch lock of a key that was never evicted
\* has the lock that is in the map.
LaunchFresh ==
    \A t \in Tasks : at[t] \in {"launchlock", "launch"} /\ B(t) \notin evicted
                       => lock[t] = browserGen[B(t)]

LaunchPending ==
    \A t \in Tasks : at[t] = "launch" /\ B(t) \notin evicted => browsers[B(t)] = 0

VictimEvicted == \A t \in Tasks : at[t] \in {"forget", "prune"} => victim[t] \in evicted

NoneLaunched ==
    \A b \in Browsers \ evicted : browsers[b] = 0 => \A i \in 1 .. Len(home) : home[i] # b

LaunchedOnce ==
    \A i, j \in 1 .. Len(home) : home[i] = home[j] /\ home[i] \notin evicted => i = j

LaunchInv ==
    LaunchExcl /\ LaunchFresh /\ LaunchPending /\ VictimEvicted /\ NoneLaunched /\ LaunchedOnce

\* A step that does nothing to the launch locks or to the registry.
LaunchKeeps ==
    /\ UNCHANGED <<browsers, browserGen, home, evicted>>
    /\ \A t \in Tasks : at'[t] \in Launching \cup {"launchlock"} =>
         at'[t] = at[t] /\ key'[t] = key[t] /\ lock'[t] = lock[t] /\ victim'[t] = victim[t]

\* The step of one task, the registry aside.
OneTask(t) ==
    /\ \A u \in Tasks \ {t} : at'[u] = at[u] /\ key'[u] = key[u] /\ lock'[u] = lock[u]
                                /\ victim'[u] = victim[u] /\ ctx'[u] = ctx[u]
    /\ key'[t] = key[t]

LEMMA LaunchSteps ==
    ASSUME Types, [Next]_vars
    PROVE  LaunchKeeps \/ \E u \in Tasks : FindBrowser(u) \/ LockBrowser(u) \/ Launch(u)
                                           \/ Book(u) \/ Forget(u)
  <1>1. ASSUME NEW t \in Tasks, FindBrowser(t)
        PROVE  FindBrowser(t)
    BY <1>1
  <1>2. ASSUME NEW t \in Tasks, LockBrowser(t)
        PROVE  LockBrowser(t)
    BY <1>2
  <1>3. ASSUME NEW t \in Tasks, Launch(t)
        PROVE  Launch(t)
    BY <1>3
  <1>4. ASSUME NEW t \in Tasks, LaunchFails(t)
        PROVE  LaunchKeeps
    BY <1>4 DEF LaunchFails, Finish, Go, Set, LaunchKeeps, Launching, Types, TaskTypes,
       browserVars
  <1>5. ASSUME NEW t \in Tasks, Book(t)
        PROVE  Book(t)
    BY <1>5
  <1>6. ASSUME NEW t \in Tasks, Forget(t)
        PROVE  Forget(t)
    BY <1>6
  <1>7. ASSUME NEW t \in Tasks, Prune(t)
        PROVE  LaunchKeeps
    BY <1>7 DEF Prune, Go, Set, LaunchKeeps, Launching, Types, TaskTypes, browserVars
  <1>8. ASSUME NEW t \in Tasks, FindContext(t)
        PROVE  LaunchKeeps
    BY <1>8 DEF FindContext, HoldContext, Go, Set, LaunchKeeps, Launching, Types, TaskTypes,
       browserVars
  <1>9. ASSUME NEW t \in Tasks, LockContext(t)
        PROVE  LaunchKeeps
    BY <1>9 DEF LockContext, HoldContext, Go, Set, LaunchKeeps, Launching, Types, TaskTypes,
       browserVars
  <1>10. ASSUME NEW t \in Tasks, CreateContext(t)
         PROVE  LaunchKeeps
    BY <1>10 DEF CreateContext, Go, Set, LaunchKeeps, Launching, Types, TaskTypes, browserVars
  <1>11. ASSUME NEW t \in Tasks, ContextFails(t)
         PROVE  LaunchKeeps
    BY <1>11 DEF ContextFails, Finish, Go, Set, LaunchKeeps, Launching, Types, TaskTypes,
       browserVars
  <1>12. ASSUME NEW t \in Tasks, NEW n \in 1 .. MaxPages, TakeIdle(t, n)
         PROVE  LaunchKeeps
    BY <1>12 DEF TakeIdle, Go, Set, LaunchKeeps, Launching, Types, TaskTypes, browserVars
  <1>13. ASSUME NEW t \in Tasks, NoIdle(t)
         PROVE  LaunchKeeps
    BY <1>13 DEF NoIdle, Go, LaunchKeeps, Launching, Types, TaskTypes, browserVars
  <1>14. ASSUME NEW t \in Tasks, ResetOk(t)
         PROVE  LaunchKeeps
    BY <1>14 DEF ResetOk, Go, LaunchKeeps, Launching, Types, TaskTypes, browserVars
  <1>15. ASSUME NEW t \in Tasks, ResetFails(t)
         PROVE  LaunchKeeps
    BY <1>15 DEF ResetFails, Go, Set, LaunchKeeps, Launching, Types, TaskTypes, browserVars
  <1>16. ASSUME NEW t \in Tasks, Open(t)
         PROVE  LaunchKeeps
    BY <1>16 DEF Open, Go, Set, LaunchKeeps, Launching, Types, TaskTypes, browserVars
  <1>17. ASSUME NEW t \in Tasks, OpenFails(t)
         PROVE  LaunchKeeps
    BY <1>17 DEF OpenFails, Finish, Go, Set, LaunchKeeps, Launching, Types, TaskTypes,
       browserVars
  <1>18. ASSUME NEW t \in Tasks, InstallOk(t)
         PROVE  LaunchKeeps
    BY <1>18 DEF InstallOk, Go, LaunchKeeps, Launching, Types, TaskTypes, browserVars
  <1>19. ASSUME NEW t \in Tasks, LosesPage(t)
         PROVE  LaunchKeeps
    BY <1>19 DEF LosesPage, Finish, Go, Set, LaunchKeeps, Launching, Types, TaskTypes,
       browserVars
  <1>20. ASSUME NEW t \in Tasks, ReleaseDirty(t)
         PROVE  LaunchKeeps
    BY <1>20 DEF ReleaseDirty, Finish, Go, Set, LaunchKeeps, Launching, Types, TaskTypes,
       browserVars
  <1>21. ASSUME NEW t \in Tasks, ReleaseClean(t)
         PROVE  LaunchKeeps
    BY <1>21 DEF ReleaseClean, Go, LaunchKeeps, Launching, Types, TaskTypes, browserVars
  <1>22. ASSUME NEW t \in Tasks, StashPage(t)
         PROVE  LaunchKeeps
    BY <1>22 DEF StashPage, Finish, Go, Set, LaunchKeeps, Launching, Types, TaskTypes,
       browserVars
  <1>23. ASSUME NEW t \in Tasks, Cancelled(t)
         PROVE  LaunchKeeps
    BY <1>23 DEF Cancelled, Finish, Go, Set, LaunchKeeps, Launching, Types, TaskTypes,
       browserVars
  <1>24. ASSUME NEW t \in Tasks, NEW k \in Keys, Begin(t, k)
         PROVE  LaunchKeeps
    BY <1>24 DEF Begin, Go, Set, LaunchKeeps, Launching, Types, TaskTypes, browserVars
  <1>25. ASSUME NEW d \in Droppers, DropPages(d)
         PROVE  LaunchKeeps
    BY <1>25 DEF DropPages, LaunchKeeps, Launching, Types, TaskTypes, taskVars, browserVars
  <1>26. ASSUME NEW d \in Droppers, Dispose(d)
         PROVE  LaunchKeeps
    BY <1>26 DEF Dispose, LaunchKeeps, Launching, Types, TaskTypes, taskVars, browserVars
  <1>27. ASSUME NEW d \in Droppers, ForgetContext(d)
         PROVE  LaunchKeeps
    BY <1>27 DEF ForgetContext, LaunchKeeps, Launching, Types, TaskTypes, taskVars, browserVars
  <1>28. ASSUME NEW d \in Droppers, EndDrop(d)
         PROVE  LaunchKeeps
    BY <1>28 DEF EndDrop, LaunchKeeps, Launching, Types, TaskTypes, taskVars, browserVars
  <1>29. ASSUME NEW d \in Droppers, NEW s \in Sessions, StartDrop(d, s)
         PROVE  LaunchKeeps
    BY <1>29 DEF StartDrop, LaunchKeeps, Launching, Types, TaskTypes, taskVars, browserVars
  <1>30. ASSUME NEW i \in watched, ChromeDies(i)
         PROVE  LaunchKeeps
    BY <1>30 DEF ChromeDies, LaunchKeeps, Launching, Types, TaskTypes, taskVars
  <1>31. CASE UNCHANGED vars
    BY <1>31 DEF vars, taskVars, browserVars, LaunchKeeps, Launching, Types, TaskTypes
  <1>32. ASSUME NEW t \in Tasks, SweepIdle(t) \/ SweepCounter(t) \/ Fetch(t)
         PROVE  LaunchKeeps
    BY <1>32 DEF SweepIdle, SweepCounter, Fetch, LaunchKeeps, Launching, Types, TaskTypes,
       taskVars, browserVars
  <1>33. ASSUME NEW t \in Tasks, RegisterFresh(t)
         PROVE  LaunchKeeps
    BY <1>33 DEF RegisterFresh, Go, LaunchKeeps, Launching, Types, TaskTypes, browserVars
  <1>34. ASSUME NEW d \in Droppers, DropCounter(d)
         PROVE  LaunchKeeps
    BY <1>34 DEF DropCounter, LaunchKeeps, Launching, Types, TaskTypes, taskVars, browserVars
  <1> QED
    BY <1>1, <1>2, <1>3, <1>4, <1>5, <1>6, <1>7, <1>8, <1>9, <1>10, <1>11, <1>12, <1>13, <1>14,
       <1>15, <1>16, <1>17, <1>18, <1>19, <1>20, <1>21, <1>22, <1>23, <1>24, <1>25, <1>26,
       <1>27, <1>28, <1>29, <1>30, <1>31,
       <1>32, <1>33, <1>34 DEF Next, Step, DropStep, Done

LEMMA InitLaunch == Init => LaunchInv
  BY DEF Init, LaunchInv, LaunchExcl, LaunchFresh, LaunchPending, VictimEvicted, NoneLaunched,
     LaunchedOnce, Launching

LEMMA NextLaunch == Types /\ LaunchInv /\ [Next]_vars => LaunchInv'
  <1> SUFFICES ASSUME Types, LaunchInv, [Next]_vars
               PROVE  LaunchInv'
    OBVIOUS
  <1> USE DEF LaunchInv
  <1>1. CASE LaunchKeeps
    <2>1. LaunchExcl'
      BY <1>1 DEF LaunchKeeps, LaunchExcl, Launching, B
    <2>2. LaunchFresh' /\ LaunchPending' /\ VictimEvicted'
      BY <1>1 DEF LaunchKeeps, LaunchFresh, LaunchPending, VictimEvicted, Launching, B
    <2>3. NoneLaunched' /\ LaunchedOnce'
      BY <1>1 DEF LaunchKeeps, NoneLaunched, LaunchedOnce
    <2> QED
      BY <2>1, <2>2, <2>3
  <1>2. ASSUME NEW t \in Tasks, FindBrowser(t)
        PROVE  LaunchInv'
    <2>1. /\ OneTask(t) /\ UNCHANGED <<browsers, browserGen, home, evicted>>
          /\ \/ at'[t] = "context"
             \/ at'[t] = "launchlock" /\ lock'[t] = browserGen[B(t)]
      BY <1>2 DEF FindBrowser, HoldBrowser, Go, Set, OneTask, Types, TaskTypes,
         browserVars
    <2>2. LaunchExcl'
      BY <2>1 DEF OneTask, LaunchExcl, Launching, B
    <2>3. LaunchFresh' /\ LaunchPending' /\ VictimEvicted'
      BY <2>1 DEF OneTask, LaunchFresh, LaunchPending, VictimEvicted, B
    <2>4. NoneLaunched' /\ LaunchedOnce'
      BY <2>1 DEF NoneLaunched, LaunchedOnce
    <2> QED
      BY <2>2, <2>3, <2>4
  <1>3. ASSUME NEW t \in Tasks, LockBrowser(t)
        PROVE  LaunchInv'
    <2>1. /\ OneTask(t) /\ UNCHANGED <<browsers, browserGen, home, evicted>>
          /\ at[t] = "launchlock" /\ LaunchLockFree(t) /\ B(t) \in Browsers
          /\ \/ at'[t] = "context"
             \/ at'[t] = "launch" /\ lock'[t] = lock[t] /\ B(t) \notin Registered
      BY <1>3, TaskReads DEF LockBrowser, HoldBrowser, Go, Set, OneTask, Types, TaskTypes,
         browserVars
    <2>2. LaunchExcl'
      BY <2>1 DEF OneTask, LaunchExcl, LaunchLockFree, Launching, B
    <2>3. LaunchFresh' /\ LaunchPending' /\ VictimEvicted'
      BY <2>1 DEF OneTask, LaunchFresh, LaunchPending, VictimEvicted, Registered, B
    <2>4. NoneLaunched' /\ LaunchedOnce'
      BY <2>1 DEF NoneLaunched, LaunchedOnce
    <2> QED
      BY <2>2, <2>3, <2>4
  <1>4. ASSUME NEW t \in Tasks, Launch(t)
        PROVE  LaunchInv'
    <2>1. /\ OneTask(t) /\ UNCHANGED <<browserGen, evicted>>
          /\ at[t] = "launch" /\ at'[t] = "book" /\ lock'[t] = lock[t] /\ B(t) \in Browsers
          /\ home' = Append(home, B(t)) /\ browsers' = [browsers EXCEPT ![B(t)] = Len(home')]
      BY <1>4, TaskReads DEF Launch, Go, Set, OneTask, Types, TaskTypes
    <2>2. /\ Len(home) \in Nat /\ Len(home') = Len(home) + 1 /\ home'[Len(home) + 1] = B(t)
          /\ \A i \in 1 .. Len(home) : home'[i] = home[i]
      BY <2>1 DEF Types, BrowserTypes
    <2>3. /\ browsers'[B(t)] = Len(home) + 1
          /\ \A b \in Browsers \ {B(t)} : browsers'[b] = browsers[b]
      BY <2>1, <2>2 DEF Types, BrowserTypes
    <2>4. LaunchExcl'
      BY <2>1 DEF OneTask, LaunchExcl, Launching, B
    <2>5. LaunchFresh' /\ VictimEvicted'
      BY <2>1 DEF OneTask, LaunchFresh, VictimEvicted, B
    <2>6. LaunchPending'
      <3> SUFFICES ASSUME NEW u \in Tasks, at'[u] = "launch", B(u)' \notin evicted'
                   PROVE  browsers'[B(u)'] = 0
        BY DEF LaunchPending
      <3>1. u # t /\ at[u] = "launch" /\ B(u)' = B(u) /\ B(u) \notin evicted
        BY <2>1 DEF OneTask, B
      <3>2. B(u) # B(t)
        BY <2>1, <3>1 DEF LaunchExcl, LaunchFresh, Launching
      <3>3. B(u) \in Browsers
        BY <3>1, TaskReads
      <3> QED
        BY <2>3, <3>1, <3>2, <3>3 DEF LaunchPending
    <2>7. NoneLaunched'
      <3> SUFFICES ASSUME NEW b \in Browsers, b \notin evicted, browsers'[b] = 0,
                          NEW i \in 1 .. Len(home')
                   PROVE  home'[i] # b
        BY <2>1 DEF NoneLaunched
      <3>1. b # B(t) /\ browsers[b] = 0
        BY <2>2, <2>3
      <3> QED
        BY <2>2, <3>1 DEF NoneLaunched
    <2>8. LaunchedOnce'
      <3>1. B(t) \notin evicted => \A i \in 1 .. Len(home) : home[i] # B(t)
        BY <2>1 DEF NoneLaunched, LaunchPending
      <3> QED
        BY <2>1, <2>2, <3>1 DEF LaunchedOnce
    <2> QED
      BY <2>4, <2>5, <2>6, <2>7, <2>8
  <1>5. ASSUME NEW t \in Tasks, Book(t)
        PROVE  LaunchInv'
    <2>1. /\ OneTask(t) /\ UNCHANGED <<browserGen, home>> /\ at[t] = "book"
          /\ evicted \subseteq evicted'
          /\ \A b \in Browsers : browsers'[b] = browsers[b] \/ (browsers'[b] = 0 /\ b \in evicted')
          /\ \/ at'[t] = "context"
             \/ at'[t] = "forget" /\ lock'[t] = lock[t] /\ victim'[t] \in evicted'
      <3> DEFINE all == Front(B(t))
                 old == all[Len(all)]
      <3>1. B(t) \in Browsers
        BY <1>5, TaskReads DEF Book
      <3>2. old \in Browsers
        BY <3>1, BookedList
      <3> HIDE DEF old, all
      <3>3. \/ /\ browsers' = Unregister(old) /\ evicted' = evicted \cup {old}
               /\ victim' = Set(victim, t, old) /\ Go(t, "forget") /\ UNCHANGED lock
            \/ /\ lock' = Set(lock, t, 0) /\ Go(t, "context")
               /\ UNCHANGED <<browsers, evicted, victim>>
        BY <1>5 DEF Book, all, old
      <3>4. UNCHANGED <<browserGen, home, key, ctx>> /\ at[t] = "book"
        BY <1>5 DEF Book
      <3>5. OneTask(t) /\ at'[t] \in {"context", "forget"}
        BY <3>3, <3>4 DEF Go, Set, OneTask, Types, TaskTypes
      <3>6. at'[t] = "forget" => lock'[t] = lock[t] /\ victim'[t] = old /\ old \in evicted'
        BY <3>3, <3>4 DEF Go, Set, Types, TaskTypes
      <3>7. /\ evicted \subseteq evicted'
            /\ \A b \in Browsers : \/ browsers'[b] = browsers[b]
                                   \/ browsers'[b] = 0 /\ b \in evicted'
        <4>1. CASE browsers' = Unregister(old) /\ evicted' = evicted \cup {old}
          BY <3>2, <4>1 DEF Unregister, Types, BrowserTypes
        <4>2. CASE UNCHANGED <<browsers, evicted>>
          BY <4>2
        <4> QED
          BY <3>3, <4>1, <4>2
      <3> QED
        BY <3>4, <3>5, <3>6, <3>7
    <2>2. LaunchExcl'
      BY <2>1 DEF OneTask, LaunchExcl, Launching, B
    <2>3. LaunchFresh' /\ VictimEvicted'
      BY <2>1 DEF OneTask, LaunchFresh, VictimEvicted, B
    <2>4. LaunchPending'
      <3> SUFFICES ASSUME NEW u \in Tasks, at'[u] = "launch", B(u)' \notin evicted'
                   PROVE  browsers'[B(u)'] = 0
        BY DEF LaunchPending
      <3>1. u # t /\ at[u] = "launch" /\ B(u)' = B(u) /\ B(u) \notin evicted
        BY <2>1 DEF OneTask, B
      <3>2. B(u) \in Browsers
        BY <3>1, TaskReads
      <3> QED
        BY <2>1, <3>1, <3>2 DEF LaunchPending
    <2>5. NoneLaunched' /\ LaunchedOnce'
      BY <2>1 DEF NoneLaunched, LaunchedOnce
    <2> QED
      BY <2>2, <2>3, <2>4, <2>5
  <1>6. ASSUME NEW t \in Tasks, Forget(t)
        PROVE  LaunchInv'
    <2>1. /\ OneTask(t) /\ UNCHANGED <<browsers, home, evicted>>
          /\ at[t] = "forget" /\ at'[t] = "prune" /\ lock' = lock /\ victim' = victim
          /\ victim[t] \in evicted
          /\ browserGen' = [browserGen EXCEPT ![victim[t]] = @ + 1]
      BY <1>6 DEF Forget, Go, OneTask, Types, TaskTypes, VictimEvicted
    <2>2. \A b \in Browsers \ evicted : browserGen'[b] = browserGen[b]
      BY <2>1 DEF Types, BrowserTypes
    <2>3. LaunchExcl'
      BY <2>1 DEF OneTask, LaunchExcl, Launching, B
    <2>4. LaunchFresh'
      <3> SUFFICES ASSUME NEW u \in Tasks, at'[u] \in {"launchlock", "launch"},
                          B(u)' \notin evicted'
                   PROVE  lock'[u] = browserGen'[B(u)']
        BY DEF LaunchFresh
      <3>1. u # t /\ at[u] = at'[u] /\ B(u)' = B(u) /\ B(u) \notin evicted
        BY <2>1 DEF OneTask, B
      <3>2. B(u) \in Browsers
        BY <3>1, TaskReads
      <3> QED
        BY <2>1, <2>2, <3>1, <3>2 DEF LaunchFresh
    <2>5. LaunchPending' /\ VictimEvicted'
      BY <2>1 DEF OneTask, LaunchPending, VictimEvicted, B
    <2>6. NoneLaunched' /\ LaunchedOnce'
      BY <2>1 DEF NoneLaunched, LaunchedOnce
    <2> QED
      BY <2>3, <2>4, <2>5, <2>6
  <1> QED
    BY <1>1, <1>2, <1>3, <1>4, <1>5, <1>6, LaunchSteps

(* One context per key. *)

Quiet(k) == k[1] \notin evicted /\ k[2] \notin dropped
HasContext == {"acquire", "open"} \cup HasPage
OwnedBy(c, k) == c \in 1 .. Len(owner) /\ owner[c].key = k

CreateExcl ==
    \A t, u \in Tasks : at[t] = "create" /\ at[u] = "create" /\ key[t] = key[u]
                          /\ lock[t] = lock[u] => t = u

ContextFresh ==
    \A t \in Tasks : at[t] \in {"ctxlock", "create"} /\ Quiet(key[t])
                       => lock[t] = contextGen[key[t]]

CreatePending == \A t \in Tasks : at[t] = "create" /\ Quiet(key[t]) => contexts[key[t]] = 0

DropIsDropped ==
    \A d \in Droppers : /\ Dropping(d) => drop[d].key[2] \in dropped
                        /\ \A e \in drop[d].todo : e[1][2] \in dropped

NoneCreated ==
    \A k \in Keys : Quiet(k) /\ contexts[k] = 0 => \A c \in 1 .. Len(owner) : owner[c].key # k

CreatedOnce ==
    \A c, e \in 1 .. Len(owner) : owner[c].key = owner[e].key /\ Quiet(owner[c].key) => c = e

ContextsOwned ==
    /\ \A k \in Keys : contexts[k] # 0 => OwnedBy(contexts[k], k)
    /\ \A t \in Tasks : at[t] \in HasContext => OwnedBy(ctx[t], key[t])

ContextInv ==
    /\ CreateExcl /\ ContextFresh /\ CreatePending /\ DropIsDropped
    /\ NoneCreated /\ CreatedOnce /\ ContextsOwned

LEMMA HistoryGrows ==
    ASSUME Types, [Next]_vars
    PROVE  evicted \subseteq evicted' /\ dropped \subseteq dropped'
  <1>1. evicted \subseteq evicted'
    <2>1. ASSUME NEW t \in Tasks, Book(t)
          PROVE  evicted \subseteq evicted'
      <3>1. \E b : evicted' = evicted \cup {b} \/ evicted' = evicted
        BY <2>1 DEF Book
      <3> QED
        BY <3>1
    <2> QED
      BY <2>1, BrowserFrame DEF browserVars, Launch, Forget, SweepIdle, SweepCounter, ChromeDies
  <1>2. dropped \subseteq dropped'
    BY DropFrame, ZenonT(60) DEF dropVars, StartDrop, DropPages, DropCounter, Dispose,
       ForgetContext, EndDrop
  <1> QED
    BY <1>1, <1>2

LEMMA InitDropIsDropped == Init => DropIsDropped
  BY DEF Init, DropIsDropped, NoDrop, Dropping

LEMMA NextDropIsDropped == Types /\ DropIsDropped /\ [Next]_vars => DropIsDropped'
  <1> SUFFICES ASSUME Types, DropIsDropped, [Next]_vars, NEW d \in Droppers
               PROVE  /\ Dropping(d)' => drop'[d].key[2] \in dropped'
                      /\ \A e \in drop'[d].todo : e[1][2] \in dropped'
    BY DEF DropIsDropped
  <1>0. /\ Dropping(d) => drop[d].key[2] \in dropped
        /\ \A e \in drop[d].todo : e[1][2] \in dropped
    BY DEF DropIsDropped
  <1>a. DOMAIN drop = Droppers
    BY DEF Types, DropTypes
  <1>1. CASE drop'[d] = drop[d]
    BY <1>0, <1>1, HistoryGrows DEF Dropping
  <1>2. ASSUME NEW s \in Sessions, StartDrop(d, s)
        PROVE  /\ Dropping(d)' => drop'[d].key[2] \in dropped'
               /\ \A e \in drop'[d].todo : e[1][2] \in dropped'
    <2>1. s \in dropped' /\ drop'[d].at = "next"
          /\ drop'[d].todo = {<<k, contexts[k]>> : k \in {l \in Keys : l[2] = s /\ contexts[l] # 0}}
      BY <1>2, <1>a DEF StartDrop, NoDrop
    <2> QED
      BY <2>1 DEF Dropping
  <1>3. CASE DropPages(d)
    <2>1. PICK e \in drop[d].todo :
            drop' = [drop EXCEPT ![d].at = "counter", ![d].todo = @ \ {e}, ![d].key = e[1],
                                 ![d].ctx = e[2]]
      BY <1>3 DEF DropPages
    <2>2. drop[d] \in Call
      BY DEF Types, DropTypes
    <2>3. drop'[d].todo = drop[d].todo \ {e} /\ drop'[d].key = e[1]
      BY <1>a, <2>1, <2>2
    <2> QED
      BY <1>0, <2>3, HistoryGrows, SMTT(40)
  <1>4. CASE DropCounter(d) \/ Dispose(d) \/ ForgetContext(d) \/ EndDrop(d)
    <2>1. /\ drop'[d].todo \subseteq drop[d].todo
          /\ Dropping(d)' => Dropping(d) /\ drop'[d].key = drop[d].key
      <3>1. drop[d] \in Call
        BY DEF Types, DropTypes
      <3>2. CASE Dispose(d)
        BY <1>a, <3>1, <3>2 DEF Dispose, Dropping
      <3>3. CASE ForgetContext(d)
        BY <1>a, <3>1, <3>3 DEF ForgetContext, Dropping
      <3>4. CASE EndDrop(d)
        BY <1>a, <3>1, <3>4 DEF EndDrop, NoDrop, Dropping
      <3>5. CASE DropCounter(d)
        BY <1>a, <3>1, <3>5 DEF DropCounter, Dropping
      <3> QED
        BY <1>4, <3>2, <3>3, <3>4, <3>5
    <2> QED
      BY <1>0, <2>1, HistoryGrows
  <1>5. \/ drop'[d] = drop[d] \/ DropPages(d) \/ DropCounter(d) \/ Dispose(d)
        \/ ForgetContext(d) \/ EndDrop(d)
        \/ \E s \in Sessions : StartDrop(d, s)
    <2>1. ASSUME NEW f \in Droppers \ {d},
                 DropPages(f) \/ DropCounter(f) \/ Dispose(f) \/ ForgetContext(f) \/ EndDrop(f)
          PROVE  drop'[d] = drop[d]
      BY <1>a, <2>1 DEF DropPages, DropCounter, Dispose, ForgetContext, EndDrop
    <2>2. ASSUME NEW f \in Droppers \ {d}, NEW s \in Sessions, StartDrop(f, s)
          PROVE  drop'[d] = drop[d]
      BY <1>a, <2>2 DEF StartDrop
    <2> QED
      BY <2>1, <2>2, DropFrame, SMTT(40) DEF dropVars
  <1> QED
    BY <1>1, <1>2, <1>3, <1>4, <1>5

\* A step that leaves the context locks, and the contexts that tasks found.
TaskKeeps ==
    /\ \A t \in Tasks : at'[t] \in {"ctxlock", "create"} =>
         at'[t] = at[t] /\ key'[t] = key[t] /\ lock'[t] = lock[t]
    /\ \A t \in Tasks : at'[t] \in HasContext =>
         at[t] \in HasContext /\ key'[t] = key[t] /\ ctx'[t] = ctx[t]

LEMMA ContextTaskSteps ==
    ASSUME Types, [Next]_vars
    PROVE  TaskKeeps \/ \E t \in Tasks : FindContext(t) \/ LockContext(t) \/ CreateContext(t)
  <1>1. ASSUME NEW t \in Tasks, FindBrowser(t)
        PROVE  TaskKeeps
    BY <1>1 DEF FindBrowser, HoldBrowser, Go, Set, TaskKeeps, HasContext, HasPage, Types,
       TaskTypes
  <1>2. ASSUME NEW t \in Tasks, LockBrowser(t)
        PROVE  TaskKeeps
    BY <1>2 DEF LockBrowser, HoldBrowser, Go, Set, TaskKeeps, HasContext, HasPage, Types,
       TaskTypes
  <1>3. ASSUME NEW t \in Tasks, Launch(t)
        PROVE  TaskKeeps
    BY <1>3 DEF Launch, Go, Set, TaskKeeps, HasContext, HasPage, Types, TaskTypes
  <1>4. ASSUME NEW t \in Tasks, LaunchFails(t)
        PROVE  TaskKeeps
    BY <1>4 DEF LaunchFails, Finish, Go, Set, TaskKeeps, HasContext, HasPage, Types, TaskTypes
  <1>5. ASSUME NEW t \in Tasks, Book(t)
        PROVE  TaskKeeps
    BY <1>5, SMTT(40) DEF Book, Go, Set, TaskKeeps, HasContext, HasPage, Types, TaskTypes
  <1>6. ASSUME NEW t \in Tasks, Forget(t)
        PROVE  TaskKeeps
    BY <1>6 DEF Forget, Go, TaskKeeps, HasContext, HasPage, Types, TaskTypes
  <1>7. ASSUME NEW t \in Tasks, Prune(t)
        PROVE  TaskKeeps
    BY <1>7 DEF Prune, Go, Set, TaskKeeps, HasContext, HasPage, Types, TaskTypes
  <1>8. ASSUME NEW t \in Tasks, FindContext(t)
        PROVE  FindContext(t)
    BY <1>8
  <1>9. ASSUME NEW t \in Tasks, LockContext(t)
        PROVE  LockContext(t)
    BY <1>9
  <1>10. ASSUME NEW t \in Tasks, CreateContext(t)
         PROVE  CreateContext(t)
    BY <1>10
  <1>11. ASSUME NEW t \in Tasks, ContextFails(t)
         PROVE  TaskKeeps
    BY <1>11 DEF ContextFails, Finish, Go, Set, TaskKeeps, HasContext, HasPage, Types, TaskTypes
  <1>12. ASSUME NEW t \in Tasks, NEW n \in 1 .. MaxPages, TakeIdle(t, n)
         PROVE  TaskKeeps
    BY <1>12 DEF TakeIdle, Go, Set, TaskKeeps, HasContext, HasPage, Types, TaskTypes
  <1>13. ASSUME NEW t \in Tasks, NoIdle(t)
         PROVE  TaskKeeps
    BY <1>13 DEF NoIdle, Go, TaskKeeps, HasContext, HasPage, Types, TaskTypes
  <1>14. ASSUME NEW t \in Tasks, ResetOk(t)
         PROVE  TaskKeeps
    BY <1>14 DEF ResetOk, Go, TaskKeeps, HasContext, HasPage, Types, TaskTypes
  <1>15. ASSUME NEW t \in Tasks, ResetFails(t)
         PROVE  TaskKeeps
    BY <1>15 DEF ResetFails, Go, Set, TaskKeeps, HasContext, HasPage, Types, TaskTypes
  <1>16. ASSUME NEW t \in Tasks, Open(t)
         PROVE  TaskKeeps
    BY <1>16 DEF Open, Go, Set, TaskKeeps, HasContext, HasPage, Types, TaskTypes
  <1>17. ASSUME NEW t \in Tasks, OpenFails(t)
         PROVE  TaskKeeps
    BY <1>17 DEF OpenFails, Finish, Go, Set, TaskKeeps, HasContext, HasPage, Types, TaskTypes
  <1>18. ASSUME NEW t \in Tasks, InstallOk(t)
         PROVE  TaskKeeps
    BY <1>18 DEF InstallOk, Go, TaskKeeps, HasContext, HasPage, Types, TaskTypes
  <1>19. ASSUME NEW t \in Tasks, LosesPage(t)
         PROVE  TaskKeeps
    BY <1>19 DEF LosesPage, Finish, Go, Set, TaskKeeps, HasContext, HasPage, Types, TaskTypes
  <1>20. ASSUME NEW t \in Tasks, ReleaseDirty(t)
         PROVE  TaskKeeps
    BY <1>20 DEF ReleaseDirty, Finish, Go, Set, TaskKeeps, HasContext, HasPage, Types, TaskTypes
  <1>21. ASSUME NEW t \in Tasks, ReleaseClean(t)
         PROVE  TaskKeeps
    BY <1>21 DEF ReleaseClean, Go, TaskKeeps, HasContext, HasPage, Types, TaskTypes
  <1>22. ASSUME NEW t \in Tasks, StashPage(t)
         PROVE  TaskKeeps
    BY <1>22 DEF StashPage, Finish, Go, Set, TaskKeeps, HasContext, HasPage, Types, TaskTypes
  <1>23. ASSUME NEW t \in Tasks, Cancelled(t)
         PROVE  TaskKeeps
    BY <1>23 DEF Cancelled, Finish, Go, Set, TaskKeeps, HasContext, HasPage, Types, TaskTypes
  <1>24. ASSUME NEW t \in Tasks, NEW k \in Keys, Begin(t, k)
         PROVE  TaskKeeps
    BY <1>24 DEF Begin, Go, Set, TaskKeeps, HasContext, HasPage, Types, TaskTypes
  <1>25. ASSUME NEW d \in Droppers, DropPages(d)
         PROVE  TaskKeeps
    BY <1>25 DEF DropPages, TaskKeeps, HasContext, HasPage, Types, TaskTypes, taskVars
  <1>26. ASSUME NEW d \in Droppers, Dispose(d)
         PROVE  TaskKeeps
    BY <1>26 DEF Dispose, TaskKeeps, HasContext, HasPage, Types, TaskTypes, taskVars
  <1>27. ASSUME NEW d \in Droppers, ForgetContext(d)
         PROVE  TaskKeeps
    BY <1>27 DEF ForgetContext, TaskKeeps, HasContext, HasPage, Types, TaskTypes, taskVars
  <1>28. ASSUME NEW d \in Droppers, EndDrop(d)
         PROVE  TaskKeeps
    BY <1>28 DEF EndDrop, TaskKeeps, HasContext, HasPage, Types, TaskTypes, taskVars
  <1>29. ASSUME NEW d \in Droppers, NEW s \in Sessions, StartDrop(d, s)
         PROVE  TaskKeeps
    BY <1>29 DEF StartDrop, TaskKeeps, HasContext, HasPage, Types, TaskTypes, taskVars
  <1>30. ASSUME NEW i \in watched, ChromeDies(i)
         PROVE  TaskKeeps
    BY <1>30 DEF ChromeDies, TaskKeeps, HasContext, HasPage, Types, TaskTypes, taskVars
  <1>31. CASE UNCHANGED vars
    BY <1>31 DEF vars, taskVars, TaskKeeps, HasContext, HasPage, Types, TaskTypes
  <1>32. ASSUME NEW t \in Tasks, SweepIdle(t) \/ SweepCounter(t) \/ Fetch(t)
         PROVE  TaskKeeps
    BY <1>32 DEF SweepIdle, SweepCounter, Fetch, TaskKeeps, HasContext, HasPage, Types,
       TaskTypes, taskVars
  <1>33. ASSUME NEW t \in Tasks, RegisterFresh(t)
         PROVE  TaskKeeps
    BY <1>33 DEF RegisterFresh, Go, TaskKeeps, HasContext, HasPage, Types, TaskTypes
  <1>34. ASSUME NEW d \in Droppers, DropCounter(d)
         PROVE  TaskKeeps
    BY <1>34 DEF DropCounter, TaskKeeps, HasContext, HasPage, Types, TaskTypes, taskVars
  <1> QED
    BY <1>1, <1>2, <1>3, <1>4, <1>5, <1>6, <1>7, <1>8, <1>9, <1>10, <1>11, <1>12, <1>13, <1>14,
       <1>15, <1>16, <1>17, <1>18, <1>19, <1>20, <1>21, <1>22, <1>23, <1>24, <1>25, <1>26,
       <1>27, <1>28, <1>29, <1>30, <1>31,
       <1>32, <1>33, <1>34 DEF Next, Step, DropStep, Done

\* A step that leaves the contexts of the keys nobody took away.
RegistryKeeps ==
    /\ owner' = owner
    /\ \A k \in Keys : /\ contexts'[k] \in {contexts[k], 0}
                       /\ Quiet(k) => contexts'[k] = contexts[k] /\ contextGen'[k] = contextGen[k]

LEMMA RegistrySteps ==
    ASSUME Types, VictimEvicted, DropIsDropped, [Next]_vars
    PROVE  RegistryKeeps \/ \E t \in Tasks : CreateContext(t)
  <1>1. ASSUME NEW t \in Tasks, Prune(t)
        PROVE  RegistryKeeps
    <2>1. victim[t] \in evicted
      BY <1>1 DEF Prune, VictimEvicted
    <2> QED
      BY <1>1, <2>1 DEF Prune, KeysOf, RegistryKeeps, Quiet
  <1>2. ASSUME NEW d \in Droppers, ForgetContext(d)
        PROVE  RegistryKeeps
    <2>1. drop[d].key[2] \in dropped
      BY <1>2 DEF ForgetContext, DropIsDropped, Dropping
    <2> QED
      BY <1>2, <2>1 DEF ForgetContext, RegistryKeeps, Quiet, Types, ContextTypes
  <1>3. CASE UNCHANGED <<contexts, contextGen, owner>>
    BY <1>3 DEF RegistryKeeps
  <1> QED
    BY <1>1, <1>2, <1>3, ContextFrame DEF contextVars, Dispose, ChromeDies

LEMMA InitContexts == Init => ContextInv
  BY InitDropIsDropped DEF Init, ContextInv, CreateExcl, ContextFresh, CreatePending, NoneCreated,
     CreatedOnce, ContextsOwned, HasContext, HasPage

LEMMA NextContexts ==
    Types /\ VictimEvicted /\ ContextInv /\ [Next]_vars => ContextInv'
  <1> SUFFICES ASSUME Types, VictimEvicted, ContextInv, [Next]_vars
               PROVE  ContextInv'
    OBVIOUS
  <1> USE DEF ContextInv
  <1>0. DropIsDropped'
    BY NextDropIsDropped
  <1>a. \A k : Quiet(k)' => Quiet(k)
    BY HistoryGrows DEF Quiet
  <1>b. /\ contexts \in [Keys -> 0 .. Len(owner)] /\ contextGen \in [Keys -> Nat]
        /\ owner \in Seq([key : Keys, inst : Nat]) /\ Len(owner) \in Nat
    BY DEF Types, ContextTypes
  <1>1. CASE TaskKeeps /\ RegistryKeeps
    <2>1. CreateExcl'
      BY <1>1 DEF TaskKeeps, CreateExcl
    <2>2. ContextFresh' /\ CreatePending'
      <3> SUFFICES ASSUME NEW t \in Tasks, at'[t] \in {"ctxlock", "create"}, Quiet(key[t])'
                   PROVE  /\ lock'[t] = contextGen'[key'[t]]
                          /\ at'[t] = "create" => contexts'[key'[t]] = 0
        BY DEF ContextFresh, CreatePending
      <3>1. at[t] = at'[t] /\ key'[t] = key[t] /\ lock'[t] = lock[t]
        BY <1>1 DEF TaskKeeps
      <3>2. key[t] \in Keys /\ Quiet(key[t])
        BY <1>a, <3>1, TaskReads
      <3> QED
        BY <1>1, <3>1, <3>2 DEF RegistryKeeps, ContextFresh, CreatePending
    <2>3. NoneCreated' /\ CreatedOnce'
      BY <1>1, <1>a DEF RegistryKeeps, NoneCreated, CreatedOnce
    <2>4. ContextsOwned'
      <3>1. \A k \in Keys : contexts'[k] # 0 => OwnedBy(contexts[k], k)'
        BY <1>1 DEF RegistryKeeps, ContextsOwned, OwnedBy
      <3>2. \A t \in Tasks : at'[t] \in HasContext => OwnedBy(ctx[t], key[t])'
        BY <1>1 DEF TaskKeeps, RegistryKeeps, ContextsOwned, OwnedBy
      <3> QED
        BY <3>1, <3>2 DEF ContextsOwned
    <2> QED
      BY <1>0, <2>1, <2>2, <2>3, <2>4
  <1>2. ASSUME NEW t \in Tasks, FindContext(t)
        PROVE  ContextInv'
    <2>1. /\ OneTask(t) /\ UNCHANGED <<contexts, contextGen, owner>> /\ key[t] \in Keys
          /\ \/ at'[t] = "acquire" /\ ctx'[t] = contexts[key[t]] /\ contexts[key[t]] # 0
             \/ at'[t] = "ctxlock" /\ lock'[t] = contextGen[key[t]]
      BY <1>2, TaskReads DEF FindContext, HoldContext, Go, Set, OneTask, Types, TaskTypes,
         contextVars
    <2>2. CreateExcl'
      BY <2>1 DEF OneTask, CreateExcl
    <2>3. ContextFresh' /\ CreatePending'
      BY <1>a, <2>1 DEF OneTask, ContextFresh, CreatePending
    <2>4. NoneCreated' /\ CreatedOnce'
      BY <1>a, <2>1 DEF NoneCreated, CreatedOnce
    <2>5. ContextsOwned'
      BY <2>1 DEF OneTask, ContextsOwned, OwnedBy, HasContext, HasPage
    <2> QED
      BY <1>0, <2>2, <2>3, <2>4, <2>5
  <1>3. ASSUME NEW t \in Tasks, LockContext(t)
        PROVE  ContextInv'
    <2>1. /\ OneTask(t) /\ UNCHANGED <<contexts, contextGen, owner>> /\ key[t] \in Keys
          /\ at[t] = "ctxlock" /\ ContextLockFree(t)
          /\ \/ at'[t] = "acquire" /\ ctx'[t] = contexts[key[t]] /\ contexts[key[t]] # 0
             \/ at'[t] = "create" /\ lock'[t] = lock[t] /\ contexts[key[t]] = 0
      BY <1>3, TaskReads DEF LockContext, HoldContext, Go, Set, OneTask, Types, TaskTypes,
         contextVars
    <2>2. CreateExcl'
      BY <2>1 DEF OneTask, CreateExcl, ContextLockFree
    <2>3. ContextFresh' /\ CreatePending'
      BY <1>a, <2>1 DEF OneTask, ContextFresh, CreatePending
    <2>4. NoneCreated' /\ CreatedOnce'
      BY <1>a, <2>1 DEF NoneCreated, CreatedOnce
    <2>5. ContextsOwned'
      BY <2>1 DEF OneTask, ContextsOwned, OwnedBy, HasContext, HasPage
    <2> QED
      BY <1>0, <2>2, <2>3, <2>4, <2>5
  <1>4. ASSUME NEW t \in Tasks, CreateContext(t)
        PROVE  ContextInv'
    <2> DEFINE new == Len(owner) + 1
    <2>1. /\ OneTask(t) /\ contextGen' = contextGen /\ key[t] \in Keys
          /\ at[t] = "create" /\ at'[t] = "acquire" /\ ctx'[t] = Len(owner')
          /\ owner' = Append(owner, [key |-> key[t], inst |-> inst[t]])
          /\ contexts' = [contexts EXCEPT ![key[t]] = Len(owner')]
      BY <1>4, TaskReads DEF CreateContext, Go, Set, OneTask, Types, TaskTypes
    <2>2. /\ Len(owner') = new /\ owner'[new].key = key[t]
          /\ \A c \in 1 .. Len(owner) : owner'[c] = owner[c]
      BY <1>b, <2>1
    <2>3. /\ contexts'[key[t]] = new
          /\ \A k \in Keys \ {key[t]} : contexts'[k] = contexts[k]
      BY <1>b, <2>1, <2>2
    <2>4. CreateExcl'
      BY <2>1 DEF OneTask, CreateExcl
    <2>5. ContextFresh'
      BY <1>a, <2>1 DEF OneTask, ContextFresh
    <2>6. CreatePending'
      <3> SUFFICES ASSUME NEW u \in Tasks, at'[u] = "create", Quiet(key[u])'
                   PROVE  contexts'[key'[u]] = 0
        BY DEF CreatePending
      <3>1. u # t /\ at[u] = "create" /\ key'[u] = key[u] /\ Quiet(key[u])
        BY <1>a, <2>1 DEF OneTask
      <3>2. key[u] # key[t]
        BY <2>1, <3>1 DEF CreateExcl, ContextFresh
      <3>3. key[u] \in Keys
        BY <3>1, TaskReads
      <3> QED
        BY <2>3, <3>1, <3>2, <3>3 DEF CreatePending
    <2>7. NoneCreated'
      <3> SUFFICES ASSUME NEW k \in Keys, Quiet(k), contexts'[k] = 0, NEW c \in 1 .. Len(owner')
                   PROVE  owner'[c].key # k
        BY <1>a DEF NoneCreated
      <3>1. k # key[t] /\ contexts[k] = 0
        BY <1>b, <2>3
      <3>2. c = new \/ c \in 1 .. Len(owner)
        BY <1>b, <2>2
      <3> HIDE DEF new
      <3> QED
        BY <2>2, <3>1, <3>2 DEF NoneCreated
    <2>8. CreatedOnce'
      <3>1. Quiet(key[t]) => \A c \in 1 .. Len(owner) : owner[c].key # key[t]
        BY <2>1 DEF NoneCreated, CreatePending
      <3> SUFFICES ASSUME NEW c \in 1 .. Len(owner'), NEW e \in 1 .. Len(owner'),
                          owner'[c].key = owner'[e].key, Quiet(owner'[c].key)
                   PROVE  c = e
        BY <1>a DEF CreatedOnce
      <3>2. (c = new \/ c \in 1 .. Len(owner)) /\ (e = new \/ e \in 1 .. Len(owner))
        BY <1>b, <2>2, SMTT(40)
      <3> HIDE DEF new
      <3> QED
        BY <2>2, <3>1, <3>2 DEF CreatedOnce
    <2>9. ContextsOwned'
      <3>1. \A k \in Keys : contexts'[k] # 0 => OwnedBy(contexts[k], k)'
        BY <1>b, <2>2, <2>3, SMTT(40) DEF ContextsOwned, OwnedBy
      <3>2. \A u \in Tasks : at'[u] \in HasContext => OwnedBy(ctx[u], key[u])'
        <4> SUFFICES ASSUME NEW u \in Tasks, at'[u] \in HasContext
                     PROVE  OwnedBy(ctx[u], key[u])'
          OBVIOUS
        <4>1. CASE u = t
          <5>1. ctx'[u] = new /\ key'[u] = key[t] /\ new \in 1 .. Len(owner')
            BY <1>b, <2>1, <2>2, <4>1 DEF OneTask
          <5> QED
            BY <2>2, <5>1 DEF OwnedBy
        <4>2. CASE u # t
          <5>1. OwnedBy(ctx[u], key[u]) /\ ctx'[u] = ctx[u] /\ key'[u] = key[u]
            BY <2>1, <4>2, ZenonT(60) DEF OneTask, ContextsOwned
          <5> QED
            BY <1>b, <2>2, <5>1, SMTT(40) DEF OwnedBy
        <4> QED
          BY <4>1, <4>2
      <3> QED
        BY <3>1, <3>2 DEF ContextsOwned
    <2> QED
      BY <1>0, <2>4, <2>5, <2>6, <2>7, <2>8, <2>9
  <1>5. \/ TaskKeeps /\ RegistryKeeps
        \/ \E t \in Tasks : FindContext(t) \/ LockContext(t) \/ CreateContext(t)
    BY ContextTaskSteps, RegistrySteps, Zenon
  <1> QED
    BY <1>1, <1>2, <1>3, <1>4, <1>5

(* The contexts of the tabs. *)

TabsOwned ==
    /\ \A t \in Tasks : at[t] \in HasPage => OwnedBy(page[t].ctx, key[t])
    /\ \A k \in Keys : \A n \in 1 .. Len(idle[k]) : OwnedBy(idle[k][n].ctx, k)

LEMMA OwnerKept ==
    ASSUME Types, [Next]_vars, NEW c, NEW k, OwnedBy(c, k)
    PROVE  OwnedBy(c, k)'
  <1>1. owner \in Seq([key : Keys, inst : Nat]) /\ Len(owner) \in Nat
    BY DEF Types, ContextTypes
  <1>2. CASE owner' = owner
    BY <1>2 DEF OwnedBy
  <1>3. ASSUME NEW t \in Tasks, CreateContext(t)
        PROVE  OwnedBy(c, k)'
    <2>1. owner' = Append(owner, [key |-> key[t], inst |-> inst[t]])
      BY <1>3 DEF CreateContext
    <2> QED
      BY <1>1, <2>1 DEF OwnedBy
  <1> QED
    BY <1>2, <1>3, ContextFrame DEF contextVars, Prune, ChromeDies, Dispose, ForgetContext

LEMMA KeyKept ==
    ASSUME Types, [Next]_vars, NEW t \in Tasks, at'[t] \in HasPage
    PROVE  key'[t] = key[t]
  <1>1. CASE TaskKeeps
    BY <1>1 DEF TaskKeeps, HasContext
  <1>2. CASE \E u \in Tasks : FindContext(u) \/ LockContext(u) \/ CreateContext(u)
    BY <1>2 DEF FindContext, LockContext, CreateContext
  <1> QED
    BY <1>1, <1>2, ContextTaskSteps

LEMMA InitTabsOwned == Init => TabsOwned
  BY DEF Init, PoolInit, TabsOwned, HasPage

LEMMA NextTabsOwned ==
    Types /\ ContextsOwned /\ TabsOwned /\ [Next]_vars => TabsOwned'
  <1> SUFFICES ASSUME Types, ContextsOwned, TabsOwned, [Next]_vars
               PROVE  TabsOwned'
    OBVIOUS
  <1>0. idle \in [Keys -> Seq(Page)] /\ page \in [Tasks -> Page] /\ at \in [Tasks -> Steps]
    BY DEF Types, PoolTypeOK, TaskTypes
  <1>a. \A c, k : OwnedBy(c, k) => OwnedBy(c, k)'
    BY OwnerKept
  <1>b. \A t \in Tasks : at'[t] \in HasPage => key'[t] = key[t]
    BY KeyKept
  <1> SUFFICES /\ \A t \in Tasks : at'[t] \in HasPage => OwnedBy(page'[t].ctx, key[t])
               /\ \A k \in Keys : \A n \in 1 .. Len(idle'[k]) : OwnedBy(idle'[k][n].ctx, k)
    <2> HIDE DEF OwnedBy
    <2>1. ASSUME NEW t \in Tasks, at'[t] \in HasPage
          PROVE  OwnedBy(page[t].ctx, key[t])'
      <3>1. OwnedBy(page'[t].ctx, key[t]) /\ key'[t] = key[t]
        BY <1>b, <2>1
      <3> QED
        BY <1>a, <3>1 DEF OwnedBy
    <2>2. ASSUME NEW k \in Keys, NEW n \in 1 .. Len(idle'[k])
          PROVE  OwnedBy(idle[k][n].ctx, k)'
      <3>1. OwnedBy(idle'[k][n].ctx, k)
        OBVIOUS
      <3> QED
        BY <1>a, <3>1 DEF OwnedBy
    <2> QED
      BY <2>1, <2>2 DEF TabsOwned
  <1>1. CASE Fewer
    BY <1>1 DEF Fewer, TabsOwned
  <1>2. ASSUME NEW t \in Tasks, Open(t)
        PROVE  /\ \A u \in Tasks : at'[u] \in HasPage => OwnedBy(page'[u].ctx, key[u])
               /\ \A k \in Keys : \A n \in 1 .. Len(idle'[k]) : OwnedBy(idle'[k][n].ctx, k)
    <2>1. /\ idle' = idle /\ page'[t].ctx = ctx[t] /\ at[t] \in HasContext
          /\ \A u \in Tasks \ {t} : at'[u] = at[u] /\ page'[u] = page[u]
      BY <1>0, <1>2 DEF Open, CountersFor, Go, Set, HasContext
    <2> QED
      BY <2>1 DEF TabsOwned, ContextsOwned
  <1>3. ASSUME NEW t \in Tasks, StashPage(t)
        PROVE  /\ \A u \in Tasks : at'[u] \in HasPage => OwnedBy(page'[u].ctx, key[u])
               /\ \A k \in Keys : \A n \in 1 .. Len(idle'[k]) : OwnedBy(idle'[k][n].ctx, k)
    <2>1. /\ at'[t] = "idle" /\ at[t] = "stash"
          /\ \A u \in Tasks \ {t} : at'[u] = at[u] /\ page'[u] = page[u]
      BY <1>0, <1>3 DEF StashPage, Finish, Go, Set
    <2>2. ASSUME NEW l \in Keys, NEW i \in 1 .. Len(idle'[l])
          PROVE  OwnedBy(idle'[l][i].ctx, l)
      <3>1. CASE idle'[l] = idle[l]
        BY <3>1 DEF TabsOwned
      <3>2. CASE l = key[t] /\ idle'[l][i] = page[t]
        BY <2>1, <3>2 DEF TabsOwned, HasPage
      <3>3. CASE i \in 1 .. Len(idle[l]) /\ idle'[l][i] = idle[l][i]
        BY <3>3 DEF TabsOwned
      <3> QED
        BY <1>3, <3>1, <3>2, <3>3, AfterStash
    <2> QED
      BY <2>1, <2>2 DEF TabsOwned, HasPage
  <1>4. ASSUME NEW t \in Tasks, NEW n \in 1 .. MaxPages, TakeIdle(t, n)
        PROVE  /\ \A u \in Tasks : at'[u] \in HasPage => OwnedBy(page'[u].ctx, key[u])
               /\ \A k \in Keys : \A m \in 1 .. Len(idle'[k]) : OwnedBy(idle'[k][m].ctx, k)
    <2>1. key[t] \in Keys
      BY <1>4, TaskReads DEF TakeIdle
    <2>2. n \in 1 .. Len(idle[key[t]])
      BY <1>4, <2>1, AfterTake
    <2>3. /\ page'[t].ctx = idle[key[t]][n].ctx
          /\ \A u \in Tasks \ {t} : at'[u] = at[u] /\ page'[u] = page[u]
      <3>1. idle[key[t]][n] \in Page
        BY <1>0, <2>1, <2>2
      <3> QED
        BY <1>0, <1>4, <3>1 DEF TakeIdle, Lent, Go, Set, Page
    <2>4. ASSUME NEW l \in Keys, NEW i \in 1 .. Len(idle'[l])
          PROVE  OwnedBy(idle'[l][i].ctx, l)
      <3>1. CASE l # key[t]
        BY <1>4, <3>1, AfterTake DEF TabsOwned
      <3>2. CASE l = key[t]
        <4>1. n + i \in 1 .. Len(idle[l]) /\ idle'[l][i] = idle[l][n + i]
          BY <1>4, <3>2, AfterTake
        <4> QED
          BY <4>1 DEF TabsOwned
      <3> QED
        BY <3>1, <3>2
    <2> QED
      BY <2>1, <2>2, <2>3, <2>4 DEF TabsOwned
  <1> QED
    BY <1>1, <1>2, <1>3, <1>4, TabSteps

(* The in-flight counters. *)

Counting == {"acquire", "reset", "register", "leased"}
InLease(t, k) == at[t] \in Leasing /\ key[t] = k
OthersKeep(t) == \A u \in Tasks \ {t} : at'[u] = at[u] /\ key'[u] = key[u]

\* A counter that was looked up is the one of the task's key, unless that
\* context was dropped since.
ArcOwn ==
    \A t \in Tasks : arc[t] # NoCounter =>
        /\ at[t] \in Counting
        /\ arc[t] = key[t] \/ (arc[t] = Detached /\ ~Quiet(key[t]))

\* What an eviction sweeps belongs to an evicted browser.
SweepEvicted ==
    /\ \A k \in sweep.todo : k[1] \in evicted
    /\ sweep.key # NoKey => sweep.key[1] \in evicted

\* The leases whose end takes one off the counter that is in the map.
Held(k) == {t \in Leases(k) : arc[t] # Detached}

Balanced ==
    \A k \in Keys :
        LET out == Cardinality(Held(k)) + leaked[k]
        IN  /\ inFlight[k] <= out
            /\ Quiet(k) => inFlight[k] = out

LEMMA DetachedIsNoKey ==
    Detached \notin Keys /\ NoCounter \notin Keys /\ Detached # NoCounter
  BY PoolAssumption DEF Detached, NoCounter

\* Tasks are finitely many, so leases are counted by a number.
LEMMA LeasesFinite ==
    ASSUME NEW k
    PROVE  /\ IsFiniteSet(Leases(k)) /\ Cardinality(Leases(k)) \in Nat
           /\ IsFiniteSet(Held(k)) /\ Cardinality(Held(k)) \in Nat
           /\ Cardinality(Held(k)) <= Cardinality(Leases(k))
  <1>1. Leases(k) \subseteq Tasks /\ Held(k) \subseteq Leases(k)
    BY DEF Leases, Held
  <1> QED
    BY <1>1, RenderAssumption, FS_Subset, FS_CardinalityType

\* The counters balance when they balance against what the map still counts.
LEMMA BalancedCounts == Types /\ ArcOwn /\ Balanced => CountsBalance
  <1> SUFFICES ASSUME Types, ArcOwn, Balanced, NEW k \in Keys
               PROVE  /\ inFlight[k] <= Cardinality(Leases(k)) + leaked[k]
                      /\ Quiet(k) => inFlight[k] = Cardinality(Leases(k)) + leaked[k]
    BY DEF CountsBalance, Quiet
  <1>1. Quiet(k) => Held(k) = Leases(k)
    BY DetachedIsNoKey DEF ArcOwn, Held, Leases
  <1>2. /\ inFlight[k] <= Cardinality(Held(k)) + leaked[k]
        /\ Quiet(k) => inFlight[k] = Cardinality(Held(k)) + leaked[k]
    BY DEF Balanced
  <1>3. inFlight[k] \in Int /\ leaked[k] \in Nat
    BY DEF Types, PoolTypeOK, CountTypes
  <1> QED
    BY <1>1, <1>2, <1>3, LeasesFinite

\* A step that counts nothing and disturbs nobody who looked a counter up.
NotCounted ==
    /\ UNCHANGED <<inFlight, arc, leaked>>
    /\ \A t \in Tasks, k \in Keys : (InLease(t, k))' <=> InLease(t, k)
    /\ \A t \in Tasks : arc[t] # NoCounter => at'[t] = at[t] /\ key'[t] = key[t]

LooksUp(t) ==
    /\ arc[t] = NoCounter /\ arc' = [arc EXCEPT ![t] = key[t]]
    /\ at'[t] \in Counting /\ key'[t] = key[t] /\ OthersKeep(t)
    /\ at'[t] \in Leasing <=> at[t] \in Leasing
    /\ UNCHANGED <<inFlight, leaked>>

Counted(t) ==
    /\ at[t] \notin Leasing /\ at'[t] \in Leasing /\ key'[t] = key[t] /\ OthersKeep(t)
    /\ Bump(t, 1)
    /\ leaked' = leaked

Uncounted(t) ==
    /\ at[t] \in Leasing /\ at'[t] \notin Leasing /\ OthersKeep(t)
    /\ Bump(t, -1)
    /\ leaked' = leaked

Loses(t) ==
    /\ at[t] \in Leasing /\ at'[t] \notin Leasing /\ OthersKeep(t)
    /\ arc[t] = NoCounter
    /\ leaked' = [leaked EXCEPT ![key[t]] = @ + 1]
    /\ UNCHANGED <<inFlight, arc>>

Removes(k) == RemoveCounter(k) /\ UNCHANGED <<at, key, leaked>>

LEMMA CountSteps ==
    ASSUME Types, ArcOwn, [Next]_vars
    PROVE  \/ NotCounted
           \/ \E t \in Tasks : LooksUp(t) \/ Counted(t) \/ Uncounted(t) \/ Loses(t)
           \/ Removes(sweep.key) /\ sweep.key # NoKey
           \/ \E d \in Droppers : Removes(drop[d].key) /\ Dropping(d)
  <1>1. ASSUME NEW t \in Tasks, FindBrowser(t)
        PROVE  NotCounted
    BY <1>1 DEF FindBrowser, HoldBrowser, Go, Set, NotCounted, InLease, Leasing, Counting,
       ArcOwn, Types, TaskTypes, poolVars, countVars
  <1>2. ASSUME NEW t \in Tasks, LockBrowser(t)
        PROVE  NotCounted
    BY <1>2 DEF LockBrowser, HoldBrowser, Go, Set, NotCounted, InLease, Leasing, Counting,
       ArcOwn, Types, TaskTypes, poolVars, countVars
  <1>3. ASSUME NEW t \in Tasks, Launch(t)
        PROVE  NotCounted
    BY <1>3 DEF Launch, Go, Set, NotCounted, InLease, Leasing, Counting, ArcOwn, Types,
       TaskTypes, poolVars, countVars
  <1>4. ASSUME NEW t \in Tasks, LaunchFails(t)
        PROVE  NotCounted
    BY <1>4 DEF LaunchFails, Finish, Go, Set, NotCounted, InLease, Leasing, Counting, ArcOwn,
       Types, TaskTypes, poolVars, countVars
  <1>5. ASSUME NEW t \in Tasks, Book(t)
        PROVE  NotCounted
    BY <1>5 DEF Book, Go, Set, NotCounted, InLease, Leasing, Counting, ArcOwn, Types,
       TaskTypes, poolVars, countVars
  <1>6. ASSUME NEW t \in Tasks, Forget(t)
        PROVE  NotCounted
    BY <1>6 DEF Forget, Go, NotCounted, InLease, Leasing, Counting, ArcOwn, Types, TaskTypes,
       poolVars, countVars
  <1>7. ASSUME NEW t \in Tasks, Prune(t)
        PROVE  NotCounted
    BY <1>7 DEF Prune, Go, Set, NotCounted, InLease, Leasing, Counting, ArcOwn, Types,
       TaskTypes, poolVars, countVars
  <1>8. ASSUME NEW t \in Tasks, FindContext(t)
        PROVE  NotCounted
    BY <1>8 DEF FindContext, HoldContext, Go, Set, NotCounted, InLease, Leasing, Counting,
       ArcOwn, Types, TaskTypes, poolVars, countVars
  <1>9. ASSUME NEW t \in Tasks, LockContext(t)
        PROVE  NotCounted
    BY <1>9 DEF LockContext, HoldContext, Go, Set, NotCounted, InLease, Leasing, Counting,
       ArcOwn, Types, TaskTypes, poolVars, countVars
  <1>10. ASSUME NEW t \in Tasks, CreateContext(t)
         PROVE  NotCounted
    BY <1>10 DEF CreateContext, Go, Set, NotCounted, InLease, Leasing, Counting, ArcOwn, Types,
       TaskTypes, poolVars, countVars
  <1>11. ASSUME NEW t \in Tasks, ContextFails(t)
         PROVE  NotCounted
    BY <1>11 DEF ContextFails, Finish, Go, Set, NotCounted, InLease, Leasing, Counting, ArcOwn,
       Types, TaskTypes, poolVars, countVars
  <1>12. ASSUME NEW t \in Tasks, OpenFails(t)
         PROVE  NotCounted
    BY <1>12 DEF OpenFails, Finish, Go, Set, NotCounted, InLease, Leasing, Counting, ArcOwn,
       Types, TaskTypes, poolVars, countVars
  <1>13. ASSUME NEW t \in Tasks, InstallOk(t)
         PROVE  NotCounted
    BY <1>13 DEF InstallOk, Go, NotCounted, InLease, Leasing, Counting, ArcOwn, Types,
       TaskTypes, poolVars, countVars
  <1>14. ASSUME NEW t \in Tasks, Cancelled(t)
         PROVE  NotCounted
    BY <1>14 DEF Cancelled, Finish, Go, Set, NotCounted, InLease, Leasing, Counting, ArcOwn,
       Types, TaskTypes, poolVars, countVars
  <1>15. ASSUME NEW t \in Tasks, ResetOk(t)
         PROVE  NotCounted
    BY <1>15 DEF ResetOk, Go, NotCounted, InLease, Leasing, Counting, ArcOwn, Types, TaskTypes,
       poolVars, countVars
  <1>16. ASSUME NEW t \in Tasks, NoIdle(t)
         PROVE  NotCounted
    BY <1>16 DEF NoIdle, IdleFree, AcquireNone, Go, NotCounted, InLease, Leasing, Counting,
       ArcOwn, Types, TaskTypes, countVars
  <1>17. ASSUME NEW t \in Tasks, StashPage(t)
         PROVE  NotCounted
    BY <1>17 DEF StashPage, Stash, Finish, Go, Set, NotCounted, InLease, Leasing, Counting,
       ArcOwn, Types, TaskTypes, countVars
  <1>18. ASSUME NEW t \in Tasks, NEW k \in Keys, Begin(t, k)
         PROVE  NotCounted
    BY <1>18 DEF Begin, Go, Set, NotCounted, InLease, Leasing, Counting, ArcOwn, Types,
       TaskTypes, poolVars
  <1>19. ASSUME NEW t \in Tasks, SweepIdle(t)
         PROVE  NotCounted
    BY <1>19 DEF SweepIdle, DropIdle, NotCounted, InLease, taskVars, countVars
  <1>20. ASSUME NEW d \in Droppers, DropPages(d)
         PROVE  NotCounted
    BY <1>20 DEF DropPages, DropIdle, NotCounted, InLease, taskVars, countVars
  <1>21. ASSUME NEW d \in Droppers, Dispose(d)
         PROVE  NotCounted
    BY <1>21 DEF Dispose, NotCounted, InLease, poolVars, taskVars, countVars
  <1>22. ASSUME NEW d \in Droppers, ForgetContext(d)
         PROVE  NotCounted
    BY <1>22 DEF ForgetContext, NotCounted, InLease, poolVars, taskVars, countVars
  <1>23. ASSUME NEW d \in Droppers, EndDrop(d)
         PROVE  NotCounted
    BY <1>23 DEF EndDrop, NotCounted, InLease, poolVars, taskVars, countVars
  <1>24. ASSUME NEW d \in Droppers, NEW s \in Sessions, StartDrop(d, s)
         PROVE  NotCounted
    BY <1>24 DEF StartDrop, NotCounted, InLease, poolVars, taskVars
  <1>25. ASSUME NEW i \in watched, ChromeDies(i)
         PROVE  NotCounted
    BY <1>25 DEF ChromeDies, NotCounted, InLease, poolVars, taskVars
  <1>26. ASSUME NEW t \in Tasks, Fetch(t)
         PROVE  LooksUp(t)
    BY <1>26 DEF Fetch, CountersFor, LooksUp, OthersKeep, Counting, taskVars, countVars
  <1>27. ASSUME NEW t \in Tasks, Open(t)
         PROVE  LooksUp(t)
    BY <1>27 DEF Open, CountersFor, Go, Set, LooksUp, Counting, OthersKeep, Leasing, Types,
       TaskTypes
  <1>28. ASSUME NEW t \in Tasks, NEW n \in 1 .. MaxPages, TakeIdle(t, n)
         PROVE  Counted(t)
    BY <1>28 DEF TakeIdle, TryAcquire, Go, Set, Counted, OthersKeep, Leasing, Types, TaskTypes,
       countVars
  <1>29. ASSUME NEW t \in Tasks, RegisterFresh(t)
         PROVE  Counted(t)
    BY <1>29 DEF RegisterFresh, CountFresh, Go, Counted, OthersKeep, Leasing, Types, TaskTypes,
       countVars
  <1>30. ASSUME NEW t \in Tasks, ResetFails(t)
         PROVE  Uncounted(t)
    BY <1>30 DEF ResetFails, Uncount, Go, Set, Uncounted, OthersKeep, Leasing, Types,
       TaskTypes, countVars
  <1>31. ASSUME NEW t \in Tasks, ReleaseDirty(t)
         PROVE  Uncounted(t)
    BY <1>31 DEF ReleaseDirty, Uncount, Finish, Go, Set, Uncounted, OthersKeep, Leasing, Types,
       TaskTypes, countVars
  <1>32. ASSUME NEW t \in Tasks, ReleaseClean(t)
         PROVE  Uncounted(t)
    BY <1>32 DEF ReleaseClean, Uncount, Go, Uncounted, OthersKeep, Leasing, Types, TaskTypes,
       countVars
  <1>33. ASSUME NEW t \in Tasks, LosesPage(t)
         PROVE  Loses(t)
    BY <1>33 DEF LosesPage, Finish, Go, Set, Loses, OthersKeep, Leasing, Types, TaskTypes,
       poolVars
  <1>34. ASSUME NEW t \in Tasks, SweepCounter(t)
         PROVE  Removes(sweep.key) /\ sweep.key # NoKey
    BY <1>34 DEF SweepCounter, Removes, taskVars, countVars
  <1>35. ASSUME NEW d \in Droppers, DropCounter(d)
         PROVE  Removes(drop[d].key) /\ Dropping(d)
    BY <1>35 DEF DropCounter, Dropping, Removes, taskVars, countVars
  <1>36. CASE UNCHANGED vars
    BY <1>36 DEF vars, poolVars, taskVars, countVars, NotCounted, InLease
  <1> QED
    BY <1>1, <1>2, <1>3, <1>4, <1>5, <1>6, <1>7, <1>8, <1>9, <1>10, <1>11, <1>12, <1>13, <1>14,
       <1>15, <1>16, <1>17, <1>18, <1>19, <1>20, <1>21, <1>22, <1>23, <1>24, <1>25, <1>26,
       <1>27, <1>28, <1>29, <1>30, <1>31, <1>32, <1>33, <1>34, <1>35, <1>36 DEF Next, Step,
       DropStep, Done

\* A counter is removed for a context that is being evicted or dropped.
LEMMA RemovedIsDropped ==
    ASSUME Types, ArcOwn, SweepEvicted, DropIsDropped, [Next]_vars
    PROVE  \/ NotCounted
           \/ \E t \in Tasks : LooksUp(t) \/ Counted(t) \/ Uncounted(t) \/ Loses(t)
           \/ \E k \in Keys : Removes(k) /\ ~Quiet(k)
  <1>1. sweep.key # NoKey => sweep.key \in Keys /\ ~Quiet(sweep.key)
    BY DEF Types, BrowserTypes, SweepEvicted, Quiet
  <1>2. \A d \in Droppers : Dropping(d) => drop[d].key \in Keys /\ ~Quiet(drop[d].key)
    BY DEF Types, DropTypes, DropIsDropped, Quiet
  <1> QED
    BY <1>1, <1>2, CountSteps

\* Who was evicted or dropped once stays so.
LEMMA QuietBefore ==
    ASSUME Types, [Next]_vars, NEW k, Quiet(k)'
    PROVE  Quiet(k)
  BY HistoryGrows DEF Quiet

LEMMA NextSweepEvicted ==
    Types /\ VictimEvicted /\ SweepEvicted /\ [Next]_vars => SweepEvicted'
  <1> SUFFICES ASSUME Types, VictimEvicted, SweepEvicted, [Next]_vars
               PROVE  SweepEvicted'
    OBVIOUS
  <1>1. ASSUME NEW t \in Tasks, Forget(t)
        PROVE  SweepEvicted'
    <2>1. victim[t] \in evicted /\ evicted' = evicted
      BY <1>1 DEF Forget, VictimEvicted
    <2>2. sweep'.todo \subseteq KeysOf(victim[t]) /\ sweep'.key = NoKey
      BY <1>1 DEF Forget, NoSweep
    <2> QED
      BY <2>1, <2>2 DEF SweepEvicted, KeysOf
  <1>2. ASSUME NEW t \in Tasks, SweepIdle(t)
        PROVE  SweepEvicted'
    <2>1. PICK k \in sweep.todo : sweep' = [todo |-> sweep.todo \ {k}, key |-> k]
      BY <1>2 DEF SweepIdle
    <2>2. evicted' = evicted
      BY <1>2 DEF SweepIdle
    <2> QED
      BY <2>1, <2>2 DEF SweepEvicted
  <1>3. ASSUME NEW t \in Tasks, SweepCounter(t)
        PROVE  SweepEvicted'
    <2>1. sweep'.todo = sweep.todo /\ sweep'.key = NoKey /\ evicted' = evicted
      BY <1>3 DEF SweepCounter, Types, BrowserTypes
    <2> QED
      BY <2>1 DEF SweepEvicted
  <1>4. CASE sweep' = sweep
    BY <1>4, HistoryGrows DEF SweepEvicted
  <1> QED
    BY <1>1, <1>2, <1>3, <1>4, BrowserFrame DEF browserVars, Launch, Book, ChromeDies

LEMMA NextArcOwn ==
    Types /\ ArcOwn /\ SweepEvicted /\ DropIsDropped /\ [Next]_vars => ArcOwn'
  <1> SUFFICES ASSUME Types, ArcOwn, SweepEvicted, DropIsDropped, [Next]_vars,
                      NEW u \in Tasks, arc'[u] # NoCounter
               PROVE  /\ at'[u] \in Counting
                      /\ arc'[u] = key'[u] \/ (arc'[u] = Detached /\ ~Quiet(key[u])')
    BY DEF ArcOwn
  <1>0. arc \in [Tasks -> Keys \cup {NoCounter, Detached}]
    BY DEF Types, PoolTypeOK
  <1>1. CASE arc'[u] = arc[u] /\ at'[u] = at[u] /\ key'[u] = key[u]
    BY <1>1, QuietBefore DEF ArcOwn
  <1>2. CASE NotCounted
    BY <1>1, <1>2 DEF NotCounted
  <1>3. ASSUME NEW t \in Tasks, LooksUp(t)
        PROVE  /\ at'[u] \in Counting
               /\ arc'[u] = key'[u] \/ (arc'[u] = Detached /\ ~Quiet(key[u])')
    BY <1>0, <1>1, <1>3 DEF LooksUp, OthersKeep
  <1>4. ASSUME NEW t \in Tasks, Counted(t) \/ Uncounted(t)
        PROVE  /\ at'[u] \in Counting
               /\ arc'[u] = key'[u] \/ (arc'[u] = Detached /\ ~Quiet(key[u])')
    <2>1. arc' = [arc EXCEPT ![t] = NoCounter] /\ OthersKeep(t)
      BY <1>4 DEF Counted, Uncounted, Bump
    <2> QED
      BY <1>0, <1>1, <2>1 DEF OthersKeep
  <1>5. ASSUME NEW t \in Tasks, Loses(t)
        PROVE  /\ at'[u] \in Counting
               /\ arc'[u] = key'[u] \/ (arc'[u] = Detached /\ ~Quiet(key[u])')
    BY <1>1, <1>5 DEF Loses, OthersKeep
  <1>6. ASSUME NEW k \in Keys, Removes(k), ~Quiet(k)
        PROVE  /\ at'[u] \in Counting
               /\ arc'[u] = key'[u] \/ (arc'[u] = Detached /\ ~Quiet(key[u])')
    <2>1. /\ arc'[u] = IF arc[u] = k THEN Detached ELSE arc[u]
          /\ at'[u] = at[u] /\ key'[u] = key[u]
      BY <1>6 DEF Removes, RemoveCounter
    <2>2. CASE arc[u] = k
      <3>1. at[u] \in Counting /\ key[u] = k
        BY <2>2, DetachedIsNoKey DEF ArcOwn
      <3> QED
        BY <1>6, <2>1, <2>2, <3>1, QuietBefore
    <2> QED
      BY <1>1, <2>1, <2>2
  <1> QED
    BY <1>2, <1>3, <1>4, <1>5, <1>6, RemovedIsDropped

LEMMA InitBalance == Init => ArcOwn /\ SweepEvicted /\ Balanced
  <1> SUFFICES ASSUME Init
               PROVE  ArcOwn /\ SweepEvicted /\ Balanced
    OBVIOUS
  <1>1. ArcOwn /\ SweepEvicted
    BY DEF Init, PoolInit, ArcOwn, SweepEvicted, NoSweep
  <1>2. ASSUME NEW k \in Keys
        PROVE  inFlight[k] = Cardinality(Held(k)) + leaked[k] /\ inFlight[k] \in Int
    <2>1. Held(k) = {}
      BY DEF Init, Held, Leases, Leasing
    <2> QED
      BY <2>1, FS_EmptySet DEF Init, PoolInit
  <1>3. Balanced
    <2> SUFFICES ASSUME NEW k \in Keys
                 PROVE  inFlight[k] <= Cardinality(Held(k)) + leaked[k]
                        /\ inFlight[k] = Cardinality(Held(k)) + leaked[k]
      BY DEF Balanced
    <2> QED
      BY <1>2
  <1> QED
    BY <1>1, <1>3

LEMMA NextBalance ==
    Types /\ ArcOwn /\ SweepEvicted /\ DropIsDropped /\ Balanced /\ [Next]_vars => Balanced'
  <1> SUFFICES ASSUME Types, ArcOwn, SweepEvicted, DropIsDropped, Balanced, [Next]_vars,
                      NEW k \in Keys
               PROVE  /\ inFlight'[k] <= Cardinality(Held(k)') + leaked'[k]
                      /\ Quiet(k)' => inFlight'[k] = Cardinality(Held(k)') + leaked'[k]
    BY DEF Balanced
  <1> DEFINE Goal == /\ inFlight'[k] <= Cardinality(Held(k)') + leaked'[k]
                     /\ Quiet(k)' => inFlight'[k] = Cardinality(Held(k)') + leaked'[k]
  <1>0. /\ inFlight \in [Keys -> Int] /\ leaked \in [Keys -> Nat]
        /\ arc \in [Tasks -> Keys \cup {NoCounter, Detached}]
        /\ inFlight[k] <= Cardinality(Held(k)) + leaked[k]
        /\ Quiet(k)' => inFlight[k] = Cardinality(Held(k)) + leaked[k]
        /\ IsFiniteSet(Held(k)) /\ Cardinality(Held(k)) \in Nat
    BY LeasesFinite, QuietBefore DEF Types, PoolTypeOK, CountTypes, Balanced
  <1>a. inFlight[k] \in Int /\ leaked[k] \in Nat
    BY <1>0
  \* A step that leaves the counter and its leases alone.
  <1>b. ASSUME Held(k)' = Held(k), inFlight'[k] = inFlight[k], leaked'[k] = leaked[k]
        PROVE  Goal
    BY <1>0, <1>b
  <1>1. ASSUME NotCounted
        PROVE  Goal
    <2>1. Held(k)' = Held(k)
      BY <1>1 DEF NotCounted, Held, Leases, InLease
    <2> QED
      BY <1>1, <1>b, <2>1 DEF NotCounted
  <1>2. ASSUME NEW t \in Tasks, LooksUp(t)
        PROVE  Goal
    <2>1. arc'[t] # Detached
      <3>1. at[t] # "idle" \/ at'[t] # "idle"
        BY <1>2 DEF LooksUp, Counting
      <3>2. Types'
        BY NextTypes
      <3>3. key[t] \in Keys
        BY <1>2, <3>1, <3>2 DEF LooksUp, Counting, Types, TaskTypes, Busy
      <3> QED
        BY <1>0, <1>2, <3>3, DetachedIsNoKey DEF LooksUp
    <2>2. \A u \in Tasks : u \in Held(k)' <=> u \in Held(k)
      BY <1>0, <1>2, <2>1, DetachedIsNoKey DEF LooksUp, OthersKeep, Held, Leases
    <2>3. Held(k)' = Held(k)
      BY <2>2 DEF Held, Leases
    <2> QED
      BY <1>2, <1>b, <2>3 DEF LooksUp
  <1>3. ASSUME NEW t \in Tasks, Counted(t)
        PROVE  Goal
    <2>1. /\ inFlight'[k] = IF k = arc[t] THEN inFlight[k] + 1 ELSE inFlight[k]
          /\ arc[t] # NoCounter /\ arc' = [arc EXCEPT ![t] = NoCounter]
          /\ leaked' = leaked
      BY <1>3 DEF Counted, Bump
    <2>2. arc[t] = key[t] \/ (arc[t] = Detached /\ ~Quiet(key[t]))
      BY <2>1 DEF ArcOwn
    <2>3. CASE key[t] = k
      <3>1. Held(k)' = Held(k) \cup {t} /\ t \notin Held(k)
        BY <1>0, <1>3, <2>1, <2>3, DetachedIsNoKey DEF Counted, OthersKeep, Held, Leases
      <3>2. Cardinality(Held(k)') = Cardinality(Held(k)) + 1
        BY <1>0, <3>1, FS_AddElement
      <3>3. CASE arc[t] = k
        BY <1>0, <1>a, <2>1, <3>2, <3>3
      <3>4. CASE arc[t] # k
        <4>1. ~Quiet(k)' /\ inFlight'[k] = inFlight[k]
          BY <2>1, <2>2, <2>3, <3>4, QuietBefore
        <4> QED
          BY <1>0, <1>a, <2>1, <3>2, <4>1
      <3> QED
        BY <3>3, <3>4
    <2>4. CASE key[t] # k
      <3>1. Held(k)' = Held(k)
        BY <1>0, <1>3, <2>1, <2>4 DEF Counted, OthersKeep, Held, Leases
      <3>2. k # arc[t]
        BY <2>2, <2>4, DetachedIsNoKey
      <3> QED
        BY <1>b, <2>1, <3>1, <3>2
    <2> QED
      BY <2>3, <2>4
  <1>4. ASSUME NEW t \in Tasks, Uncounted(t)
        PROVE  Goal
    <2>1. /\ inFlight'[k] = IF k = arc[t] THEN inFlight[k] + (-1) ELSE inFlight[k]
          /\ arc[t] # NoCounter /\ arc' = [arc EXCEPT ![t] = NoCounter]
          /\ leaked' = leaked
      BY <1>4 DEF Uncounted, Bump
    <2>2. arc[t] = key[t] \/ (arc[t] = Detached /\ ~Quiet(key[t]))
      BY <2>1 DEF ArcOwn
    <2>3. CASE arc[t] = k
      <3>1. key[t] = k
        BY <2>2, <2>3, DetachedIsNoKey
      <3>2. Held(k)' = Held(k) \ {t} /\ t \in Held(k)
        BY <1>0, <1>4, <2>1, <2>3, <3>1, DetachedIsNoKey
           DEF Uncounted, OthersKeep, Held, Leases
      <3>3. Cardinality(Held(k)') = Cardinality(Held(k)) - 1
        BY <1>0, <3>2, FS_RemoveElement
      <3> QED
        BY <1>0, <1>a, <2>1, <2>3, <3>3
    <2>4. CASE arc[t] # k
      <3>1. t \notin Held(k)
        BY <2>2, <2>4 DEF Held, Leases
      <3>2. Held(k)' = Held(k)
        BY <1>0, <1>4, <2>1, <3>1 DEF Uncounted, OthersKeep, Held, Leases
      <3> QED
        BY <1>b, <2>1, <2>4, <3>2
    <2> QED
      BY <2>3, <2>4
  <1>5. ASSUME NEW t \in Tasks, Loses(t)
        PROVE  Goal
    <2>1. CASE key[t] = k
      <3>1. Held(k)' = Held(k) \ {t} /\ t \in Held(k)
        BY <1>0, <1>5, <2>1, DetachedIsNoKey, ZenonT(60) DEF Loses, OthersKeep, Held, Leases
      <3>2. Cardinality(Held(k)') = Cardinality(Held(k)) - 1
        BY <1>0, <3>1, FS_RemoveElement
      <3>3. leaked'[k] = leaked[k] + 1 /\ inFlight'[k] = inFlight[k]
        BY <1>0, <1>5, <2>1 DEF Loses
      <3> QED
        BY <1>0, <1>a, <3>2, <3>3
    <2>2. CASE key[t] # k
      <3>1. Held(k)' = Held(k)
        BY <1>5, <2>2 DEF Loses, OthersKeep, Held, Leases
      <3>2. leaked'[k] = leaked[k] /\ inFlight'[k] = inFlight[k]
        BY <1>0, <1>5, <2>2 DEF Loses
      <3> QED
        BY <1>b, <3>1, <3>2
    <2> QED
      BY <2>1, <2>2
  <1>6. ASSUME NEW l \in Keys, Removes(l), ~Quiet(l)
        PROVE  Goal
    <2>1. /\ inFlight' = [inFlight EXCEPT ![l] = 0] /\ leaked' = leaked
          /\ arc' = [u \in Tasks |-> IF arc[u] = l THEN Detached ELSE arc[u]]
          /\ at' = at /\ key' = key
      BY <1>6 DEF Removes, RemoveCounter
    <2>2. CASE l = k
      <3>1. ~Quiet(k)' /\ inFlight'[k] = 0 /\ leaked'[k] \in Nat
        BY <1>0, <1>6, <2>1, <2>2, QuietBefore
      <3>2. IsFiniteSet(Held(k)') /\ Cardinality(Held(k)') \in Nat
        <4>1. Held(k)' \subseteq Held(k)
          BY <2>1 DEF Held, Leases
        <4> QED
          BY <1>0, <4>1, FS_Subset, FS_CardinalityType
      <3> QED
        BY <3>1, <3>2
    <2>3. CASE l # k
      <3>1. \A u \in Tasks : u \in Held(k)' <=> u \in Held(k)
        <4> SUFFICES ASSUME NEW u \in Tasks, arc[u] = l
                     PROVE  key[u] # k
          BY <2>1 DEF Held, Leases
        <4>1. key[u] = l
          BY DetachedIsNoKey DEF ArcOwn
        <4> QED
          BY <2>3, <4>1
      <3>2. Held(k)' = Held(k)
        BY <3>1 DEF Held, Leases
      <3> QED
        BY <1>0, <1>b, <2>1, <2>3, <3>2
    <2> QED
      BY <2>2, <2>3
  <1> HIDE DEF Goal
  <1>7. Goal
    BY <1>1, <1>2, <1>3, <1>4, <1>5, <1>6, RemovedIsDropped
  <1> QED
    BY <1>7 DEF Goal

(* Theorems. *)

IInv ==
    /\ Types
    /\ TabsKnown /\ PageHeldOnce /\ IdleReusable
    /\ ArcOwn /\ SweepEvicted /\ Balanced
    /\ RegisteredIsTracked
    /\ LaunchInv /\ ContextInv /\ TabsOwned

LEMMA Inductive == Spec => []IInv
  <1>1. Init => IInv
    BY InitTypes, InitTabs, InitBalance, InitTracked, InitLaunch, InitContexts, InitTabsOwned
       DEF IInv
  <1>2. IInv /\ [Next]_vars => IInv'
    <2> SUFFICES ASSUME IInv, [Next]_vars
                 PROVE  IInv'
      OBVIOUS
    <2>1. Types' /\ TabsKnown' /\ PageHeldOnce' /\ IdleReusable'
      BY NextTypes, NextTabsKnown, NextPageHeldOnce, NextIdleReusable DEF IInv
    <2>2. RegisteredIsTracked' /\ LaunchInv'
      BY NextTracked, NextLaunch DEF IInv
    <2>3. ContextInv' /\ TabsOwned'
      BY NextContexts, NextTabsOwned DEF IInv, LaunchInv, ContextInv
    <2>4. ArcOwn' /\ SweepEvicted' /\ Balanced'
      BY NextArcOwn, NextSweepEvicted, NextBalance DEF IInv, LaunchInv, ContextInv
    <2> QED
      BY <2>1, <2>2, <2>3, <2>4 DEF IInv
  <1> QED
    BY <1>1, <1>2, PTL DEF Spec

\* Every variable keeps its type.
THEOREM TypeCorrect == Spec => []TypeOK
  <1>1. IInv => TypeOK
    BY TypesAreTypeOK DEF IInv
  <1> QED
    BY <1>1, Inductive, PTL

\* A tab is with one render, or once in one queue: no two renders ever drive
\* the same tab.
THEOREM PagesHeldOnce == Spec => []PageHeldOnce
  <1>1. IInv => PageHeldOnce
    BY DEF IInv
  <1> QED
    BY <1>1, Inductive, PTL

\* No queue of idle tabs outgrows its cap, and no tab in one is used up.
THEOREM IdleStaysReusable == Spec => []IdleReusable
  <1>1. IInv => IdleReusable
    BY DEF IInv
  <1> QED
    BY <1>1, Inductive, PTL

\* The in-flight counters never claim more than the tabs that are out and
\* those lost before a lease held them; and they count exactly these where
\* nobody evicted the browser or dropped the session.
THEOREM CountersBalance == Spec => []CountsBalance
  <1>1. IInv => CountsBalance
    BY BalancedCounts DEF IInv
  <1> QED
    BY <1>1, Inductive, PTL

\* Every registered browser is in the mru list, which never exceeds
\* max_browsers, or is about to be: the eviction finds them all.
THEOREM BrowsersAreTracked == Spec => []RegisteredIsTracked
  <1>1. IInv => RegisteredIsTracked
    BY DEF IInv
  <1> QED
    BY <1>1, Inductive, PTL

\* Whatever the renders do together, a key nobody evicted has one browser,
\* and one that was not dropped either has one context.
THEOREM OneBrowserOneContext == Spec => []OncePerKey
  <1>1. IInv => OncePerKey
    BY DEF IInv, LaunchInv, LaunchedOnce, ContextInv, CreatedOnce, Quiet, OncePerKey
  <1> QED
    BY <1>1, Inductive, PTL

\* A render's tab is in a context of its own proxy and session, and in the
\* one it found unless the browser was evicted or the session dropped.
THEOREM TabsStayInContext == Spec => []OwnContext
  <1>1. ASSUME IInv
        PROVE  OwnContext
    <2> SUFFICES ASSUME NEW t \in Tasks, at[t] \in HasPage
                 PROVE  /\ page[t].ctx \in 1 .. Len(owner)
                        /\ owner[page[t].ctx].key = key[t]
                        /\ B(t) \notin evicted /\ key[t][2] \notin dropped => page[t].ctx = ctx[t]
      BY DEF OwnContext
    <2>1. OwnedBy(page[t].ctx, key[t]) /\ OwnedBy(ctx[t], key[t])
      BY <1>1 DEF IInv, TabsOwned, ContextInv, ContextsOwned, HasContext
    <2> QED
      BY <1>1, <2>1 DEF IInv, ContextInv, CreatedOnce, OwnedBy, Quiet, B
  <1> QED
    BY <1>1, Inductive, PTL

(* The proxy of a render. *)

\* The states from which on a task holds a browser.
HasBrowser == Steps \ {"idle", "browser", "launchlock", "launch"}

LaunchedFor(i, b) == i \in 1 .. Len(home) /\ home[i] = b

RegisteredOwn == \A b \in Browsers : browsers[b] # 0 => LaunchedFor(browsers[b], b)
HeldOwn == \A t \in Tasks : at[t] \in HasBrowser => LaunchedFor(inst[t], B(t))
CreatedOwn == \A c \in 1 .. Len(owner) : LaunchedFor(owner[c].inst, owner[c].key[1])

ProxyInv == RegisteredOwn /\ HeldOwn /\ CreatedOwn

\* A render holds a Chrome launched for its own proxy, and the tab it drives
\* was opened in one (ensure_browser, ensure_session_context).
OwnProxy ==
    \A t \in Tasks :
        /\ at[t] \in HasBrowser => LaunchedFor(inst[t], B(t))
        /\ at[t] \in HasPage => LaunchedFor(owner[page[t].ctx].inst, B(t))

\* Launches add to home and nothing else touches it.
LEMMA HomeGrows ==
    ASSUME Types, [Next]_vars, NEW i, NEW b, LaunchedFor(i, b)
    PROVE  LaunchedFor(i, b)'
  <1>1. home \in Seq(Browsers)
    BY DEF Types, BrowserTypes
  <1>2. ASSUME NEW t \in Tasks, Launch(t)
        PROVE  LaunchedFor(i, b)'
    BY <1>1, <1>2 DEF Launch, LaunchedFor
  <1>3. CASE home' = home
    BY <1>3 DEF LaunchedFor
  <1> QED
    BY <1>2, <1>3, BrowserFrame DEF browserVars, Book, Forget, SweepIdle, SweepCounter, ChromeDies

\* A step that gives no task another browser.
BrowserKept ==
    \A t \in Tasks : at'[t] \in HasBrowser =>
        at[t] \in HasBrowser /\ key'[t] = key[t] /\ inst'[t] = inst[t]

LEMMA BrowserTaskSteps ==
    ASSUME Types, [Next]_vars
    PROVE  BrowserKept \/ \E t \in Tasks : FindBrowser(t) \/ LockBrowser(t) \/ Launch(t)
  <1> USE DEF BrowserKept, HasBrowser, Types, TaskTypes
  <1>1. ASSUME NEW t \in Tasks, Finish(t) /\ UNCHANGED browserVars
        PROVE  BrowserKept
    BY <1>1 DEF Finish, Go, Set
  <1>2. ASSUME NEW t \in Tasks, Book(t) \/ Forget(t) \/ Prune(t)
        PROVE  BrowserKept
    BY <1>2 DEF Book, Forget, Prune, Go, Set
  <1>3. ASSUME NEW t \in Tasks, FindContext(t) \/ LockContext(t) \/ CreateContext(t)
        PROVE  BrowserKept
    BY <1>3 DEF FindContext, LockContext, CreateContext, HoldContext, Go, Set
  <1>4. ASSUME NEW t \in Tasks, NoIdle(t) \/ ResetOk(t) \/ ResetFails(t) \/ Open(t)
                                 \/ RegisterFresh(t) \/ InstallOk(t) \/ ReleaseClean(t)
        PROVE  BrowserKept
    BY <1>4 DEF NoIdle, ResetOk, ResetFails, Open, RegisterFresh, InstallOk, ReleaseClean, Go, Set
  <1>5. ASSUME NEW t \in Tasks, LaunchFails(t) \/ ContextFails(t) \/ OpenFails(t) \/ LosesPage(t)
                                 \/ ReleaseDirty(t) \/ StashPage(t) \/ Cancelled(t)
        PROVE  BrowserKept
    BY <1>1, <1>5 DEF LaunchFails, ContextFails, OpenFails, LosesPage, ReleaseDirty, StashPage,
                      Cancelled
  <1>6. ASSUME NEW t \in Tasks, NEW n \in 1 .. MaxPages, TakeIdle(t, n)
        PROVE  BrowserKept
    BY <1>6 DEF TakeIdle, Go, Set
  <1>7. ASSUME NEW t \in Tasks, NEW k \in Keys, Begin(t, k)
        PROVE  BrowserKept
    BY <1>7 DEF Begin, Go, Set
  <1>8. CASE UNCHANGED taskVars
    BY <1>8 DEF taskVars
  <1> QED
    BY <1>2, <1>3, <1>4, <1>5, <1>6, <1>7, <1>8, TaskFrame

LEMMA InitProxy == Init => ProxyInv
  BY DEF Init, ProxyInv, RegisteredOwn, HeldOwn, CreatedOwn, HasBrowser

LEMMA NextRegisteredOwn ==
    Types /\ RegisteredOwn /\ [Next]_vars => RegisteredOwn'
  <1> SUFFICES ASSUME Types, RegisteredOwn, [Next]_vars, NEW b \in Browsers, browsers'[b] # 0
               PROVE  LaunchedFor(browsers[b], b)'
    BY DEF RegisteredOwn
  <1>0. home \in Seq(Browsers) /\ browsers \in [Browsers -> 0 .. Len(home)]
    BY DEF Types, BrowserTypes
  <1>1. ASSUME NEW t \in Tasks, Launch(t), B(t) = b
        PROVE  LaunchedFor(browsers[b], b)'
    BY <1>0, <1>1 DEF Launch, LaunchedFor
  <1>2. CASE browsers'[b] = browsers[b]
    <2>1. LaunchedFor(browsers[b], b)
      BY <1>2 DEF RegisteredOwn
    <2>2. \A i : LaunchedFor(i, b) => LaunchedFor(i, b)'
      BY HomeGrows
    <2> QED
      BY <1>2, <2>1, <2>2 DEF LaunchedFor
  <1>3. ASSUME NEW t \in Tasks, Launch(t), B(t) # b
        PROVE  browsers'[b] = browsers[b]
    BY <1>0, <1>3 DEF Launch
  <1>4. ASSUME NEW t \in Tasks, Book(t)
        PROVE  browsers'[b] = browsers[b]
    <2>1. browsers' = browsers \/ \E old : browsers' = [browsers EXCEPT ![old] = 0]
      BY <1>4 DEF Book, Unregister
    <2> QED
      BY <1>0, <2>1
  <1> QED
    BY <1>1, <1>2, <1>3, <1>4, BrowserFrame
       DEF browserVars, Forget, SweepIdle, SweepCounter, ChromeDies

LEMMA NextHeldOwn ==
    Types /\ RegisteredOwn /\ HeldOwn /\ [Next]_vars => HeldOwn'
  <1> SUFFICES ASSUME Types, RegisteredOwn, HeldOwn, [Next]_vars,
                      NEW u \in Tasks, at'[u] \in HasBrowser
               PROVE  LaunchedFor(inst[u], B(u))'
    BY DEF HeldOwn
  <1>0. /\ at \in [Tasks -> Steps] /\ inst \in [Tasks -> Nat]
        /\ home \in Seq(Browsers)
    BY DEF Types, TaskTypes, BrowserTypes
  <1>a. \A i, b : LaunchedFor(i, b) => LaunchedFor(i, b)'
    BY HomeGrows
  <1>1. CASE at[u] \in HasBrowser /\ key'[u] = key[u] /\ inst'[u] = inst[u]
    <2>1. LaunchedFor(inst[u], B(u))
      BY <1>1 DEF HeldOwn
    <2> QED
      BY <1>1, <1>a, <2>1 DEF LaunchedFor, B
  <1>2. ASSUME NEW t \in Tasks, Launch(t)
        PROVE  LaunchedFor(inst[u], B(u))'
    <2>1. CASE u = t
      BY <1>0, <1>2, <2>1 DEF Launch, LaunchedFor, Set, B
    <2>2. CASE u # t
      <3>1. at[u] \in HasBrowser /\ key'[u] = key[u] /\ inst'[u] = inst[u]
        BY <1>0, <1>2, <2>2 DEF Launch, Go, Set
      <3> QED
        BY <1>1, <3>1
    <2> QED
      BY <2>1, <2>2
  <1>3. ASSUME NEW t \in Tasks, FindBrowser(t) \/ LockBrowser(t)
        PROVE  LaunchedFor(inst[u], B(u))'
    <2>0. key' = key /\ \A v \in Tasks \ {t} : at'[v] = at[v] /\ inst'[v] = inst[v]
      BY <1>0, <1>3 DEF FindBrowser, LockBrowser, HoldBrowser, Go, Set
    <2>1. CASE u = t
      <3>1. B(t) \in Registered /\ inst'[t] = browsers[B(t)]
        BY <1>0, <1>3, <2>1 DEF FindBrowser, LockBrowser, HoldBrowser, Go, Set, HasBrowser
      <3>2. LaunchedFor(browsers[B(t)], B(t))
        BY <3>1 DEF RegisteredOwn, Registered
      <3> QED
        BY <1>a, <2>0, <2>1, <3>1, <3>2 DEF LaunchedFor, B
    <2>2. CASE u # t
      BY <1>1, <2>0, <2>2
    <2> QED
      BY <2>1, <2>2
  <1>4. CASE BrowserKept
    BY <1>1, <1>4, SMTT(40) DEF BrowserKept
  <1> QED
    BY <1>2, <1>3, <1>4, BrowserTaskSteps

LEMMA NextCreatedOwn ==
    Types /\ HeldOwn /\ CreatedOwn /\ [Next]_vars => CreatedOwn'
  <1> SUFFICES ASSUME Types, HeldOwn, CreatedOwn, [Next]_vars, NEW c \in 1 .. Len(owner')
               PROVE  LaunchedFor(owner[c].inst, owner[c].key[1])'
    BY DEF CreatedOwn
  <1>0. owner \in Seq([key : Keys, inst : Nat])
    BY DEF Types, ContextTypes
  <1>a. \A i, b : LaunchedFor(i, b) => LaunchedFor(i, b)'
    BY HomeGrows
  <1>1. CASE c \in 1 .. Len(owner) /\ owner'[c] = owner[c]
    <2>1. LaunchedFor(owner[c].inst, owner[c].key[1])
      BY <1>1 DEF CreatedOwn
    <2> QED
      BY <1>1, <1>a, <2>1 DEF LaunchedFor
  <1>2. ASSUME NEW t \in Tasks, CreateContext(t)
        PROVE  LaunchedFor(owner[c].inst, owner[c].key[1])'
    <2>1. owner' = Append(owner, [key |-> key[t], inst |-> inst[t]])
      BY <1>2 DEF CreateContext
    <2>2. CASE c = Len(owner) + 1
      <3>1. owner'[c].inst = inst[t] /\ owner'[c].key[1] = B(t)
        BY <1>0, <2>1, <2>2 DEF B
      <3>2. LaunchedFor(inst[t], B(t))
        BY <1>2 DEF HeldOwn, CreateContext, HasBrowser, Steps
      <3> QED
        BY <1>a, <3>1, <3>2 DEF LaunchedFor
    <2>3. CASE c # Len(owner) + 1
      <3>1. c \in 1 .. Len(owner) /\ owner'[c] = owner[c]
        BY <1>0, <2>1, <2>3
      <3> QED
        BY <1>1, <3>1
    <2> QED
      BY <2>2, <2>3
  <1>3. CASE owner' = owner
    BY <1>1, <1>3
  <1> QED
    BY <1>2, <1>3, ContextFrame DEF contextVars, Prune, ChromeDies, Dispose, ForgetContext

\* Whatever is launched, evicted, dropped or dies meanwhile, a render drives a
\* tab of a Chrome that was launched for its own proxy.
THEOREM RendersStayOnProxy == Spec => []OwnProxy
  <1>1. Init => ProxyInv
    BY InitProxy
  <1>2. Types /\ ProxyInv /\ [Next]_vars => ProxyInv'
    BY NextRegisteredOwn, NextHeldOwn, NextCreatedOwn DEF ProxyInv
  <1>3. IInv => Types
    BY DEF IInv
  <1>4. ASSUME IInv, ProxyInv
        PROVE  OwnProxy
    <2> SUFFICES ASSUME NEW t \in Tasks, at[t] \in HasPage
                 PROVE  LaunchedFor(owner[page[t].ctx].inst, B(t))
      BY <1>4 DEF OwnProxy, ProxyInv, HeldOwn
    <2>1. OwnedBy(page[t].ctx, key[t])
      BY <1>4 DEF IInv, TabsOwned
    <2> QED
      BY <1>4, <2>1 DEF OwnedBy, ProxyInv, CreatedOwn, B
  <1> QED
    BY <1>1, <1>2, <1>3, <1>4, Inductive, PTL DEF Spec

(* The lease of tabs. *)

TabsInv == Types /\ TabsKnown /\ PageHeldOnce /\ IdleReusable

\* The abstract state.
tabs == [p \in 1 .. pages |-> TabOf(p)]

LEMMA Fields ==
    /\ \A t, k, n : LET r == Tabs!Lent(t, k, n)
                    IN  r.place = "lent" /\ r.to = t /\ r.key = k /\ r.uses = n
    /\ \A k, n : LET r == Tabs!Idle(k, n) IN r.place = "idle" /\ r.key = k /\ r.uses = n
    /\ Tabs!Closed.place = "closed"
  <1>1. \A t, k, n : LET r == Tabs!Lent(t, k, n)
                    IN  r.place = "lent" /\ r.to = t /\ r.key = k /\ r.uses = n
    BY SMT DEF Tabs!Lent
  <1>2. \A k, n : LET r == Tabs!Idle(k, n) IN r.place = "idle" /\ r.key = k /\ r.uses = n
    BY SMT DEF Tabs!Idle
  <1>3. Tabs!Closed.place = "closed"
    BY SMT DEF Tabs!Closed
  <1> QED
    BY <1>1, <1>2, <1>3

\* The mapping, read from the side of the renders and of the queues.
TabsRead ==
    /\ DOMAIN tabs = 1 .. pages
    /\ \A t \in Tasks : at[t] \in HasPage =>
         /\ page[t].id \in 1 .. pages
         /\ tabs[page[t].id] = Tabs!Lent(t, key[t], page[t].uses)
    /\ \A k \in Keys : \A n \in 1 .. Len(idle[k]) :
         /\ idle[k][n].id \in 1 .. pages
         /\ tabs[idle[k][n].id] = Tabs!Idle(k, idle[k][n].uses)
    /\ \A p \in 1 .. pages : \/ \E t \in Tasks : at[t] \in HasPage /\ page[t].id = p
                             \/ \E k \in Keys : \E n \in 1 .. Len(idle[k]) : idle[k][n].id = p
                             \/ tabs[p] = Tabs!Closed

LEMMA TabsAreRead == TabsInv => TabsRead
  <1> SUFFICES ASSUME TabsInv
               PROVE  TabsRead
    BY ZenonT(60)
  <1>1. ASSUME NEW t \in Tasks, at[t] \in HasPage
        PROVE  TabOf(page[t].id) = LentTo(t)
    <2>1. Drives(t, page[t].id) /\ \A u \in Tasks : Drives(u, page[t].id) => u = t
      BY <1>1 DEF TabsInv, PageHeldOnce, Drives
    <2>2. t = CHOOSE u \in Tasks : Drives(u, page[t].id)
      BY <2>1
    <2> QED
      BY <2>1, <2>2 DEF TabOf
  <1>2. ASSUME NEW k \in Keys, NEW n \in 1 .. Len(idle[k])
        PROVE  TabOf(idle[k][n].id) = IdleAt(k, n)
    <2> DEFINE p == idle[k][n].id
    <2>1. \A t \in Tasks : ~Drives(t, p)
      BY DEF TabsInv, PageHeldOnce, Drives
    <2>2. \A l \in Keys : \A m \in 1 .. Len(idle[l]) : idle[l][m].id = p => <<l, m>> = <<k, n>>
      BY DEF TabsInv, PageHeldOnce
    <2> HIDE DEF p
    <2>3. Queued(k, p) /\ \A l \in Keys : Queued(l, p) => l = k
      <3>1. Queued(k, p)
        BY DEF Queued, p
      <3>2. ASSUME NEW l \in Keys, Queued(l, p)
            PROVE  l = k
        BY <2>2, <3>2 DEF Queued
      <3> QED
        BY <3>1, <3>2
    <2>4. k = CHOOSE l \in Keys : Queued(l, p)
      BY <2>3
    <2>5. /\ n \in 1 .. Len(idle[k]) /\ idle[k][n].id = p
          /\ \A m \in 1 .. Len(idle[k]) : idle[k][m].id = p => m = n
      BY <2>2 DEF p
    <2>6. n = CHOOSE m \in 1 .. Len(idle[k]) : idle[k][m].id = p
      BY <2>5
    <2>7. TabOf(p) = IdleAt(k, n)
      BY <2>1, <2>3, <2>4, <2>6 DEF TabOf
    <2> QED
      BY <2>7 DEF p
  <1>3. ASSUME NEW p, ~ \E t \in Tasks : at[t] \in HasPage /\ page[t].id = p,
               ~ \E k \in Keys : \E n \in 1 .. Len(idle[k]) : idle[k][n].id = p
        PROVE  TabOf(p) = Gone
    BY <1>3 DEF TabOf, Drives, Queued
  <1>4. /\ \A t \in Tasks : at[t] \in HasPage => page[t].id \in 1 .. pages
        /\ \A k \in Keys : \A n \in 1 .. Len(idle[k]) : idle[k][n].id \in 1 .. pages
    BY DEF TabsInv, TabsKnown
  <1>5. DOMAIN tabs = 1 .. pages /\ \A p \in 1 .. pages : tabs[p] = TabOf(p)
    BY DEF tabs
  <1>6. ASSUME NEW t \in Tasks, at[t] \in HasPage
        PROVE  tabs[page[t].id] = Tabs!Lent(t, key[t], page[t].uses)
    BY <1>1, <1>4, <1>5, <1>6 DEF LentTo, Tabs!Lent
  <1>7. ASSUME NEW k \in Keys, NEW n \in 1 .. Len(idle[k])
        PROVE  tabs[idle[k][n].id] = Tabs!Idle(k, idle[k][n].uses)
    <2>1. tabs[idle[k][n].id] = IdleAt(k, n)
      BY <1>2, <1>4, <1>5
    <2> QED
      BY <2>1 DEF IdleAt, Tabs!Idle
  <1>8. Gone = Tabs!Closed
    BY DEF Gone, Tabs!Closed
  <1> QED
    BY <1>3, <1>4, <1>5, <1>6, <1>7, <1>8 DEF TabsRead

LEMMA TabsAreReadNext == TabsInv' => TabsRead'
  BY TabsAreRead, PTL

\* What a tab of the abstract state can be.
LEMMA TabCases ==
    ASSUME TabsInv, NEW p \in 1 .. pages
    PROVE  /\ tabs[p].place = "lent" =>
                \E t \in Tasks : /\ at[t] \in HasPage /\ page[t].id = p
                                 /\ tabs[p] = Tabs!Lent(t, key[t], page[t].uses)
           /\ tabs[p].place = "idle" =>
                \E k \in Keys : \E n \in 1 .. Len(idle[k]) :
                    idle[k][n].id = p /\ tabs[p] = Tabs!Idle(k, idle[k][n].uses)
  <1>1. TabsRead
    BY TabsAreRead
  <1>2. \A t \in Tasks : at[t] \in HasPage /\ page[t].id = p =>
          tabs[p] = Tabs!Lent(t, key[t], page[t].uses) /\ tabs[p].place = "lent"
    BY <1>1, Fields DEF TabsRead
  <1>3. \A k \in Keys : \A n \in 1 .. Len(idle[k]) : idle[k][n].id = p =>
          tabs[p] = Tabs!Idle(k, idle[k][n].uses) /\ tabs[p].place = "idle"
    BY <1>1, Fields DEF TabsRead
  <1>4. \/ \E t \in Tasks : at[t] \in HasPage /\ page[t].id = p
        \/ \E k \in Keys : \E n \in 1 .. Len(idle[k]) : idle[k][n].id = p
        \/ tabs[p].place = "closed"
    BY <1>1, Fields DEF TabsRead
  <1> QED
    BY <1>2, <1>3, <1>4

\* The idle tabs of a key are those of its queue.
LEMMA IdleRead ==
    ASSUME TabsInv, NEW k \in Keys
    PROVE  Tabs!IdleOf(k) = {idle[k][n].id : n \in 1 .. Len(idle[k])}
  <1> DEFINE S == {idle[k][n].id : n \in 1 .. Len(idle[k])}
  <1>1. TabsRead
    BY TabsAreRead
  <1>2. ASSUME NEW p \in 1 .. pages, tabs[p].place = "idle", tabs[p].key = k
        PROVE  p \in S
    <2>1. PICK l \in Keys : \E n \in 1 .. Len(idle[l]) :
            idle[l][n].id = p /\ tabs[p] = Tabs!Idle(l, idle[l][n].uses)
      BY <1>2, TabCases
    <2>2. l = k
      BY <1>2, <2>1, Fields
    <2> QED
      BY <2>1, <2>2
  <1>3. ASSUME NEW n \in 1 .. Len(idle[k])
        PROVE  /\ idle[k][n].id \in 1 .. pages
               /\ tabs[idle[k][n].id].place = "idle" /\ tabs[idle[k][n].id].key = k
    BY <1>1, Fields DEF TabsRead
  <1>4. Tabs!IdleOf(k) = {p \in 1 .. pages : tabs[p].place = "idle" /\ tabs[p].key = k}
    BY DEF Tabs!IdleOf, tabs
  <1> QED
    BY <1>2, <1>3, <1>4

LEMMA IdleCounted ==
    ASSUME TabsInv, NEW k \in Keys
    PROVE  Cardinality(Tabs!IdleOf(k)) \in Nat /\ Cardinality(Tabs!IdleOf(k)) <= Len(idle[k])
  <1> DEFINE m == Len(idle[k])
             S == {idle[k][n].id : n \in 1 .. m}
             f == [n \in 1 .. m |-> idle[k][n].id]
  <1>1. m \in Nat
    BY DEF TabsInv, Types, PoolTypeOK
  <1>2. f \in Surjection(1 .. m, S)
    BY DEF Surjection
  <1>3. Tabs!IdleOf(k) = S
    BY IdleRead
  <1> HIDE DEF m, S, f
  <1>4. IsFiniteSet(1 .. m) /\ Cardinality(1 .. m) = m
    BY <1>1, FS_Interval
  <1>5. IsFiniteSet(S) /\ Cardinality(S) <= m
    BY <1>2, <1>4, FS_Surjection
  <1> QED
    BY <1>3, <1>5, FS_CardinalityType DEF m

LEMMA InitTabLease == Init => Tabs!Init
  <1> SUFFICES ASSUME Init
               PROVE  [p \in 1 .. pages |-> TabOf(p)] = <<>>
    BY DEF Tabs!Init
  <1>1. 1 .. pages = {}
    BY DEF Init
  <1>2. [p \in 1 .. pages |-> TabOf(p)] = [p \in {} |-> TabOf(p)]
    BY <1>1
  <1> QED
    BY <1>2, SMT

\* A queue that is emptied closes its tabs.
LEMMA CloseRefines ==
    ASSUME TabsInv, TabsInv', OnlyCloses
    PROVE  \E C \in SUBSET Tabs!IdleTabs : Tabs!Close(C)
  <1> DEFINE C == {p \in 1 .. pages : \E k \in Keys : \E n \in 1 .. Len(idle[k]) :
                                        idle[k][n].id = p /\ idle'[k] # idle[k]}
  <1>1. TabsRead /\ TabsRead'
    BY TabsAreRead, TabsAreReadNext
  <1>2. pages' = pages
    BY DEF OnlyCloses
  <1>3. C \in SUBSET Tabs!IdleTabs
    <2>1. ASSUME NEW p \in C
          PROVE  \E k \in Keys : p \in Tabs!IdleOf(k)
      <3>1. PICK k \in Keys : p \in {idle[k][n].id : n \in 1 .. Len(idle[k])}
        OBVIOUS
      <3> QED
        BY <3>1, IdleRead
    <2> QED
      BY <2>1 DEF Tabs!IdleTabs
  <1>4. ASSUME NEW p \in 1 .. pages
        PROVE  tabs'[p] = IF p \in C THEN Tabs!Closed ELSE tabs[p]
    <2>1. ASSUME NEW t \in Tasks, at[t] \in HasPage, page[t].id = p
          PROVE  tabs'[p] = tabs[p] /\ p \notin C
      <3>1. at'[t] \in HasPage /\ page'[t] = page[t] /\ key'[t] = key[t]
        BY <2>1 DEF OnlyCloses
      <3>2. tabs[p] = Tabs!Lent(t, key[t], page[t].uses)
        BY <1>1, <2>1 DEF TabsRead
      <3>3. tabs'[p] = Tabs!Lent(t, key'[t], page'[t].uses)
        BY <1>1, <2>1, <3>1 DEF TabsRead
      <3>4. p \notin C
        BY <2>1 DEF TabsInv, PageHeldOnce
      <3> QED
        BY <3>1, <3>2, <3>3, <3>4
    <2>2. ASSUME NEW k \in Keys, NEW n \in 1 .. Len(idle[k]), idle[k][n].id = p,
                 idle'[k] = idle[k]
          PROVE  tabs'[p] = tabs[p] /\ p \notin C
      <3>1. tabs[p] = Tabs!Idle(k, idle[k][n].uses)
        BY <1>1, <2>2 DEF TabsRead
      <3>2. tabs'[p] = Tabs!Idle(k, idle'[k][n].uses)
        BY <1>1, <2>2 DEF TabsRead
      <3>3. p \notin C
        BY <2>2 DEF TabsInv, PageHeldOnce
      <3> QED
        BY <2>2, <3>1, <3>2, <3>3
    <2>3. ASSUME NEW k \in Keys, NEW n \in 1 .. Len(idle[k]), idle[k][n].id = p,
                 idle'[k] # idle[k]
          PROVE  tabs'[p] = Tabs!Closed /\ p \in C
      <3>1. \A t \in Tasks : ~ (at'[t] \in HasPage /\ page'[t].id = p)
        BY <2>3 DEF OnlyCloses, TabsInv, PageHeldOnce
      <3>2. \A l \in Keys : \A m \in 1 .. Len(idle'[l]) : idle'[l][m].id # p
        <4>1. SUFFICES ASSUME NEW l \in Keys, NEW m \in 1 .. Len(idle'[l]), idle'[l][m].id = p
                       PROVE  FALSE
          OBVIOUS
        <4>2. idle'[l] = idle[l]
          BY <4>1 DEF OnlyCloses
        <4>3. l # k
          BY <2>3, <4>2
        <4> QED
          BY <2>3, <4>1, <4>2, <4>3 DEF TabsInv, PageHeldOnce
      <3>3. tabs'[p] = Tabs!Closed
        BY <1>1, <1>2, <3>1, <3>2 DEF TabsRead
      <3> QED
        BY <2>3, <3>3
    <2>4. ASSUME \A t \in Tasks : ~ (at[t] \in HasPage /\ page[t].id = p),
                 \A k \in Keys : \A n \in 1 .. Len(idle[k]) : idle[k][n].id # p
          PROVE  tabs'[p] = tabs[p] /\ p \notin C
      <3>1. \A t \in Tasks : ~ (at'[t] \in HasPage /\ page'[t].id = p)
        BY <2>4 DEF OnlyCloses
      <3>2. \A l \in Keys : \A m \in 1 .. Len(idle'[l]) : idle'[l][m].id # p
        <4>1. SUFFICES ASSUME NEW l \in Keys, NEW m \in 1 .. Len(idle'[l])
                       PROVE  idle'[l][m].id # p
          OBVIOUS
        <4>2. idle'[l] = idle[l]
          BY <4>1 DEF OnlyCloses
        <4> QED
          BY <2>4, <4>2
      <3>3. tabs'[p] = Tabs!Closed /\ tabs[p] = Tabs!Closed
        BY <1>1, <1>2, <2>4, <3>1, <3>2 DEF TabsRead
      <3> QED
        BY <2>4, <3>3
    <2> QED
      BY <2>1, <2>2, <2>3, <2>4
  <1> HIDE DEF C
  <1>5. [p \in 1 .. pages' |-> TabOf(p)']
          = [p \in 1 .. pages |-> IF p \in C THEN Tabs!Closed
                                  ELSE [q \in 1 .. pages |-> TabOf(q)][p]]
    BY <1>2, <1>4 DEF tabs
  <1>6. Tabs!Close(C)
    BY <1>5 DEF Tabs!Close, Tabs!AfterClosing
  <1> QED
    BY <1>3, <1>6

\* A render that lets its tab go closes that tab and no other.
LEMMA DropRefines ==
    ASSUME TabsInv, TabsInv', NEW t \in Tasks, UNCHANGED pages,
           at[t] \in HasPage, at'[t] \notin HasPage,
           \A u \in Tasks \ {t} : at'[u] = at[u] /\ page'[u] = page[u] /\ key'[u] = key[u],
           idle' = idle
    PROVE  page[t].id \in 1 .. pages /\ Tabs!Drop(page[t].id)
  <1> DEFINE q == page[t].id
  <1>1. TabsRead /\ TabsRead'
    BY TabsAreRead, TabsAreReadNext
  <1>2. q \in 1 .. pages /\ tabs[q].place = "lent"
    BY <1>1, Fields DEF TabsRead
  <1>3. ASSUME NEW p \in 1 .. pages
        PROVE  tabs'[p] = IF p \in {q} THEN Tabs!Closed ELSE tabs[p]
    <2>1. ASSUME NEW u \in Tasks \ {t}, at[u] \in HasPage, page[u].id = p
          PROVE  tabs'[p] = tabs[p] /\ p # q
      <3>1. tabs[p] = Tabs!Lent(u, key[u], page[u].uses)
        BY <1>1, <2>1 DEF TabsRead
      <3>2. tabs'[p] = Tabs!Lent(u, key'[u], page'[u].uses)
        BY <1>1, <2>1 DEF TabsRead
      <3>3. p # q
        BY <2>1 DEF TabsInv, PageHeldOnce
      <3> QED
        BY <3>1, <3>2, <3>3
    <2>2. ASSUME NEW k \in Keys, NEW n \in 1 .. Len(idle[k]), idle[k][n].id = p
          PROVE  tabs'[p] = tabs[p] /\ p # q
      <3>1. tabs[p] = Tabs!Idle(k, idle[k][n].uses) /\ tabs'[p] = Tabs!Idle(k, idle[k][n].uses)
        BY <1>1, <2>2 DEF TabsRead
      <3>2. p # q
        BY <2>2 DEF TabsInv, PageHeldOnce
      <3> QED
        BY <3>1, <3>2
    <2>3. ASSUME \A u \in Tasks \ {t} : ~ (at[u] \in HasPage /\ page[u].id = p),
                 \A k \in Keys : \A n \in 1 .. Len(idle[k]) : idle[k][n].id # p
          PROVE  tabs'[p] = Tabs!Closed /\ (p # q => tabs[p] = Tabs!Closed)
      <3>1. \A u \in Tasks : ~ (at'[u] \in HasPage /\ page'[u].id = p)
        BY <2>3
      <3>2. tabs'[p] = Tabs!Closed
        BY <1>1, <2>3, <3>1 DEF TabsRead
      <3>3. p # q => \A u \in Tasks : ~ (at[u] \in HasPage /\ page[u].id = p)
        BY <2>3
      <3>4. p # q => tabs[p] = Tabs!Closed
        BY <1>1, <2>3, <3>3 DEF TabsRead
      <3> QED
        BY <3>2, <3>4
    <2> QED
      BY <2>1, <2>2, <2>3
  <1> HIDE DEF q
  <1>4. [p \in 1 .. pages' |-> TabOf(p)']
          = [p \in 1 .. pages |-> IF p \in {q} THEN Tabs!Closed
                                  ELSE [r \in 1 .. pages |-> TabOf(r)][p]]
    BY <1>3 DEF tabs
  <1>5. Tabs!Drop(q)
    BY <1>2, <1>4 DEF Tabs!Drop, Tabs!AfterClosing, tabs
  <1> QED
    BY <1>2, <1>5 DEF q

\* A render without a tab may be given one.
LEMMA HasNoTab ==
    ASSUME TabsInv, NEW t \in Tasks, at[t] \notin HasPage
    PROVE  Tabs!HasNone(t)
  <1>1. ASSUME NEW p \in 1 .. pages, tabs[p].place = "lent"
        PROVE  tabs[p].to # t
    <2>1. PICK u \in Tasks : at[u] \in HasPage /\ tabs[p] = Tabs!Lent(u, key[u], page[u].uses)
      BY <1>1, TabCases
    <2>2. tabs[p].to = u
      BY <2>1, Fields
    <2> QED
      BY <2>1, <2>2
  <1> QED
    BY <1>1 DEF Tabs!HasNone, tabs

LEMMA OpenRefines ==
    ASSUME TabsInv, TabsInv', NEW t \in Tasks, Open(t)
    PROVE  key[t] \in Keys /\ Tabs!Open(t, key[t])
  <1> DEFINE new == Tabs!Lent(t, key[t], 1)
  <1>0. /\ pages \in Nat /\ page \in [Tasks -> Page] /\ at \in [Tasks -> Steps]
        /\ at[t] \notin HasPage /\ key[t] \in Keys
    BY TaskReads DEF Open, HasPage, TabsInv, Types, CountTypes, TaskTypes
  <1>1. TabsRead /\ TabsRead'
    BY TabsAreRead, TabsAreReadNext
  <1>2. /\ pages' = pages + 1 /\ idle' = idle /\ key' = key
        /\ page'[t].id = pages' /\ page'[t].uses = 1 /\ at'[t] \in HasPage
        /\ \A u \in Tasks \ {t} : at'[u] = at[u] /\ page'[u] = page[u]
    BY <1>0 DEF Open, CountersFor, Go, Set, HasPage
  <1>3. tabs'[pages + 1] = new
    BY <1>1, <1>2 DEF TabsRead
  <1>4. ASSUME NEW p \in 1 .. pages
        PROVE  tabs'[p] = tabs[p]
    <2>0. p \in 1 .. pages' /\ p # page'[t].id
      BY <1>0, <1>2
    <2>1. ASSUME NEW u \in Tasks, at[u] \in HasPage, page[u].id = p
          PROVE  tabs'[p] = tabs[p]
      <3>1. tabs[p] = Tabs!Lent(u, key[u], page[u].uses)
        BY <1>1, <2>1 DEF TabsRead
      <3>2. at'[u] \in HasPage /\ page'[u] = page[u]
        BY <1>0, <1>2, <2>1
      <3>3. tabs'[p] = Tabs!Lent(u, key'[u], page'[u].uses)
        BY <1>1, <2>1, <3>2 DEF TabsRead
      <3> QED
        BY <1>2, <3>1, <3>2, <3>3
    <2>2. ASSUME NEW k \in Keys, NEW n \in 1 .. Len(idle[k]), idle[k][n].id = p
          PROVE  tabs'[p] = tabs[p]
      BY <1>1, <1>2, <2>2 DEF TabsRead
    <2>3. ASSUME \A u \in Tasks : ~ (at[u] \in HasPage /\ page[u].id = p),
                 \A k \in Keys : \A n \in 1 .. Len(idle[k]) : idle[k][n].id # p
          PROVE  tabs'[p] = tabs[p]
      <3>1. \A u \in Tasks : ~ (at'[u] \in HasPage /\ page'[u].id = p)
        BY <1>2, <2>0, <2>3
      <3>2. tabs'[p] = Tabs!Closed /\ tabs[p] = Tabs!Closed
        BY <1>1, <1>2, <2>0, <2>3, <3>1 DEF TabsRead
      <3> QED
        BY <3>2
    <2> QED
      BY <2>1, <2>2, <2>3
  <1> DEFINE S == {tabs[p] : p \in 1 .. pages} \cup {new}
  <1> HIDE DEF new
  <1>5. tabs \in Seq(S) /\ Len(tabs) = pages
    <2>1. tabs \in [1 .. pages -> S]
      BY <1>1 DEF tabs
    <2> HIDE DEF S
    <2> QED
      BY <1>0, <2>1
  <1>6. tabs' = Append(tabs, new)
    <2>1. /\ Append(tabs, new) \in Seq(S) /\ Len(Append(tabs, new)) = pages + 1
          /\ \A i \in 1 .. pages : Append(tabs, new)[i] = tabs[i]
          /\ Append(tabs, new)[pages + 1] = new
      BY <1>5, AppendProperties
    <2>2. \A i \in 1 .. pages + 1 : i \in 1 .. pages \/ i = pages + 1
      BY <1>0
    <2>3. \A i \in 1 .. pages + 1 : tabs'[i] = Append(tabs, new)[i] /\ tabs'[i] \in S
      BY <1>3, <1>4, <2>1, <2>2
    <2>4. tabs' \in [1 .. pages + 1 -> S]
      BY <1>2, <2>3 DEF tabs
    <2> HIDE DEF S
    <2>5. tabs' \in Seq(S) /\ Len(tabs') = pages + 1
      BY <1>0, <2>4
    <2> QED
      BY <2>1, <2>3, <2>5, SeqEqual
  <1>7. Tabs!HasNone(t)
    BY <1>0, HasNoTab
  <1>8. Tabs!Open(t, key[t])
    BY <1>6, <1>7 DEF Tabs!Open, new, tabs
  <1> QED
    BY <1>0, <1>8

LEMMA SameCardinality == \A S : Tabs!Cardinality(S) = Cardinality(S)
  BY Zenon DEF Tabs!Cardinality, Cardinality

\* A tab that is given back waits in the queue of its key, if that has room.
LEMMA StashRefines ==
    ASSUME TabsInv, TabsInv', NEW t \in Tasks, StashPage(t)
    PROVE  page[t].id \in 1 .. pages /\ (Tabs!Return(page[t].id) \/ Tabs!Drop(page[t].id))
  <1> DEFINE q == page[t].id
             k == key[t]
  <1>0. /\ page \in [Tasks -> Page] /\ at \in [Tasks -> Steps] /\ k \in Keys
        /\ idle \in [Keys -> Seq(Page)] /\ MaxPages \in Nat /\ MaxUses \in Nat
    BY TaskReads, PoolAssumption DEF StashPage, TabsInv, Types, PoolTypeOK, TaskTypes
  <1>1. TabsRead /\ TabsRead'
    BY TabsAreRead, TabsAreReadNext
  <1>2. /\ pages' = pages /\ at[t] \in HasPage /\ at'[t] \notin HasPage /\ at[t] = "stash"
        /\ \A u \in Tasks \ {t} : at'[u] = at[u] /\ page'[u] = page[u] /\ key'[u] = key[u]
    BY <1>0 DEF StashPage, Finish, Go, Set, HasPage, countVars, TabsInv, Types, TaskTypes
  <1>3. CASE Len(idle[k]) < MaxPages
    <2>1. /\ Len(idle'[k]) = Len(idle[k]) + 1 /\ Len(idle[k]) \in Nat
          /\ idle'[k][Len(idle[k]) + 1] = page[t]
          /\ \A i \in 1 .. Len(idle[k]) : idle'[k][i] = idle[k][i]
          /\ \A l \in Keys : l # k => idle'[l] = idle[l]
      <3>1. /\ idle'[k] = Append(idle[k], page[t]) /\ idle[k] \in Seq(Page) /\ page[t] \in Page
            /\ \A l \in Keys : l # k => idle'[l] = idle[l]
        BY <1>0, <1>3 DEF StashPage, Stash
      <3> QED
        BY <3>1
    <2>2. \A l \in Keys : \A i \in 1 .. Len(idle[l]) :
            i \in 1 .. Len(idle'[l]) /\ idle'[l][i] = idle[l][i]
      BY <2>1
    <2>3. \A l \in Keys : \A i \in 1 .. Len(idle'[l]) :
            \/ i \in 1 .. Len(idle[l]) /\ idle'[l][i] = idle[l][i]
            \/ l = k /\ i = Len(idle[k]) + 1
      BY <2>1
    <2>4. tabs[q] = Tabs!Lent(t, k, page[t].uses) /\ q \in 1 .. pages
      BY <1>1, <1>2 DEF TabsRead
    <2>5. tabs[q].place = "lent" /\ tabs[q].key = k /\ tabs[q].uses = page[t].uses
      BY <2>4, Fields
    <2>6. tabs'[q] = Tabs!Idle(k, page[t].uses)
      <3>1. Len(idle[k]) + 1 \in 1 .. Len(idle'[k])
        BY <2>1
      <3> QED
        BY <1>0, <1>1, <2>1, <3>1 DEF TabsRead
    <2>7. ASSUME NEW p \in 1 .. pages, p # q
          PROVE  tabs'[p] = tabs[p]
      <3>1. ASSUME NEW u \in Tasks, at[u] \in HasPage, page[u].id = p
            PROVE  tabs'[p] = tabs[p]
        <4>1. u \in Tasks \ {t}
          BY <2>7, <3>1
        <4>2. tabs[p] = Tabs!Lent(u, key[u], page[u].uses)
          BY <1>1, <3>1 DEF TabsRead
        <4>3. tabs'[p] = Tabs!Lent(u, key'[u], page'[u].uses)
          BY <1>1, <1>2, <3>1, <4>1 DEF TabsRead
        <4> QED
          BY <1>2, <4>1, <4>2, <4>3
      <3>2. ASSUME NEW l \in Keys, NEW n \in 1 .. Len(idle[l]), idle[l][n].id = p
            PROVE  tabs'[p] = tabs[p]
        <4>1. tabs[p] = Tabs!Idle(l, idle[l][n].uses)
          BY <1>1, <3>2 DEF TabsRead
        <4>2. n \in 1 .. Len(idle'[l]) /\ idle'[l][n] = idle[l][n]
          BY <2>2
        <4>3. tabs'[p] = Tabs!Idle(l, idle'[l][n].uses)
          BY <1>1, <3>2, <4>2 DEF TabsRead
        <4> QED
          BY <4>1, <4>2, <4>3
      <3>3. ASSUME \A u \in Tasks : ~ (at[u] \in HasPage /\ page[u].id = p),
                   \A l \in Keys : \A n \in 1 .. Len(idle[l]) : idle[l][n].id # p
            PROVE  tabs'[p] = tabs[p]
        <4>1. \A u \in Tasks : ~ (at'[u] \in HasPage /\ page'[u].id = p)
          BY <1>2, <3>3
        <4>2. \A l \in Keys : \A n \in 1 .. Len(idle'[l]) : idle'[l][n].id # p
          BY <2>1, <2>3, <2>7, <3>3, SMTT(40)
        <4>3. tabs'[p] = Tabs!Closed /\ tabs[p] = Tabs!Closed
          BY <1>1, <1>2, <3>3, <4>1, <4>2 DEF TabsRead
        <4> QED
          BY <4>3
      <3> QED
        BY <3>1, <3>2, <3>3
    <2>8. Cardinality(Tabs!IdleOf(k)) < MaxPages
      <3>1. Cardinality(Tabs!IdleOf(k)) \in Nat /\ Cardinality(Tabs!IdleOf(k)) <= Len(idle[k])
        BY <1>0, IdleCounted
      <3> QED
        BY <1>0, <1>3, <2>1, <3>1
    <2>9. page[t].uses < MaxUses
      <3>1. page[t] \in Page /\ ~WornOut(page[t])
        BY <1>0, <1>2 DEF TabsInv, TabsKnown
      <3> QED
        BY <1>0, <3>1 DEF Page, WornOut
    <2>10. tabs' = [tabs EXCEPT ![q] = Tabs!Idle(k, page[t].uses)]
      BY <1>2, <2>4, <2>6, <2>7 DEF tabs
    <2>11. tabs' = [tabs EXCEPT ![q] = Tabs!Idle(tabs[q].key, tabs[q].uses)]
      BY <2>5, <2>10
    <2>12. Cardinality(Tabs!IdleOf(tabs[q].key)) < MaxPages /\ tabs[q].uses < MaxUses
      BY <2>5, <2>8, <2>9
    <2> HIDE DEF q, k
    <2>13. Tabs!Return(q)
      BY <2>5, <2>11, <2>12, SameCardinality DEF Tabs!Return, tabs
    <2> QED
      BY <2>4, <2>13 DEF q
  <1>4. CASE ~ (Len(idle[k]) < MaxPages)
    <2>1. idle' = idle
      BY <1>0, <1>4 DEF StashPage, Stash
    <2>2. page[t].id \in 1 .. pages /\ Tabs!Drop(page[t].id)
      BY <1>2, <2>1, DropRefines
    <2> QED
      BY <2>2
  <1> QED
    BY <1>3, <1>4

\* The tab that is lent was idle for the same key, and those ahead of it go.
LEMMA TakeRefines ==
    ASSUME TabsInv, TabsInv', NEW t \in Tasks, NEW n \in 1 .. MaxPages, TakeIdle(t, n)
    PROVE  \E p \in 1 .. pages : Tabs!Lend(t, p)
  <1> DEFINE k == key[t]
             q == idle[k][n].id
             C == {idle[k][i].id : i \in 1 .. (n - 1)}
  <1>0. /\ page \in [Tasks -> Page] /\ at \in [Tasks -> Steps] /\ k \in Keys
        /\ idle \in [Keys -> Seq(Page)] /\ MaxPages \in Nat /\ MaxUses \in Nat
        /\ n \in Nat /\ n \in 1 .. Len(idle[k]) /\ Len(idle[k]) \in Nat /\ ~WornOut(idle[k][n])
    <2>1. k \in Keys /\ n \in 1 .. Len(idle[k]) /\ ~WornOut(idle[k][n])
      <3>1. Types
        BY DEF TabsInv
      <3>2. k \in Keys
        BY <3>1, TaskReads DEF TakeIdle
      <3> QED
        BY <3>1, <3>2, AfterTake
    <2>2. /\ page \in [Tasks -> Page] /\ at \in [Tasks -> Steps]
          /\ idle \in [Keys -> Seq(Page)] /\ MaxPages \in Nat /\ MaxUses \in Nat
      BY PoolAssumption DEF TabsInv, Types, PoolTypeOK, TaskTypes
    <2> QED
      BY <2>1, <2>2
  <1>a. Types
    BY DEF TabsInv
  <1>1. TabsRead /\ TabsRead'
    BY TabsAreRead, TabsAreReadNext
  <1>2. /\ pages' = pages /\ key' = key /\ at[t] \notin HasPage /\ at'[t] \in HasPage
        /\ page'[t].id = q /\ page'[t].uses = idle[k][n].uses + 1
        /\ \A u \in Tasks \ {t} : at'[u] = at[u] /\ page'[u] = page[u]
    <2>1. idle[k][n] \in Page
      BY <1>0
    <2>2. page'[t] = Lent(idle[k][n])
      BY <1>0 DEF TakeIdle, Set
    <2>3. page'[t].id = q /\ page'[t].uses = idle[k][n].uses + 1
      BY <2>1, <2>2 DEF Lent, Page
    <2> QED
      BY <1>0, <2>3 DEF TakeIdle, Go, Set, HasPage, countVars
  <1>3. \A l \in Keys : l # k => idle'[l] = idle[l]
    BY <1>a, AfterTake, ZenonT(60)
  <1>4. \A i \in 1 .. Len(idle'[k]) :
          n + i \in 1 .. Len(idle[k]) /\ n + i > n /\ idle'[k][i] = idle[k][n + i]
    <2>1. \A i \in 1 .. Len(idle'[k]) : n + i \in 1 .. Len(idle[k]) /\ idle'[k][i] = idle[k][n + i]
      BY <1>0, <1>a, AfterTake, ZenonT(60)
    <2> QED
      BY <1>0, <2>1
  <1>5. \A j \in 1 .. Len(idle[k]) : j > n =>
          j - n \in 1 .. Len(idle'[k]) /\ idle'[k][j - n] = idle[k][j]
    <2>1. Len(idle'[k]) = Len(idle[k]) - n
      BY <1>0, <1>a, AfterTake, ZenonT(60)
    <2>2. ASSUME NEW j \in 1 .. Len(idle[k]), j > n
          PROVE  j - n \in 1 .. Len(idle'[k]) /\ n + (j - n) = j
      BY <1>0, <2>1, <2>2
    <2> QED
      BY <1>4, <2>2
  <1>6. /\ q \in 1 .. pages /\ tabs[q] = Tabs!Idle(k, idle[k][n].uses)
        /\ tabs'[q] = Tabs!Lent(t, k, idle[k][n].uses + 1)
    BY <1>0, <1>1, <1>2 DEF TabsRead
  <1>7. tabs[q].place = "idle" /\ tabs[q].key = k /\ tabs[q].uses = idle[k][n].uses
    BY <1>6, Fields
  <1>8. \A i \in 1 .. (n - 1) : i \in 1 .. Len(idle[k]) /\ i # n
    BY <1>0
  <1>9. ASSUME NEW p \in 1 .. pages, p # q
        PROVE  tabs'[p] = IF p \in C THEN Tabs!Closed ELSE tabs[p]
    <2>1. ASSUME NEW u \in Tasks, at[u] \in HasPage, page[u].id = p
          PROVE  tabs'[p] = tabs[p] /\ p \notin C
      <3>1. u \in Tasks \ {t}
        BY <1>2, <2>1
      <3>2. tabs[p] = Tabs!Lent(u, key[u], page[u].uses)
        BY <1>1, <2>1 DEF TabsRead
      <3>3. tabs'[p] = Tabs!Lent(u, key'[u], page'[u].uses)
        BY <1>1, <1>2, <2>1, <3>1 DEF TabsRead
      <3>4. p \notin C
        BY <1>0, <1>8, <2>1 DEF TabsInv, PageHeldOnce
      <3> QED
        BY <1>2, <3>1, <3>2, <3>3, <3>4
    <2>2. ASSUME NEW l \in Keys, NEW i \in 1 .. Len(idle[l]), idle[l][i].id = p,
                 NEW j \in 1 .. Len(idle'[l]), idle'[l][j] = idle[l][i],
                 l = k => i > n
          PROVE  tabs'[p] = tabs[p] /\ p \notin C
      <3>1. tabs[p] = Tabs!Idle(l, idle[l][i].uses) /\ tabs'[p] = Tabs!Idle(l, idle'[l][j].uses)
        BY <1>1, <2>2 DEF TabsRead
      <3>2. ASSUME NEW m \in 1 .. (n - 1), idle[k][m].id = p
            PROVE  FALSE
        <4>1. m \in 1 .. Len(idle[k]) /\ m < n
          BY <1>0
        <4>2. <<l, i>> = <<k, m>>
          BY <1>0, <2>2, <3>2, <4>1 DEF TabsInv, PageHeldOnce
        <4> QED
          BY <1>0, <2>2, <4>1, <4>2
      <3> QED
        BY <2>2, <3>1, <3>2
    <2>3. ASSUME NEW i \in 1 .. (n - 1), idle[k][i].id = p
          PROVE  tabs'[p] = Tabs!Closed /\ p \in C
      <3>0. i \in 1 .. Len(idle[k]) /\ i < n
        BY <1>0
      <3>1. \A u \in Tasks : ~ (at'[u] \in HasPage /\ page'[u].id = p)
        BY <1>0, <1>2, <1>9, <2>3, <3>0 DEF TabsInv, PageHeldOnce
      <3>2. ASSUME NEW l \in Keys, NEW j \in 1 .. Len(idle'[l]), idle'[l][j].id = p
            PROVE  FALSE
        <4>1. CASE l # k
          <5>1. j \in 1 .. Len(idle[l]) /\ idle[l][j].id = p
            BY <1>3, <3>2, <4>1
          <5>2. <<l, j>> = <<k, i>>
            BY <1>0, <2>3, <3>0, <5>1 DEF TabsInv, PageHeldOnce
          <5> QED
            BY <4>1, <5>2
        <4>2. CASE l = k
          <5>1. n + j \in 1 .. Len(idle[k]) /\ n + j > n /\ idle[k][n + j].id = p
            BY <1>4, <3>2, <4>2
          <5>2. <<k, n + j>> = <<k, i>>
            BY <1>0, <2>3, <3>0, <5>1 DEF TabsInv, PageHeldOnce
          <5>3. n + j = i
            BY <5>2
          <5> QED
            BY <1>0, <3>0, <5>1, <5>3
        <4> QED
          BY <4>1, <4>2
      <3>3. tabs'[p] = Tabs!Closed
        BY <1>1, <1>2, <3>1, <3>2 DEF TabsRead
      <3> QED
        BY <2>3, <3>3
    <2>4. ASSUME \A u \in Tasks : ~ (at[u] \in HasPage /\ page[u].id = p),
                 \A l \in Keys : \A i \in 1 .. Len(idle[l]) : idle[l][i].id # p
          PROVE  tabs'[p] = tabs[p] /\ p \notin C
      <3>1. \A u \in Tasks : ~ (at'[u] \in HasPage /\ page'[u].id = p)
        BY <1>2, <1>9, <2>4
      <3>2. \A l \in Keys : \A j \in 1 .. Len(idle'[l]) : idle'[l][j].id # p
        BY <1>0, <1>3, <1>4, <2>4, ZenonT(60)
      <3>3. tabs'[p] = Tabs!Closed /\ tabs[p] = Tabs!Closed
        BY <1>1, <1>2, <2>4, <3>1, <3>2 DEF TabsRead
      <3>4. p \notin C
        BY <1>0, <1>8, <2>4
      <3> QED
        BY <3>3, <3>4
    <2>5. ASSUME NEW l \in Keys, NEW i \in 1 .. Len(idle[l]), idle[l][i].id = p
          PROVE  tabs'[p] = IF p \in C THEN Tabs!Closed ELSE tabs[p]
      <3>1. CASE l # k
        BY <1>3, <2>2, <2>5, <3>1
      <3>2. CASE l = k /\ i > n
        BY <1>5, <2>2, <2>5, <3>2
      <3>3. CASE l = k /\ i = n
        BY <1>9, <2>5, <3>3
      <3>4. CASE l = k /\ i < n
        <4>1. i \in 1 .. (n - 1)
          BY <1>0, <3>4
        <4> QED
          BY <2>3, <2>5, <3>4, <4>1
      <3> QED
        BY <1>0, <3>1, <3>2, <3>3, <3>4
    <2> QED
      BY <2>1, <2>4, <2>5
  <1>10. C \in SUBSET (Tabs!IdleOf(k) \ {q})
    <2>1. Tabs!IdleOf(k) = {idle[k][i].id : i \in 1 .. Len(idle[k])}
      BY <1>0, IdleRead
    <2>2. \A i \in 1 .. (n - 1) : idle[k][i].id # q
      BY <1>0, <1>8 DEF TabsInv, PageHeldOnce
    <2> QED
      BY <1>8, <2>1, <2>2
  <1>11. q \in Tabs!IdleTabs /\ tabs[q].uses < MaxUses
    <2>1. q \in Tabs!IdleOf(k)
      BY <1>0, IdleRead
    <2>2. idle[k][n] \in Page
      BY <1>0
    <2> QED
      BY <1>0, <1>7, <2>1, <2>2, SMTT(40) DEF Tabs!IdleTabs, WornOut, Page
  <1>12. Tabs!HasNone(t)
    BY <1>2, HasNoTab
  <1> HIDE DEF q, k, C
  <1>13. tabs' = [[p \in 1 .. pages |-> IF p \in C THEN Tabs!Closed ELSE tabs[p]]
                   EXCEPT ![q] = Tabs!Lent(t, tabs[q].key, tabs[q].uses + 1)]
    <2>1. tabs'[q] = Tabs!Lent(t, tabs[q].key, tabs[q].uses + 1)
      BY <1>6, <1>7 DEF q
    <2> QED
      BY <1>2, <1>9, <2>1 DEF tabs
  <1>14. Tabs!Lend(t, q)
    BY <1>6, <1>7, <1>10, <1>11, <1>12, <1>13 DEF Tabs!Lend, Tabs!AfterClosing, tabs
  <1> QED
    BY <1>6, <1>14

LEMMA LeaseRefines ==
    ASSUME TabsInv, TabsInv', [Next]_vars
    PROVE  [Tabs!Next]_(Tabs!vars)
  <1>1. DOMAIN [p \in 1 .. pages |-> TabOf(p)] = 1 .. pages
    OBVIOUS
  <1>2. CASE OnlyCloses
    <2>1. PICK C \in SUBSET Tabs!IdleTabs : Tabs!Close(C)
      BY <1>2, CloseRefines
    <2> QED
      BY <2>1 DEF Tabs!Next
  <1>3. ASSUME NEW t \in Tasks, EndsLease(t)
        PROVE  Tabs!Next
    <2>1. page[t].id \in 1 .. pages /\ Tabs!Drop(page[t].id)
      BY <1>3, DropRefines DEF EndsLease
    <2> QED
      BY <1>1, <2>1 DEF Tabs!Next
  <1>4. ASSUME NEW t \in Tasks, Open(t)
        PROVE  Tabs!Next
    <2>1. key[t] \in Keys /\ Tabs!Open(t, key[t])
      BY <1>4, OpenRefines
    <2> QED
      BY <2>1 DEF Tabs!Next
  <1>5. ASSUME NEW t \in Tasks, StashPage(t)
        PROVE  Tabs!Next
    <2>1. page[t].id \in 1 .. pages /\ (Tabs!Return(page[t].id) \/ Tabs!Drop(page[t].id))
      BY <1>5, StashRefines
    <2> QED
      BY <1>1, <2>1 DEF Tabs!Next
  <1>6. ASSUME NEW t \in Tasks, NEW n \in 1 .. MaxPages, TakeIdle(t, n)
        PROVE  Tabs!Next
    <2>1. PICK p \in 1 .. pages : Tabs!Lend(t, p)
      BY <1>6, TakeRefines
    <2> QED
      BY <1>1, <2>1 DEF Tabs!Next
  <1>7. Types
    BY DEF TabsInv
  <1> QED
    BY <1>2, <1>3, <1>4, <1>5, <1>6, <1>7, LeaseSteps

\* Renders, evictions, dropped sessions and Chromes that die implement the
\* lease of tabs: whatever they do between the two locks of the page pool, a
\* tab is lent to one render at a time, only to renders of the key it was opened
\* for, at most max_uses_per_page times, and waits in a queue with room for it.
THEOREM TabsAreLeased == Spec => ImplementsTabLease
  <1>1. Init => Tabs!Init
    BY InitTabLease
  <1>2. IInv => TabsInv
    BY DEF IInv, TabsInv
  <1>3. TabsInv /\ TabsInv' /\ [Next]_vars => [Tabs!Next]_(Tabs!vars)
    BY LeaseRefines
  <1> QED
    BY <1>1, <1>2, <1>3, Inductive, PTL DEF Spec, ImplementsTabLease, Tabs!Spec

\* What a step of the lease does to the tabs there are.
Onward ==
    \A p \in DOMAIN tabs :
      /\ p \in DOMAIN tabs'
      /\ tabs[p].place = "closed" => tabs'[p] = tabs[p]
      /\ tabs'[p].place # "closed" => /\ tabs'[p].key = tabs[p].key
                                      /\ tabs'[p].uses >= tabs[p].uses
      /\ tabs[p].place = "lent" /\ tabs'[p].place = "lent" => tabs'[p] = tabs[p]

\* A tab that is not closed was lent a number of times.
LEMMA UsesCounted ==
    ASSUME TabsInv, NEW p \in 1 .. pages
    PROVE  \/ tabs[p] = Tabs!Closed
           \/ tabs[p].place \in {"lent", "idle"} /\ tabs[p].uses \in Nat
  <1>1. TabsRead
    BY TabsAreRead
  <1>2. /\ page \in [Tasks -> Page] /\ idle \in [Keys -> Seq(Page)]
    BY DEF TabsInv, Types, PoolTypeOK, TaskTypes
  <1>3. ASSUME NEW t \in Tasks, at[t] \in HasPage, page[t].id = p
        PROVE  tabs[p].place = "lent" /\ tabs[p].uses \in Nat
    <2>1. page[t] \in Page
      BY <1>2
    <2>2. tabs[p] = Tabs!Lent(t, key[t], page[t].uses)
      BY <1>1, <1>3 DEF TabsRead
    <2> QED
      BY <2>1, <2>2, Fields, PoolAssumption DEF Page
  <1>4. ASSUME NEW k \in Keys, NEW n \in 1 .. Len(idle[k]), idle[k][n].id = p
        PROVE  tabs[p].place = "idle" /\ tabs[p].uses \in Nat
    <2>1. idle[k][n] \in Page
      BY <1>2
    <2>2. tabs[p] = Tabs!Idle(k, idle[k][n].uses)
      BY <1>1, <1>4 DEF TabsRead
    <2> QED
      BY <2>1, <2>2, Fields, PoolAssumption DEF Page
  <1> QED
    BY <1>1, <1>3, <1>4 DEF TabsRead

\* So many tabs closed, and the others as they were.
LEMMA ClosingIsOnward ==
    ASSUME TabsInv, NEW C, tabs' = [p \in 1 .. pages |-> IF p \in C THEN Tabs!Closed ELSE tabs[p]]
    PROVE  Onward
  <1>1. DOMAIN tabs = 1 .. pages /\ DOMAIN tabs' = 1 .. pages
    BY DEF tabs
  <1>2. ASSUME NEW p \in 1 .. pages
        PROVE  \/ tabs'[p] = tabs[p]
               \/ tabs'[p] = Tabs!Closed
    OBVIOUS
  <1>3. ASSUME NEW p \in 1 .. pages
        PROVE  /\ tabs[p].place = "closed" => tabs[p] = Tabs!Closed
               /\ tabs[p].place # "closed" => tabs[p].uses >= tabs[p].uses
    BY UsesCounted, Fields
  <1> QED
    BY <1>1, <1>2, <1>3, Fields DEF Onward

LEMMA StepIsOnward ==
    ASSUME TabsInv, TabsInv', [Tabs!Next]_(Tabs!vars)
    PROVE  Onward
  <1>0. pages \in Nat /\ DOMAIN tabs = 1 .. pages
    BY DEF TabsInv, Types, CountTypes, tabs
  <1>1. \A p \in 1 .. pages : \/ tabs[p] = Tabs!Closed
                              \/ tabs[p].place \in {"lent", "idle"} /\ tabs[p].uses \in Nat
    BY UsesCounted
  <1>2. ASSUME tabs' = tabs
        PROVE  Onward
    BY <1>0, <1>1, <1>2, Fields DEF Onward
  <1>3. ASSUME NEW t \in Tasks, NEW k \in Keys, Tabs!Open(t, k)
        PROVE  Onward
    <2> DEFINE new == Tabs!Lent(t, k, 1)
               S == {tabs[p] : p \in 1 .. pages} \cup {new}
    <2> HIDE DEF new
    <2>1. tabs \in Seq(S) /\ Len(tabs) = pages /\ new \in S
      <3>1. tabs \in [1 .. pages -> S] /\ new \in S
        BY <1>0 DEF tabs
      <3> HIDE DEF S
      <3> QED
        BY <1>0, <3>1
    <2>2. tabs' = Append(tabs, new)
      BY <1>3 DEF Tabs!Open, new, tabs
    <2> HIDE DEF S
    <2>3. /\ DOMAIN tabs' = 1 .. pages + 1
          /\ \A p \in 1 .. pages : tabs'[p] = tabs[p]
      BY <1>0, <2>1, <2>2
    <2> QED
      BY <1>0, <1>1, <2>3, Fields DEF Onward
  <1>4. ASSUME NEW t \in Tasks, NEW q \in 1 .. pages, Tabs!Lend(t, q)
        PROVE  Onward
    <2>1. PICK C \in SUBSET (Tabs!IdleOf(tabs[q].key) \ {q}) :
            tabs' = [[p \in 1 .. pages |-> IF p \in C THEN Tabs!Closed ELSE tabs[p]]
                      EXCEPT ![q] = Tabs!Lent(t, tabs[q].key, tabs[q].uses + 1)]
      BY <1>0, <1>4 DEF Tabs!Lend, Tabs!AfterClosing, tabs
    <2>2. tabs[q].place = "idle"
      BY <1>4 DEF Tabs!Lend, Tabs!IdleTabs, Tabs!IdleOf, tabs
    <2>3. /\ DOMAIN tabs' = 1 .. pages
          /\ tabs'[q] = Tabs!Lent(t, tabs[q].key, tabs[q].uses + 1)
          /\ \A p \in 1 .. pages : p # q => tabs'[p] = tabs[p] \/ tabs'[p] = Tabs!Closed
      BY <2>1
    <2>4. tabs[q].uses \in Nat
      BY <1>1, <2>2, Fields
    <2>5. /\ tabs'[q].place = "lent" /\ tabs'[q].key = tabs[q].key
          /\ tabs'[q].uses >= tabs[q].uses
      BY <2>3, <2>4, Fields
    <2>6. \A p \in 1 .. pages : p # q =>
            /\ tabs[p].place = "closed" => tabs'[p] = tabs[p]
            /\ tabs'[p].place # "closed" => tabs'[p] = tabs[p] /\ tabs[p].uses \in Nat
            /\ tabs[p].place = "lent" /\ tabs'[p].place = "lent" => tabs'[p] = tabs[p]
      BY <1>1, <2>3, Fields
    <2> QED
      BY <1>0, <2>2, <2>3, <2>5, <2>6 DEF Onward
  <1>5. ASSUME NEW q \in 1 .. pages, Tabs!Return(q)
        PROVE  Onward
    <2>1. /\ tabs[q].place = "lent"
          /\ tabs' = [tabs EXCEPT ![q] = Tabs!Idle(tabs[q].key, tabs[q].uses)]
      BY <1>5 DEF Tabs!Return, tabs
    <2>2. tabs[q].uses \in Nat
      BY <1>1, <2>1, Fields
    <2>3. /\ DOMAIN tabs' = 1 .. pages
          /\ tabs'[q] = Tabs!Idle(tabs[q].key, tabs[q].uses)
          /\ \A p \in 1 .. pages : p # q => tabs'[p] = tabs[p]
      BY <1>0, <2>1
    <2>4. /\ tabs'[q].place = "idle" /\ tabs'[q].key = tabs[q].key
          /\ tabs'[q].uses >= tabs[q].uses
      BY <2>2, <2>3, Fields
    <2>5. \A p \in 1 .. pages : p # q /\ tabs[p].place # "closed" => tabs[p].uses \in Nat
      BY <1>1, Fields
    <2> QED
      BY <1>0, <2>1, <2>3, <2>4, <2>5 DEF Onward
  <1>6. ASSUME NEW C, Tabs!AfterClosing(C) = tabs'
        PROVE  Onward
    <2>1. tabs' = [p \in 1 .. pages |-> IF p \in C THEN Tabs!Closed ELSE tabs[p]]
      BY <1>0, <1>6 DEF Tabs!AfterClosing, tabs
    <2> QED
      BY <2>1, ClosingIsOnward
  <1>7. ASSUME NEW q \in 1 .. pages, Tabs!Drop(q)
        PROVE  Onward
    BY <1>6, <1>7 DEF Tabs!Drop, tabs
  <1>8. ASSUME NEW C, Tabs!Close(C)
        PROVE  Onward
    BY <1>6, <1>8 DEF Tabs!Close, tabs
  <1>9. \/ tabs' = tabs
        \/ \E t \in Tasks, k \in Keys : Tabs!Open(t, k)
        \/ \E t \in Tasks, p \in 1 .. pages : Tabs!Lend(t, p)
        \/ \E p \in 1 .. pages : Tabs!Return(p) \/ Tabs!Drop(p)
        \/ \E C \in SUBSET Tabs!IdleTabs : Tabs!Close(C)
    BY <1>0 DEF Tabs!Next, Tabs!vars, tabs
  <1> QED
    BY <1>2, <1>3, <1>4, <1>5, <1>7, <1>8, <1>9

\* A tab that was closed never comes back, no tab is ever lent for another key
\* than the one it was opened for, its uses are never forgotten, and a tab that
\* a render drives is not handed to another before it came back to the pool.
THEOREM TabsMoveOnward == Spec => Tabs!TabsGoOnward
  <1>1. IInv => TabsInv
    BY DEF IInv, TabsInv
  <1>2. TabsInv /\ TabsInv' /\ [Next]_vars => [Tabs!Next]_(Tabs!vars)
    BY LeaseRefines
  <1>3. TabsInv /\ TabsInv' /\ [Tabs!Next]_(Tabs!vars) => Onward
    BY StepIsOnward
  <1> QED
    BY <1>1, <1>2, <1>3, Inductive, PTL DEF Spec, Tabs!TabsGoOnward, Tabs!vars, Onward, tabs

(* How many Chrome processes the registry holds. *)

\* Renders that launched a browser and have yet to put it in the mru list.
Booking == {t \in Tasks : at[t] = "book"}

\* "evict oldest beyond max_browsers" (pool.rs:1645): no more browsers are
\* registered than that, but for those whose launch is not yet booked.
BrowsersBounded ==
    /\ IsFiniteSet(Registered)
    /\ Cardinality(Registered) <= MaxBrowsers + Cardinality(Booking)

LEMMA TrackedIsBounded ==
    ASSUME Types, RegisteredIsTracked
    PROVE  BrowsersBounded
  <1> DEFINE m == Len(mru)
             Listed == {mru[n] : n \in 1 .. m}
             Booked == {B(t) : t \in Booking}
             f == [n \in 1 .. m |-> mru[n]]
             g == [t \in Booking |-> B(t)]
  <1>1. m \in Nat /\ m <= MaxBrowsers /\ MaxBrowsers \in Nat
    BY RenderAssumption DEF Types, BrowserTypes, RegisteredIsTracked
  <1>2. f \in Surjection(1 .. m, Listed) /\ g \in Surjection(Booking, Booked)
    BY DEF Surjection
  <1>3. \A b \in Registered : b \in Listed \cup Booked
    BY DEF RegisteredIsTracked, InMru, Booking
  <1> HIDE DEF m, Listed, Booked, f, g
  <1>4. IsFiniteSet(1 .. m) /\ Cardinality(1 .. m) = m
    BY <1>1, FS_Interval
  <1>5. IsFiniteSet(Listed) /\ Cardinality(Listed) <= m
    BY <1>2, <1>4, FS_Surjection
  <1>6. IsFiniteSet(Booking)
    BY RenderAssumption, FS_Subset DEF Booking
  <1>7. IsFiniteSet(Booked) /\ Cardinality(Booked) <= Cardinality(Booking)
    BY <1>2, <1>6, FS_Surjection
  <1>8. /\ IsFiniteSet(Listed \cup Booked)
        /\ Cardinality(Listed \cup Booked)
             = Cardinality(Listed) + Cardinality(Booked) - Cardinality(Listed \cap Booked)
    BY <1>5, <1>7, FS_Union
  <1>9. IsFiniteSet(Listed \cap Booked)
    BY <1>5, FS_Intersection
  <1>10. /\ IsFiniteSet(Registered)
         /\ Cardinality(Registered) <= Cardinality(Listed \cup Booked)
    BY <1>3, <1>8, FS_Subset
  <1>11. /\ {Cardinality(Listed), Cardinality(Booked), Cardinality(Booking),
             Cardinality(Registered), Cardinality(Listed \cup Booked),
             Cardinality(Listed \cap Booked)} \subseteq Nat
    BY <1>5, <1>6, <1>7, <1>8, <1>9, <1>10, FS_CardinalityType
  <1> QED
    BY <1>1, <1>5, <1>7, <1>8, <1>10, <1>11 DEF BrowsersBounded

\* Whatever the renders do to the registry between the launch of a browser and
\* its entry in the mru list, max_browsers is exceeded by the launches under
\* way at most, and not at all once they are booked.
THEOREM RegistryIsBounded == Spec => []BrowsersBounded
  <1>1. IInv => BrowsersBounded
    BY TrackedIsBounded DEF IInv
  <1> QED
    BY <1>1, Inductive, PTL
====
