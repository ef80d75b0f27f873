---- MODULE SessionsProofs ----
(***************************************************************************)
(* Proofs about Sessions, for any number of jobs, sessions and signals.    *)
(***************************************************************************)
EXTENDS Sessions, FiniteSetTheorems, TLAPS

(* Values. *)

\* A challenge never makes a state milder than the one it was decided on.
LEMMA DecisionRises ==
    ASSUME NEW sig, NEW state \in States
    PROVE  Decision(sig, state) \in States /\ Rank(Decision(sig, state)) >= Rank(state)
  <1>1. AfterChallenge(state, sig.level) \in States
    BY DEF AfterChallenge, States
  <1>2. Rank("blocked") = 3 /\ Rank(state) \in 0 .. 3
    BY DEF Rank, States
  <1>3. Rank(AfterChallenge(state, sig.level)) >= Rank(state)
    <2>1. CASE sig.level = "hard" \/ state = "blocked"
      BY <1>2, <2>1 DEF AfterChallenge
    <2>2. CASE state # "blocked" /\ state = "contaminated"
      BY <2>2 DEF AfterChallenge, Rank
    <2>3. CASE state \in {"clean", "warm"}
      BY <2>3 DEF AfterChallenge, Rank
    <2> QED
      BY <2>1, <2>2, <2>3 DEF States
  <1> QED
    BY <1>1, <1>2, <1>3 DEF Decision, States

\* Narrowing never widens.
LEMMA Narrowing ==
    ASSUME NEW wide \in 0 .. 3, NEW level
    PROVE  NarrowTo(wide, level) \in 0 .. 3 /\ NarrowTo(wide, level) <= wide
  BY DEF NarrowTo

(* Types. *)

LEMMA InitType == Init => TypeOK
  BY SessionsAssumption DEF Init, TypeOK, Sessions, States, Steps, None

LEMMA ArchiveType ==
    ASSUME TypeOK, NEW s \in Sessions, Archive(s)
    PROVE  /\ archived' \in [Sessions -> Nat]
           /\ lost' \in [Sessions -> Nat]
           /\ faults' \in Nat
  BY DEF TypeOK, Archive

LEMMA NextType == TypeOK /\ [Next]_vars => TypeOK'
  <1> SUFFICES ASSUME TypeOK, [Next]_vars
               PROVE  TypeOK'
    OBVIOUS
  <1> USE SessionsAssumption
  <1>1. ASSUME NEW t \in Tasks, Check(t)
        PROVE  TypeOK'
    BY <1>1, SMTT(40) DEF Check, Finish, Go, taskVars, historyVars, TypeOK, Sessions, States, Steps, None
  <1>2. ASSUME NEW t \in Tasks, Promote(t)
        PROVE  TypeOK'
    BY <1>2 DEF Promote, Go, taskVars, historyVars, TypeOK, Sessions, States, Steps, None
  <1>3. ASSUME NEW t \in Tasks, MarkWarm(t)
        PROVE  TypeOK'
    BY <1>3 DEF MarkWarm, Mark, Finish, Go, taskVars, historyVars, TypeOK, Sessions, States,
       Steps, None
  <1>4. ASSUME NEW t \in Tasks, Read(t)
        PROVE  TypeOK'
    BY <1>4 DEF Read, Go, taskVars, historyVars, TypeOK, Sessions, States, Steps, None
  <1>5. ASSUME NEW t \in Tasks, Record(t)
        PROVE  TypeOK'
    BY <1>5, DecisionRises DEF Record, Go, taskVars, historyVars, TypeOK, Steps
  <1>6. ASSUME NEW t \in Tasks, Register(t)
        PROVE  TypeOK'
    BY <1>6 DEF Register, GetOrCreate, Go, taskVars, historyVars, TypeOK, Sessions, States,
       Steps, None
  <1>7. ASSUME NEW t \in Tasks, MarkNext(t)
        PROVE  TypeOK'
    BY <1>7 DEF MarkNext, Mark, Go, taskVars, historyVars, TypeOK, Sessions, States, Steps, None
  <1>8. ASSUME NEW t \in Tasks, ReadScope(t)
        PROVE  TypeOK'
    BY <1>8, SMTT(40) DEF ReadScope, Narrows, AfterScope, Drops, Finish, Go, taskVars, historyVars,
       TypeOK, Sessions, States, Steps, None
  <1>9. ASSUME NEW t \in Tasks, WriteScope(t)
        PROVE  TypeOK'
    BY <1>9, Narrowing, SMTT(40) DEF WriteScope, AfterScope, Finish, Go, taskVars, historyVars, TypeOK,
       Sessions, States, Steps
  <1>10. ASSUME NEW t \in Tasks, DropSession(t)
         PROVE  TypeOK'
    BY <1>10 DEF DropSession, Go, taskVars, historyVars, TypeOK, Sessions, States, Steps, None
  <1>11. ASSUME NEW t \in Tasks, EvictBlocked(t)
         PROVE  TypeOK'
    <2>1. CASE registry[session[t]] = "none"
      BY <1>11, <2>1, SMTT(40) DEF EvictBlocked, Evict, Finish, Go, taskVars, historyVars, TypeOK,
         Sessions, States, Steps, None
    <2>2. CASE registry[session[t]] # "none"
      BY <1>11, <2>2 DEF EvictBlocked, Evict, Go, taskVars, historyVars, TypeOK, Sessions,
         States, Steps, None
    <2> QED
      BY <2>1, <2>2
  <1>12. ASSUME NEW t \in Tasks, ArchiveBlocked(t)
         PROVE  TypeOK'
    BY <1>12, SMTT(40) DEF ArchiveBlocked, Archive, Finish, Go, taskVars, historyVars, TypeOK, Sessions,
       States, Steps, None
  <1>13. ASSUME NEW t \in Tasks, Cancelled(t)
         PROVE  TypeOK'
    BY <1>13 DEF Cancelled, Finish, Go, taskVars, historyVars, TypeOK, Sessions, States, Steps,
       None
  <1>14. ASSUME NEW t \in Tasks, NEW sig \in Signals, Fetched(t, sig)
         PROVE  TypeOK'
    BY <1>14 DEF Fetched, Take, InHand, Go, taskVars, historyVars, TypeOK, Sessions, States,
       Steps, None
  <1>15. ASSUME NEW t \in Tasks, NEW s \in RenderSessions,
                 NEW sig \in Signals \cup {NoSignal}, Rendered(t, s, sig)
         PROVE  TypeOK'
    BY <1>15 DEF Rendered, Take, InHand, GetOrCreate, Go, taskVars, historyVars, TypeOK,
       Sessions, States, Steps, None
  <1>16. ASSUME NEW s \in Sessions, Age(s)
         PROVE  TypeOK'
    BY <1>16 DEF Age, taskVars, historyVars, TypeOK, Sessions, States, Steps, None
  <1>17. CASE SweepStarts
    BY <1>17 DEF SweepStarts, taskVars, historyVars, TypeOK, Sessions, States, Steps, None
  <1>18. CASE SweepDrops
    BY <1>18 DEF SweepDrops, taskVars, historyVars, TypeOK, Sessions, States, Steps, None
  <1>19. CASE SweepEvicts
    BY <1>19, ZenonT(60) DEF SweepEvicts, Evict, taskVars, historyVars, TypeOK, Sessions, States, Steps,
       None
  <1>20. CASE SweepArchives
    <2>1. sweep.id \in Sessions /\ Archive(sweep.id)
      BY <1>20 DEF SweepArchives, TypeOK
    <2>2. archived' \in [Sessions -> Nat] /\ lost' \in [Sessions -> Nat] /\ faults' \in Nat
      BY <2>1, ArchiveType
    <2> QED
      BY <1>20, <2>2, ZenonT(60) DEF SweepArchives, taskVars, TypeOK, None
  <1>21. CASE FlushStarts
    BY <1>21 DEF FlushStarts, taskVars, historyVars, TypeOK, Sessions, States, Steps, None
  <1>22. CASE FlushEvicts
    BY <1>22 DEF FlushEvicts, Evict, taskVars, historyVars, TypeOK, Sessions, States, Steps,
       None
  <1>23. CASE FlushArchives
    <2>1. flush.id \in Sessions /\ Archive(flush.id)
      BY <1>23 DEF FlushArchives, TypeOK
    <2>2. archived' \in [Sessions -> Nat] /\ lost' \in [Sessions -> Nat] /\ faults' \in Nat
      BY <2>1, ArchiveType
    <2> QED
      BY <1>23, <2>2, ZenonT(60) DEF FlushArchives, taskVars, TypeOK, None
  <1>24. CASE RunReturns
    BY <1>24 DEF RunReturns, taskVars, historyVars, TypeOK, Sessions, States, Steps, None
  <1>25. CASE UNCHANGED vars
    BY <1>25 DEF vars, taskVars, historyVars, TypeOK, Sessions, States, Steps, None
  <1> QED
    BY <1>1, <1>2, <1>3, <1>4, <1>5, <1>6, <1>7, <1>8, <1>9, <1>10, <1>11, <1>12, <1>13, <1>14,
       <1>15, <1>16, <1>17, <1>18, <1>19, <1>20, <1>21, <1>22, <1>23, <1>24, <1>25 DEF Next,
       Step, Sweep, Flush, Ended

\* Every variable keeps its type, whatever jobs and sessions there are.
THEOREM TypeCorrect == Spec => []TypeOK
  BY InitType, NextType, PTL DEF Spec

(* Jobs and the sessions they have in hand. *)

\* A session that two jobs have in hand is known to be shared.
SharedKnown ==
    \A t, u \in Tasks :
        t # u /\ at[t] # "idle" /\ at[u] # "idle" /\ session[t] = session[u]
            => session[t] \in shared

\* What a job has read of a session it shares with nobody is still so.
ReadIsFresh ==
    \A t \in Tasks : session[t] \notin shared =>
        /\ at[t] = "record" => seen[t] = states[session[t]]
        /\ at[t] = "promote" => states[session[t]] = "clean"

\* An entry to mark is in the registry, unless another pass took it.
MarkedIsRegistered ==
    \A t \in Tasks : at[t] \in {"check", "promote", "warm", "mark"} =>
        registry[session[t]] # "none" \/ session[t] \in evicted

LEMMA InitJobs == Init => SharedKnown /\ ReadIsFresh /\ MarkedIsRegistered
  BY DEF Init, SharedKnown, ReadIsFresh, MarkedIsRegistered

LEMMA NextSharedKnown == TypeOK /\ SharedKnown /\ [Next]_vars => SharedKnown'
  <1> SUFFICES ASSUME TypeOK, SharedKnown, [Next]_vars
               PROVE  SharedKnown'
    OBVIOUS
  <1>1. ASSUME NEW t \in Tasks, Check(t)
        PROVE  SharedKnown'
    BY <1>1 DEF Check, Finish, Go, taskVars, historyVars, TypeOK, Sessions, Steps, SharedKnown
  <1>2. ASSUME NEW t \in Tasks, Promote(t)
        PROVE  SharedKnown'
    BY <1>2 DEF Promote, Go, taskVars, historyVars, TypeOK, Sessions, Steps, SharedKnown
  <1>3. ASSUME NEW t \in Tasks, MarkWarm(t)
        PROVE  SharedKnown'
    BY <1>3 DEF MarkWarm, Mark, Finish, Go, taskVars, historyVars, TypeOK, Sessions, Steps,
       SharedKnown
  <1>4. ASSUME NEW t \in Tasks, Read(t)
        PROVE  SharedKnown'
    BY <1>4 DEF Read, Go, taskVars, historyVars, TypeOK, Sessions, Steps, SharedKnown
  <1>5. ASSUME NEW t \in Tasks, Record(t)
        PROVE  SharedKnown'
    BY <1>5 DEF Record, Go, taskVars, historyVars, TypeOK, Sessions, Steps, SharedKnown
  <1>6. ASSUME NEW t \in Tasks, Register(t)
        PROVE  SharedKnown'
    BY <1>6 DEF Register, GetOrCreate, Go, taskVars, historyVars, TypeOK, Sessions, Steps,
       SharedKnown
  <1>7. ASSUME NEW t \in Tasks, MarkNext(t)
        PROVE  SharedKnown'
    BY <1>7 DEF MarkNext, Mark, Go, taskVars, historyVars, TypeOK, Sessions, Steps, SharedKnown
  <1>8. ASSUME NEW t \in Tasks, ReadScope(t)
        PROVE  SharedKnown'
    BY <1>8 DEF ReadScope, Narrows, AfterScope, Drops, Finish, Go, taskVars, historyVars,
       TypeOK, Sessions, Steps, SharedKnown
  <1>9. ASSUME NEW t \in Tasks, WriteScope(t)
        PROVE  SharedKnown'
    BY <1>9 DEF WriteScope, AfterScope, Drops, Finish, Go, taskVars, historyVars, TypeOK,
       Sessions, Steps, SharedKnown
  <1>10. ASSUME NEW t \in Tasks, DropSession(t)
         PROVE  SharedKnown'
    BY <1>10 DEF DropSession, Go, taskVars, historyVars, TypeOK, Sessions, Steps, SharedKnown
  <1>11. ASSUME NEW t \in Tasks, EvictBlocked(t)
         PROVE  SharedKnown'
    BY <1>11 DEF EvictBlocked, Evict, Finish, Go, taskVars, historyVars, TypeOK, Sessions,
       Steps, SharedKnown
  <1>12. ASSUME NEW t \in Tasks, ArchiveBlocked(t)
         PROVE  SharedKnown'
    BY <1>12 DEF ArchiveBlocked, Archive, Finish, Go, taskVars, historyVars, TypeOK, Sessions,
       Steps, SharedKnown
  <1>13. ASSUME NEW t \in Tasks, Cancelled(t)
         PROVE  SharedKnown'
    BY <1>13 DEF Cancelled, Finish, Go, taskVars, historyVars, TypeOK, Sessions, Steps,
       SharedKnown
  <1>14. ASSUME NEW t \in Tasks, NEW sig \in Signals, Fetched(t, sig)
         PROVE  SharedKnown'
    BY <1>14 DEF Fetched, Take, InHand, Go, taskVars, historyVars, TypeOK, Sessions, Steps,
       SharedKnown
  <1>15. ASSUME NEW t \in Tasks, NEW s \in RenderSessions,
                 NEW sig \in Signals \cup {NoSignal}, Rendered(t, s, sig)
         PROVE  SharedKnown'
    BY <1>15 DEF Rendered, Take, InHand, GetOrCreate, Go, taskVars, historyVars, TypeOK,
       Sessions, Steps, SharedKnown
  <1>16. ASSUME NEW s \in Sessions, Age(s)
         PROVE  SharedKnown'
    BY <1>16 DEF Age, taskVars, historyVars, TypeOK, Sessions, Steps, SharedKnown
  <1>17. CASE SweepStarts
    BY <1>17 DEF SweepStarts, taskVars, historyVars, TypeOK, Sessions, Steps, SharedKnown
  <1>18. CASE SweepDrops
    BY <1>18 DEF SweepDrops, taskVars, historyVars, TypeOK, Sessions, Steps, SharedKnown
  <1>19. CASE SweepEvicts
    BY <1>19 DEF SweepEvicts, Evict, taskVars, historyVars, TypeOK, Sessions, Steps, SharedKnown
  <1>20. CASE SweepArchives
    BY <1>20 DEF SweepArchives, Archive, taskVars, historyVars, TypeOK, Sessions, Steps,
       SharedKnown
  <1>21. CASE FlushStarts
    BY <1>21 DEF FlushStarts, taskVars, historyVars, TypeOK, Sessions, Steps, SharedKnown
  <1>22. CASE FlushEvicts
    BY <1>22 DEF FlushEvicts, Evict, taskVars, historyVars, TypeOK, Sessions, Steps, SharedKnown
  <1>23. CASE FlushArchives
    BY <1>23 DEF FlushArchives, Archive, taskVars, historyVars, TypeOK, Sessions, Steps,
       SharedKnown
  <1>24. CASE RunReturns
    BY <1>24 DEF RunReturns, taskVars, historyVars, TypeOK, Sessions, Steps, SharedKnown
  <1>25. CASE UNCHANGED vars
    BY <1>25 DEF vars, taskVars, historyVars, TypeOK, Sessions, Steps, SharedKnown
  <1> QED
    BY <1>1, <1>2, <1>3, <1>4, <1>5, <1>6, <1>7, <1>8, <1>9, <1>10, <1>11, <1>12, <1>13, <1>14,
       <1>15, <1>16, <1>17, <1>18, <1>19, <1>20, <1>21, <1>22, <1>23, <1>24, <1>25 DEF Next,
       Step, Sweep, Flush, Ended

LEMMA NextMarkedIsRegistered ==
    TypeOK /\ MarkedIsRegistered /\ [Next]_vars => MarkedIsRegistered'
  <1> SUFFICES ASSUME TypeOK, MarkedIsRegistered, [Next]_vars
               PROVE  MarkedIsRegistered'
    OBVIOUS
  <1>1. ASSUME NEW t \in Tasks, Check(t)
        PROVE  MarkedIsRegistered'
    BY <1>1 DEF Check, Finish, Go, taskVars, historyVars, TypeOK, Sessions, Steps, States,
       MarkedIsRegistered
  <1>2. ASSUME NEW t \in Tasks, Promote(t)
        PROVE  MarkedIsRegistered'
    BY <1>2 DEF Promote, Go, taskVars, historyVars, TypeOK, Sessions, Steps, States,
       MarkedIsRegistered
  <1>3. ASSUME NEW t \in Tasks, MarkWarm(t)
        PROVE  MarkedIsRegistered'
    BY <1>3 DEF MarkWarm, Mark, Finish, Go, taskVars, historyVars, TypeOK, Sessions, Steps,
       States, MarkedIsRegistered
  <1>4. ASSUME NEW t \in Tasks, Read(t)
        PROVE  MarkedIsRegistered'
    BY <1>4 DEF Read, Go, taskVars, historyVars, TypeOK, Sessions, Steps, States,
       MarkedIsRegistered
  <1>5. ASSUME NEW t \in Tasks, Record(t)
        PROVE  MarkedIsRegistered'
    BY <1>5 DEF Record, Go, taskVars, historyVars, TypeOK, Sessions, Steps, States,
       MarkedIsRegistered
  <1>6. ASSUME NEW t \in Tasks, Register(t)
        PROVE  MarkedIsRegistered'
    BY <1>6 DEF Register, GetOrCreate, Go, taskVars, historyVars, TypeOK, Sessions, Steps,
       States, MarkedIsRegistered
  <1>7. ASSUME NEW t \in Tasks, MarkNext(t)
        PROVE  MarkedIsRegistered'
    BY <1>7 DEF MarkNext, Mark, Go, taskVars, historyVars, TypeOK, Sessions, Steps, States,
       MarkedIsRegistered
  <1>8. ASSUME NEW t \in Tasks, ReadScope(t)
        PROVE  MarkedIsRegistered'
    BY <1>8 DEF ReadScope, Narrows, AfterScope, Drops, Finish, Go, taskVars, historyVars,
       TypeOK, Sessions, Steps, States, MarkedIsRegistered
  <1>9. ASSUME NEW t \in Tasks, WriteScope(t)
        PROVE  MarkedIsRegistered'
    BY <1>9 DEF WriteScope, AfterScope, Drops, Finish, Go, taskVars, historyVars, TypeOK,
       Sessions, Steps, States, MarkedIsRegistered
  <1>10. ASSUME NEW t \in Tasks, DropSession(t)
         PROVE  MarkedIsRegistered'
    BY <1>10 DEF DropSession, Go, taskVars, historyVars, TypeOK, Sessions, Steps, States,
       MarkedIsRegistered
  <1>11. ASSUME NEW t \in Tasks, EvictBlocked(t)
         PROVE  MarkedIsRegistered'
    BY <1>11 DEF EvictBlocked, Evict, Finish, Go, taskVars, historyVars, TypeOK, Sessions,
       Steps, States, MarkedIsRegistered
  <1>12. ASSUME NEW t \in Tasks, ArchiveBlocked(t)
         PROVE  MarkedIsRegistered'
    BY <1>12 DEF ArchiveBlocked, Archive, Finish, Go, taskVars, historyVars, TypeOK, Sessions,
       Steps, States, MarkedIsRegistered
  <1>13. ASSUME NEW t \in Tasks, Cancelled(t)
         PROVE  MarkedIsRegistered'
    BY <1>13 DEF Cancelled, Finish, Go, taskVars, historyVars, TypeOK, Sessions, Steps, States,
       MarkedIsRegistered
  <1>14. ASSUME NEW t \in Tasks, NEW sig \in Signals, Fetched(t, sig)
         PROVE  MarkedIsRegistered'
    BY <1>14 DEF Fetched, Take, InHand, Go, taskVars, historyVars, TypeOK, Sessions, Steps,
       States, MarkedIsRegistered
  <1>15. ASSUME NEW t \in Tasks, NEW s \in RenderSessions,
                 NEW sig \in Signals \cup {NoSignal}, Rendered(t, s, sig)
         PROVE  MarkedIsRegistered'
    BY <1>15 DEF Rendered, Take, InHand, GetOrCreate, Go, taskVars, historyVars, TypeOK,
       Sessions, Steps, States, MarkedIsRegistered
  <1>16. ASSUME NEW s \in Sessions, Age(s)
         PROVE  MarkedIsRegistered'
    BY <1>16 DEF Age, taskVars, historyVars, TypeOK, Sessions, Steps, States, MarkedIsRegistered
  <1>17. CASE SweepStarts
    BY <1>17 DEF SweepStarts, taskVars, historyVars, TypeOK, Sessions, Steps, States,
       MarkedIsRegistered
  <1>18. CASE SweepDrops
    BY <1>18 DEF SweepDrops, taskVars, historyVars, TypeOK, Sessions, Steps, States,
       MarkedIsRegistered
  <1>19. CASE SweepEvicts
    BY <1>19 DEF SweepEvicts, Evict, taskVars, historyVars, TypeOK, Sessions, Steps, States,
       MarkedIsRegistered
  <1>20. CASE SweepArchives
    BY <1>20 DEF SweepArchives, Archive, taskVars, historyVars, TypeOK, Sessions, Steps, States,
       MarkedIsRegistered
  <1>21. CASE FlushStarts
    BY <1>21 DEF FlushStarts, taskVars, historyVars, TypeOK, Sessions, Steps, States,
       MarkedIsRegistered
  <1>22. CASE FlushEvicts
    BY <1>22 DEF FlushEvicts, Evict, taskVars, historyVars, TypeOK, Sessions, Steps, States,
       MarkedIsRegistered
  <1>23. CASE FlushArchives
    BY <1>23 DEF FlushArchives, Archive, taskVars, historyVars, TypeOK, Sessions, Steps, States,
       MarkedIsRegistered
  <1>24. CASE RunReturns
    BY <1>24 DEF RunReturns, taskVars, historyVars, TypeOK, Sessions, Steps, States,
       MarkedIsRegistered
  <1>25. CASE UNCHANGED vars
    BY <1>25 DEF vars, taskVars, historyVars, TypeOK, Sessions, Steps, States,
       MarkedIsRegistered
  <1> QED
    BY <1>1, <1>2, <1>3, <1>4, <1>5, <1>6, <1>7, <1>8, <1>9, <1>10, <1>11, <1>12, <1>13, <1>14,
       <1>15, <1>16, <1>17, <1>18, <1>19, <1>20, <1>21, <1>22, <1>23, <1>24, <1>25 DEF Next,
       Step, Sweep, Flush, Ended

LEMMA NextReadIsFresh ==
    TypeOK /\ SharedKnown /\ ReadIsFresh /\ [Next]_vars => ReadIsFresh'
  <1> SUFFICES ASSUME TypeOK, SharedKnown, ReadIsFresh, [Next]_vars
               PROVE  ReadIsFresh'
    OBVIOUS
  <1>1. ASSUME NEW t \in Tasks, Check(t)
        PROVE  ReadIsFresh'
    BY <1>1 DEF Check, Finish, Go, taskVars, historyVars, TypeOK, Sessions, Steps, SharedKnown,
       ReadIsFresh
  <1>2. ASSUME NEW t \in Tasks, Promote(t)
        PROVE  ReadIsFresh'
    BY <1>2 DEF Promote, Go, taskVars, historyVars, TypeOK, Sessions, Steps, SharedKnown,
       ReadIsFresh
  <1>3. ASSUME NEW t \in Tasks, MarkWarm(t)
        PROVE  ReadIsFresh'
    BY <1>3 DEF MarkWarm, Mark, Finish, Go, taskVars, historyVars, TypeOK, Sessions, Steps,
       SharedKnown, ReadIsFresh
  <1>4. ASSUME NEW t \in Tasks, Read(t)
        PROVE  ReadIsFresh'
    BY <1>4 DEF Read, Go, taskVars, historyVars, TypeOK, Sessions, Steps, SharedKnown,
       ReadIsFresh
  <1>5. ASSUME NEW t \in Tasks, Record(t)
        PROVE  ReadIsFresh'
    BY <1>5 DEF Record, Go, taskVars, historyVars, TypeOK, Sessions, Steps, SharedKnown,
       ReadIsFresh
  <1>6. ASSUME NEW t \in Tasks, Register(t)
        PROVE  ReadIsFresh'
    BY <1>6 DEF Register, GetOrCreate, Go, taskVars, historyVars, TypeOK, Sessions, Steps,
       SharedKnown, ReadIsFresh
  <1>7. ASSUME NEW t \in Tasks, MarkNext(t)
        PROVE  ReadIsFresh'
    BY <1>7 DEF MarkNext, Mark, Go, taskVars, historyVars, TypeOK, Sessions, Steps, SharedKnown,
       ReadIsFresh
  <1>8. ASSUME NEW t \in Tasks, ReadScope(t)
        PROVE  ReadIsFresh'
    BY <1>8 DEF ReadScope, Narrows, AfterScope, Drops, Finish, Go, taskVars, historyVars,
       TypeOK, Sessions, Steps, SharedKnown, ReadIsFresh
  <1>9. ASSUME NEW t \in Tasks, WriteScope(t)
        PROVE  ReadIsFresh'
    BY <1>9 DEF WriteScope, AfterScope, Drops, Finish, Go, taskVars, historyVars, TypeOK,
       Sessions, Steps, SharedKnown, ReadIsFresh
  <1>10. ASSUME NEW t \in Tasks, DropSession(t)
         PROVE  ReadIsFresh'
    BY <1>10 DEF DropSession, Go, taskVars, historyVars, TypeOK, Sessions, Steps, SharedKnown,
       ReadIsFresh
  <1>11. ASSUME NEW t \in Tasks, EvictBlocked(t)
         PROVE  ReadIsFresh'
    BY <1>11 DEF EvictBlocked, Evict, Finish, Go, taskVars, historyVars, TypeOK, Sessions,
       Steps, SharedKnown, ReadIsFresh
  <1>12. ASSUME NEW t \in Tasks, ArchiveBlocked(t)
         PROVE  ReadIsFresh'
    BY <1>12 DEF ArchiveBlocked, Archive, Finish, Go, taskVars, historyVars, TypeOK, Sessions,
       Steps, SharedKnown, ReadIsFresh
  <1>13. ASSUME NEW t \in Tasks, Cancelled(t)
         PROVE  ReadIsFresh'
    BY <1>13 DEF Cancelled, Finish, Go, taskVars, historyVars, TypeOK, Sessions, Steps,
       SharedKnown, ReadIsFresh
  <1>14. ASSUME NEW t \in Tasks, NEW sig \in Signals, Fetched(t, sig)
         PROVE  ReadIsFresh'
    BY <1>14 DEF Fetched, Take, InHand, Go, taskVars, historyVars, TypeOK, Sessions, Steps,
       SharedKnown, ReadIsFresh
  <1>15. ASSUME NEW t \in Tasks, NEW s \in RenderSessions,
                 NEW sig \in Signals \cup {NoSignal}, Rendered(t, s, sig)
         PROVE  ReadIsFresh'
    BY <1>15 DEF Rendered, Take, InHand, GetOrCreate, Go, taskVars, historyVars, TypeOK,
       Sessions, Steps, SharedKnown, ReadIsFresh
  <1>16. ASSUME NEW s \in Sessions, Age(s)
         PROVE  ReadIsFresh'
    BY <1>16 DEF Age, taskVars, historyVars, TypeOK, Sessions, Steps, SharedKnown, ReadIsFresh
  <1>17. CASE SweepStarts
    BY <1>17 DEF SweepStarts, taskVars, historyVars, TypeOK, Sessions, Steps, SharedKnown,
       ReadIsFresh
  <1>18. CASE SweepDrops
    BY <1>18 DEF SweepDrops, taskVars, historyVars, TypeOK, Sessions, Steps, SharedKnown,
       ReadIsFresh
  <1>19. CASE SweepEvicts
    BY <1>19 DEF SweepEvicts, Evict, taskVars, historyVars, TypeOK, Sessions, Steps,
       SharedKnown, ReadIsFresh
  <1>20. CASE SweepArchives
    BY <1>20 DEF SweepArchives, Archive, taskVars, historyVars, TypeOK, Sessions, Steps,
       SharedKnown, ReadIsFresh
  <1>21. CASE FlushStarts
    BY <1>21 DEF FlushStarts, taskVars, historyVars, TypeOK, Sessions, Steps, SharedKnown,
       ReadIsFresh
  <1>22. CASE FlushEvicts
    BY <1>22 DEF FlushEvicts, Evict, taskVars, historyVars, TypeOK, Sessions, Steps,
       SharedKnown, ReadIsFresh
  <1>23. CASE FlushArchives
    BY <1>23 DEF FlushArchives, Archive, taskVars, historyVars, TypeOK, Sessions, Steps,
       SharedKnown, ReadIsFresh
  <1>24. CASE RunReturns
    BY <1>24 DEF RunReturns, taskVars, historyVars, TypeOK, Sessions, Steps, SharedKnown,
       ReadIsFresh
  <1>25. CASE UNCHANGED vars
    BY <1>25 DEF vars, taskVars, historyVars, TypeOK, Sessions, Steps, SharedKnown, ReadIsFresh
  <1> QED
    BY <1>1, <1>2, <1>3, <1>4, <1>5, <1>6, <1>7, <1>8, <1>9, <1>10, <1>11, <1>12, <1>13, <1>14,
       <1>15, <1>16, <1>17, <1>18, <1>19, <1>20, <1>21, <1>22, <1>23, <1>24, <1>25 DEF Next,
       Step, Sweep, Flush, Ended

(* The two maps. *)

Agrees(s) == states[s] = IF registry[s] = "none" THEN "clean" ELSE registry[s]

\* What the two maps say of a session while a job has it in hand.
Between(t) ==
    /\ at[t] = "warm" => states[session[t]] = "warm"
    /\ at[t] \in {"register", "mark"} => states[session[t]] = next[t]
    /\ at[t] \notin {"warm", "register", "mark"} => Agrees(session[t])

MapsFollow ==
    \A t \in Tasks : at[t] # "idle" /\ session[t] \notin evicted \cup shared => Between(t)

LEMMA InitMaps == Init => MapsAgree /\ MapsFollow
  BY DEF Init, MapsAgree, MapsFollow, Between, Agrees, InHand

LEMMA NextMaps ==
    TypeOK /\ SharedKnown /\ MarkedIsRegistered /\ MapsAgree /\ MapsFollow /\ [Next]_vars
        => MapsAgree' /\ MapsFollow'
  <1> SUFFICES ASSUME TypeOK, SharedKnown, MarkedIsRegistered, MapsAgree, MapsFollow, [Next]_vars
               PROVE  MapsAgree' /\ MapsFollow'
    OBVIOUS
  <1>1. ASSUME NEW t \in Tasks, Check(t)
        PROVE  MapsAgree' /\ MapsFollow'
    BY <1>1, SMTT(40) DEF Check, Finish, Go, taskVars, historyVars, TypeOK, Sessions, Steps, States,
       SharedKnown, MarkedIsRegistered, MapsAgree, MapsFollow, Between, Agrees, InHand
  <1>2. ASSUME NEW t \in Tasks, Promote(t)
        PROVE  MapsAgree' /\ MapsFollow'
    BY <1>2 DEF Promote, Go, taskVars, historyVars, TypeOK, Sessions, Steps, States,
       SharedKnown, MarkedIsRegistered, MapsAgree, MapsFollow, Between, Agrees, InHand
  <1>3. ASSUME NEW t \in Tasks, MarkWarm(t)
        PROVE  MapsAgree' /\ MapsFollow'
    BY <1>3, SMTT(40) DEF MarkWarm, Mark, Finish, Go, taskVars, historyVars, TypeOK, Sessions, Steps,
       States, SharedKnown, MarkedIsRegistered, MapsAgree, MapsFollow, Between, Agrees, InHand
  <1>4. ASSUME NEW t \in Tasks, Read(t)
        PROVE  MapsAgree' /\ MapsFollow'
    BY <1>4 DEF Read, Go, taskVars, historyVars, TypeOK, Sessions, Steps, States, SharedKnown,
       MarkedIsRegistered, MapsAgree, MapsFollow, Between, Agrees, InHand
  <1>5. ASSUME NEW t \in Tasks, Record(t)
        PROVE  MapsAgree' /\ MapsFollow'
    BY <1>5 DEF Record, Go, taskVars, historyVars, TypeOK, Sessions, Steps, States, SharedKnown,
       MarkedIsRegistered, MapsAgree, MapsFollow, Between, Agrees, InHand
  <1>6. ASSUME NEW t \in Tasks, Register(t)
        PROVE  MapsAgree' /\ MapsFollow'
    BY <1>6, SMTT(40) DEF Register, GetOrCreate, Go, taskVars, historyVars, TypeOK, Sessions, Steps,
       States, SharedKnown, MarkedIsRegistered, MapsAgree, MapsFollow, Between, Agrees, InHand
  <1>7. ASSUME NEW t \in Tasks, MarkNext(t)
        PROVE  MapsAgree' /\ MapsFollow'
    BY <1>7, SMTT(40) DEF MarkNext, Mark, Go, taskVars, historyVars, TypeOK, Sessions, Steps, States,
       SharedKnown, MarkedIsRegistered, MapsAgree, MapsFollow, Between, Agrees, InHand
  <1>8. ASSUME NEW t \in Tasks, ReadScope(t)
        PROVE  MapsAgree' /\ MapsFollow'
    BY <1>8, SMTT(40) DEF ReadScope, Narrows, AfterScope, Drops, Finish, Go, taskVars, historyVars,
       TypeOK, Sessions, Steps, States, SharedKnown, MarkedIsRegistered, MapsAgree, MapsFollow,
       Between, Agrees, InHand
  <1>9. ASSUME NEW t \in Tasks, WriteScope(t)
        PROVE  MapsAgree' /\ MapsFollow'
    BY <1>9, SMTT(40) DEF WriteScope, AfterScope, Drops, Finish, Go, taskVars, historyVars, TypeOK,
       Sessions, Steps, States, SharedKnown, MarkedIsRegistered, MapsAgree, MapsFollow, Between,
       Agrees, InHand
  <1>10. ASSUME NEW t \in Tasks, DropSession(t)
         PROVE  MapsAgree' /\ MapsFollow'
    BY <1>10 DEF DropSession, Go, taskVars, historyVars, TypeOK, Sessions, Steps, States,
       SharedKnown, MarkedIsRegistered, MapsAgree, MapsFollow, Between, Agrees, InHand
  <1>11. ASSUME NEW t \in Tasks, EvictBlocked(t)
         PROVE  MapsAgree' /\ MapsFollow'
    BY <1>11, SMTT(40) DEF EvictBlocked, Evict, Finish, Go, taskVars, historyVars, TypeOK, Sessions,
       Steps, States, SharedKnown, MarkedIsRegistered, MapsAgree, MapsFollow, Between, Agrees,
       InHand
  <1>12. ASSUME NEW t \in Tasks, ArchiveBlocked(t)
         PROVE  MapsAgree' /\ MapsFollow'
    BY <1>12 DEF ArchiveBlocked, Archive, Finish, Go, taskVars, historyVars, TypeOK, Sessions,
       Steps, States, SharedKnown, MarkedIsRegistered, MapsAgree, MapsFollow, Between, Agrees,
       InHand
  <1>13. ASSUME NEW t \in Tasks, Cancelled(t)
         PROVE  MapsAgree' /\ MapsFollow'
    BY <1>13 DEF Cancelled, Finish, Go, taskVars, historyVars, TypeOK, Sessions, Steps, States,
       SharedKnown, MarkedIsRegistered, MapsAgree, MapsFollow, Between, Agrees, InHand
  <1>14. ASSUME NEW t \in Tasks, NEW sig \in Signals, Fetched(t, sig)
         PROVE  MapsAgree' /\ MapsFollow'
    BY <1>14, SMTT(40) DEF Fetched, Take, InHand, Go, taskVars, historyVars, TypeOK, Sessions, Steps,
       States, SharedKnown, MarkedIsRegistered, MapsAgree, MapsFollow, Between, Agrees
  <1>15. ASSUME NEW t \in Tasks, NEW s \in RenderSessions,
                 NEW sig \in Signals \cup {NoSignal}, Rendered(t, s, sig)
         PROVE  MapsAgree' /\ MapsFollow'
    BY <1>15 DEF Rendered, Take, InHand, GetOrCreate, Go, taskVars, historyVars, TypeOK,
       Sessions, Steps, States, SharedKnown, MarkedIsRegistered, MapsAgree, MapsFollow, Between,
       Agrees
  <1>16. ASSUME NEW s \in Sessions, Age(s)
         PROVE  MapsAgree' /\ MapsFollow'
    BY <1>16 DEF Age, taskVars, historyVars, TypeOK, Sessions, Steps, States, SharedKnown,
       MarkedIsRegistered, MapsAgree, MapsFollow, Between, Agrees, InHand
  <1>17. CASE SweepStarts
    BY <1>17 DEF SweepStarts, taskVars, historyVars, TypeOK, Sessions, Steps, States,
       SharedKnown, MarkedIsRegistered, MapsAgree, MapsFollow, Between, Agrees, InHand
  <1>18. CASE SweepDrops
    BY <1>18 DEF SweepDrops, taskVars, historyVars, TypeOK, Sessions, Steps, States,
       SharedKnown, MarkedIsRegistered, MapsAgree, MapsFollow, Between, Agrees, InHand
  <1>19. CASE SweepEvicts
    BY <1>19 DEF SweepEvicts, Evict, taskVars, historyVars, TypeOK, Sessions, Steps, States,
       SharedKnown, MarkedIsRegistered, MapsAgree, MapsFollow, Between, Agrees, InHand
  <1>20. CASE SweepArchives
    BY <1>20 DEF SweepArchives, Archive, taskVars, historyVars, TypeOK, Sessions, Steps, States,
       SharedKnown, MarkedIsRegistered, MapsAgree, MapsFollow, Between, Agrees, InHand
  <1>21. CASE FlushStarts
    BY <1>21 DEF FlushStarts, taskVars, historyVars, TypeOK, Sessions, Steps, States,
       SharedKnown, MarkedIsRegistered, MapsAgree, MapsFollow, Between, Agrees, InHand
  <1>22. CASE FlushEvicts
    BY <1>22 DEF FlushEvicts, Evict, taskVars, historyVars, TypeOK, Sessions, Steps, States,
       SharedKnown, MarkedIsRegistered, MapsAgree, MapsFollow, Between, Agrees, InHand
  <1>23. CASE FlushArchives
    BY <1>23 DEF FlushArchives, Archive, taskVars, historyVars, TypeOK, Sessions, Steps, States,
       SharedKnown, MarkedIsRegistered, MapsAgree, MapsFollow, Between, Agrees, InHand
  <1>24. CASE RunReturns
    BY <1>24 DEF RunReturns, taskVars, historyVars, TypeOK, Sessions, Steps, States,
       SharedKnown, MarkedIsRegistered, MapsAgree, MapsFollow, Between, Agrees, InHand
  <1>25. CASE UNCHANGED vars
    BY <1>25 DEF vars, taskVars, historyVars, TypeOK, Sessions, Steps, States, SharedKnown,
       MarkedIsRegistered, MapsAgree, MapsFollow, Between, Agrees, InHand
  <1> QED
    BY <1>1, <1>2, <1>3, <1>4, <1>5, <1>6, <1>7, <1>8, <1>9, <1>10, <1>11, <1>12, <1>13, <1>14,
       <1>15, <1>16, <1>17, <1>18, <1>19, <1>20, <1>21, <1>22, <1>23, <1>24, <1>25 DEF Next,
       Step, Sweep, Flush, Ended

LEMMA InitBlocked == Init => BlockedIsTaken
  BY DEF Init, BlockedIsTaken

LEMMA NextBlocked == TypeOK /\ BlockedIsTaken /\ [Next]_vars => BlockedIsTaken'
  <1> SUFFICES ASSUME TypeOK, BlockedIsTaken, [Next]_vars
               PROVE  BlockedIsTaken'
    OBVIOUS
  <1> USE SessionsAssumption
  <1>1. ASSUME NEW t \in Tasks, Check(t)
        PROVE  BlockedIsTaken'
    BY <1>1 DEF Check, Finish, Go, taskVars, historyVars, TypeOK, Sessions, Steps, States,
       BlockedIsTaken, InHand
  <1>2. ASSUME NEW t \in Tasks, Promote(t)
        PROVE  BlockedIsTaken'
    BY <1>2 DEF Promote, Go, taskVars, historyVars, TypeOK, Sessions, Steps, States,
       BlockedIsTaken, InHand
  <1>3. ASSUME NEW t \in Tasks, MarkWarm(t)
        PROVE  BlockedIsTaken'
    BY <1>3 DEF MarkWarm, Mark, Finish, Go, taskVars, historyVars, TypeOK, Sessions, Steps,
       States, BlockedIsTaken, InHand
  <1>4. ASSUME NEW t \in Tasks, Read(t)
        PROVE  BlockedIsTaken'
    BY <1>4 DEF Read, Go, taskVars, historyVars, TypeOK, Sessions, Steps, States,
       BlockedIsTaken, InHand
  <1>5. ASSUME NEW t \in Tasks, Record(t)
        PROVE  BlockedIsTaken'
    BY <1>5 DEF Record, Go, taskVars, historyVars, TypeOK, Sessions, Steps, States,
       BlockedIsTaken, InHand
  <1>6. ASSUME NEW t \in Tasks, Register(t)
        PROVE  BlockedIsTaken'
    BY <1>6 DEF Register, GetOrCreate, Go, taskVars, historyVars, TypeOK, Sessions, Steps,
       States, BlockedIsTaken, InHand
  <1>7. ASSUME NEW t \in Tasks, MarkNext(t)
        PROVE  BlockedIsTaken'
    BY <1>7 DEF MarkNext, Mark, Go, taskVars, historyVars, TypeOK, Sessions, Steps, States,
       BlockedIsTaken, InHand
  <1>8. ASSUME NEW t \in Tasks, ReadScope(t)
        PROVE  BlockedIsTaken'
    BY <1>8 DEF ReadScope, Narrows, AfterScope, Drops, Finish, Go, taskVars, historyVars,
       TypeOK, Sessions, Steps, States, BlockedIsTaken, InHand
  <1>9. ASSUME NEW t \in Tasks, WriteScope(t)
        PROVE  BlockedIsTaken'
    BY <1>9 DEF WriteScope, AfterScope, Drops, Finish, Go, taskVars, historyVars, TypeOK,
       Sessions, Steps, States, BlockedIsTaken, InHand
  <1>10. ASSUME NEW t \in Tasks, DropSession(t)
         PROVE  BlockedIsTaken'
    BY <1>10 DEF DropSession, Go, taskVars, historyVars, TypeOK, Sessions, Steps, States,
       BlockedIsTaken, InHand
  <1>11. ASSUME NEW t \in Tasks, EvictBlocked(t)
         PROVE  BlockedIsTaken'
    BY <1>11 DEF EvictBlocked, Evict, Finish, Go, taskVars, historyVars, TypeOK, Sessions,
       Steps, States, BlockedIsTaken, InHand
  <1>12. ASSUME NEW t \in Tasks, ArchiveBlocked(t)
         PROVE  BlockedIsTaken'
    BY <1>12 DEF ArchiveBlocked, Archive, Finish, Go, taskVars, historyVars, TypeOK, Sessions,
       Steps, States, BlockedIsTaken, InHand
  <1>13. ASSUME NEW t \in Tasks, Cancelled(t)
         PROVE  BlockedIsTaken'
    BY <1>13 DEF Cancelled, Finish, Go, taskVars, historyVars, TypeOK, Sessions, Steps, States,
       BlockedIsTaken, InHand
  <1>14. ASSUME NEW t \in Tasks, NEW sig \in Signals, Fetched(t, sig)
         PROVE  BlockedIsTaken'
    BY <1>14 DEF Fetched, Take, InHand, Go, taskVars, historyVars, TypeOK, Sessions, Steps,
       States, BlockedIsTaken
  <1>15. ASSUME NEW t \in Tasks, NEW s \in RenderSessions,
                 NEW sig \in Signals \cup {NoSignal}, Rendered(t, s, sig)
         PROVE  BlockedIsTaken'
    BY <1>15 DEF Rendered, Take, InHand, GetOrCreate, Go, taskVars, historyVars, TypeOK,
       Sessions, Steps, States, BlockedIsTaken
  <1>16. ASSUME NEW s \in Sessions, Age(s)
         PROVE  BlockedIsTaken'
    BY <1>16 DEF Age, taskVars, historyVars, TypeOK, Sessions, Steps, States, BlockedIsTaken,
       InHand
  <1>17. CASE SweepStarts
    BY <1>17 DEF SweepStarts, taskVars, historyVars, TypeOK, Sessions, Steps, States,
       BlockedIsTaken, InHand
  <1>18. CASE SweepDrops
    BY <1>18 DEF SweepDrops, taskVars, historyVars, TypeOK, Sessions, Steps, States,
       BlockedIsTaken, InHand
  <1>19. CASE SweepEvicts
    BY <1>19 DEF SweepEvicts, Evict, taskVars, historyVars, TypeOK, Sessions, Steps, States,
       BlockedIsTaken, InHand
  <1>20. CASE SweepArchives
    BY <1>20 DEF SweepArchives, Archive, taskVars, historyVars, TypeOK, Sessions, Steps, States,
       BlockedIsTaken, InHand
  <1>21. CASE FlushStarts
    BY <1>21 DEF FlushStarts, taskVars, historyVars, TypeOK, Sessions, Steps, States,
       BlockedIsTaken, InHand
  <1>22. CASE FlushEvicts
    BY <1>22 DEF FlushEvicts, Evict, taskVars, historyVars, TypeOK, Sessions, Steps, States,
       BlockedIsTaken, InHand
  <1>23. CASE FlushArchives
    BY <1>23 DEF FlushArchives, Archive, taskVars, historyVars, TypeOK, Sessions, Steps, States,
       BlockedIsTaken, InHand
  <1>24. CASE RunReturns
    BY <1>24 DEF RunReturns, taskVars, historyVars, TypeOK, Sessions, Steps, States,
       BlockedIsTaken, InHand
  <1>25. CASE UNCHANGED vars
    BY <1>25 DEF vars, taskVars, historyVars, TypeOK, Sessions, Steps, States, BlockedIsTaken,
       InHand
  <1> QED
    BY <1>1, <1>2, <1>3, <1>4, <1>5, <1>6, <1>7, <1>8, <1>9, <1>10, <1>11, <1>12, <1>13, <1>14,
       <1>15, <1>16, <1>17, <1>18, <1>19, <1>20, <1>21, <1>22, <1>23, <1>24, <1>25 DEF Next,
       Step, Sweep, Flush, Ended

(* Entries and their rows. *)

\* Once the run has ended there is no job, and what is registered is listed.
FlushFollows ==
    flush.at # "run" =>
        /\ \A t \in Tasks : at[t] = "idle"
        /\ \A s \in Sessions : registry[s] # "none" => s \in flush.todo
        /\ flush.at = "ended" => flush.todo = {} /\ sweep.at = "aborted"

LEMMA InitFlush == Init => FlushFollows
  BY DEF Init, FlushFollows

LEMMA NextFlush == TypeOK /\ FlushFollows /\ [Next]_vars => FlushFollows'
  <1> SUFFICES ASSUME TypeOK, FlushFollows, [Next]_vars
               PROVE  FlushFollows'
    OBVIOUS
  <1>1. ASSUME NEW t \in Tasks, Check(t)
        PROVE  FlushFollows'
    BY <1>1 DEF Check, Finish, Go, taskVars, historyVars, TypeOK, Sessions, Steps, States,
       FlushFollows
  <1>2. ASSUME NEW t \in Tasks, Promote(t)
        PROVE  FlushFollows'
    BY <1>2 DEF Promote, Go, taskVars, historyVars, TypeOK, Sessions, Steps, States,
       FlushFollows
  <1>3. ASSUME NEW t \in Tasks, MarkWarm(t)
        PROVE  FlushFollows'
    BY <1>3 DEF MarkWarm, Mark, Finish, Go, taskVars, historyVars, TypeOK, Sessions, Steps,
       States, FlushFollows
  <1>4. ASSUME NEW t \in Tasks, Read(t)
        PROVE  FlushFollows'
    BY <1>4 DEF Read, Go, taskVars, historyVars, TypeOK, Sessions, Steps, States, FlushFollows
  <1>5. ASSUME NEW t \in Tasks, Record(t)
        PROVE  FlushFollows'
    BY <1>5 DEF Record, Go, taskVars, historyVars, TypeOK, Sessions, Steps, States, FlushFollows
  <1>6. ASSUME NEW t \in Tasks, Register(t)
        PROVE  FlushFollows'
    BY <1>6 DEF Register, GetOrCreate, Go, taskVars, historyVars, TypeOK, Sessions, Steps,
       States, FlushFollows
  <1>7. ASSUME NEW t \in Tasks, MarkNext(t)
        PROVE  FlushFollows'
    BY <1>7 DEF MarkNext, Mark, Go, taskVars, historyVars, TypeOK, Sessions, Steps, States,
       FlushFollows
  <1>8. ASSUME NEW t \in Tasks, ReadScope(t)
        PROVE  FlushFollows'
    BY <1>8 DEF ReadScope, Narrows, AfterScope, Drops, Finish, Go, taskVars, historyVars,
       TypeOK, Sessions, Steps, States, FlushFollows
  <1>9. ASSUME NEW t \in Tasks, WriteScope(t)
        PROVE  FlushFollows'
    BY <1>9 DEF WriteScope, AfterScope, Drops, Finish, Go, taskVars, historyVars, TypeOK,
       Sessions, Steps, States, FlushFollows
  <1>10. ASSUME NEW t \in Tasks, DropSession(t)
         PROVE  FlushFollows'
    BY <1>10 DEF DropSession, Go, taskVars, historyVars, TypeOK, Sessions, Steps, States,
       FlushFollows
  <1>11. ASSUME NEW t \in Tasks, EvictBlocked(t)
         PROVE  FlushFollows'
    BY <1>11 DEF EvictBlocked, Evict, Finish, Go, taskVars, historyVars, TypeOK, Sessions,
       Steps, States, FlushFollows
  <1>12. ASSUME NEW t \in Tasks, ArchiveBlocked(t)
         PROVE  FlushFollows'
    BY <1>12 DEF ArchiveBlocked, Archive, Finish, Go, taskVars, historyVars, TypeOK, Sessions,
       Steps, States, FlushFollows
  <1>13. ASSUME NEW t \in Tasks, Cancelled(t)
         PROVE  FlushFollows'
    BY <1>13 DEF Cancelled, Finish, Go, taskVars, historyVars, TypeOK, Sessions, Steps, States,
       FlushFollows
  <1>14. ASSUME NEW t \in Tasks, NEW sig \in Signals, Fetched(t, sig)
         PROVE  FlushFollows'
    BY <1>14 DEF Fetched, Take, InHand, Go, taskVars, historyVars, TypeOK, Sessions, Steps,
       States, FlushFollows
  <1>15. ASSUME NEW t \in Tasks, NEW s \in RenderSessions,
                 NEW sig \in Signals \cup {NoSignal}, Rendered(t, s, sig)
         PROVE  FlushFollows'
    BY <1>15 DEF Rendered, Take, InHand, GetOrCreate, Go, taskVars, historyVars, TypeOK,
       Sessions, Steps, States, FlushFollows
  <1>16. ASSUME NEW s \in Sessions, Age(s)
         PROVE  FlushFollows'
    BY <1>16 DEF Age, taskVars, historyVars, TypeOK, Sessions, Steps, States, FlushFollows
  <1>17. CASE SweepStarts
    BY <1>17 DEF SweepStarts, taskVars, historyVars, TypeOK, Sessions, Steps, States,
       FlushFollows
  <1>18. CASE SweepDrops
    BY <1>18 DEF SweepDrops, taskVars, historyVars, TypeOK, Sessions, Steps, States,
       FlushFollows
  <1>19. CASE SweepEvicts
    BY <1>19 DEF SweepEvicts, Evict, taskVars, historyVars, TypeOK, Sessions, Steps, States,
       FlushFollows
  <1>20. CASE SweepArchives
    BY <1>20 DEF SweepArchives, Archive, taskVars, historyVars, TypeOK, Sessions, Steps, States,
       FlushFollows
  <1>21. CASE FlushStarts
    BY <1>21 DEF FlushStarts, taskVars, historyVars, TypeOK, Sessions, Steps, States,
       FlushFollows
  <1>22. CASE FlushEvicts
    BY <1>22 DEF FlushEvicts, Evict, taskVars, historyVars, TypeOK, Sessions, Steps, States,
       FlushFollows
  <1>23. CASE FlushArchives
    BY <1>23 DEF FlushArchives, Archive, taskVars, historyVars, TypeOK, Sessions, Steps, States,
       FlushFollows
  <1>24. CASE RunReturns
    BY <1>24 DEF RunReturns, taskVars, historyVars, TypeOK, Sessions, Steps, States,
       FlushFollows
  <1>25. CASE UNCHANGED vars
    BY <1>25 DEF vars, taskVars, historyVars, TypeOK, Sessions, Steps, States, FlushFollows
  <1> QED
    BY <1>1, <1>2, <1>3, <1>4, <1>5, <1>6, <1>7, <1>8, <1>9, <1>10, <1>11, <1>12, <1>13, <1>14,
       <1>15, <1>16, <1>17, <1>18, <1>19, <1>20, <1>21, <1>22, <1>23, <1>24, <1>25 DEF Next,
       Step, Sweep, Flush, Ended

JobsArchiving(s) == {t \in Tasks : at[t] = "archive" /\ session[t] = s}
Count(s) == Cardinality(JobsArchiving(s))

Balanced ==
    \A s \in Sessions :
        created[s] = archived[s] + lost[s] + Count(s)
                     + (IF sweep.at = "archive" /\ sweep.id = s THEN 1 ELSE 0)
                     + (IF flush.at = "archive" /\ flush.id = s THEN 1 ELSE 0)
                     + (IF registry[s] = "none" THEN 0 ELSE 1)

\* The set of jobs is finite, so what is counted is a number.
LEMMA CountType ==
    ASSUME NEW s
    PROVE  Count(s) \in Nat /\ IsFiniteSet(JobsArchiving(s))
  BY SessionsAssumption, FS_Subset, FS_CardinalityType DEF Count, JobsArchiving

LEMMA BalancedIsArchivedOnce == TypeOK /\ Balanced /\ FlushFollows => ArchivedOnce
  <1> SUFFICES ASSUME TypeOK, Balanced, FlushFollows, NEW s \in Sessions
               PROVE  /\ created[s] = archived[s] + lost[s] + Archiving(s)
                                      + (IF registry[s] = "none" THEN 0 ELSE 1)
                      /\ flush.at = "ended" => registry[s] = "none"
    BY DEF ArchivedOnce
  <1>1. flush.at = "ended" => registry[s] = "none"
    BY DEF FlushFollows
  <1>2. Archiving(s) = Count(s) + (IF sweep.at = "archive" /\ sweep.id = s THEN 1 ELSE 0)
                                + (IF flush.at = "archive" /\ flush.id = s THEN 1 ELSE 0)
    BY DEF Archiving, Count, JobsArchiving
  <1>3. /\ Count(s) \in Nat /\ created[s] \in Nat /\ archived[s] \in Nat /\ lost[s] \in Nat
        /\ flush.id \in Sessions \cup {None}
    BY CountType DEF TypeOK
  <1> QED
    BY <1>1, <1>2, <1>3 DEF Balanced

LEMMA KeepCount ==
    ASSUME NEW s, \A t \in Tasks : (at'[t] = "archive" /\ session'[t] = s)
                                   <=> (at[t] = "archive" /\ session[t] = s)
    PROVE  (Count(s))' = Count(s)
  <1>1. (JobsArchiving(s))' = JobsArchiving(s)
    BY DEF JobsArchiving
  <1> QED
    BY <1>1 DEF Count

LEMMA EnterCount ==
    ASSUME NEW s, NEW t \in Tasks, at[t] # "archive", at'[t] = "archive", session'[t] = s,
           \A u \in Tasks \ {t} : at'[u] = at[u] /\ session'[u] = session[u]
    PROVE  (Count(s))' = Count(s) + 1
  <1>1. (JobsArchiving(s))' = JobsArchiving(s) \cup {t}
    BY DEF JobsArchiving
  <1>2. t \notin JobsArchiving(s)
    BY DEF JobsArchiving
  <1> QED
    BY <1>1, <1>2, CountType, FS_AddElement, ZenonT(60) DEF Count

LEMMA LeaveCount ==
    ASSUME NEW s, NEW t \in Tasks, at[t] = "archive", session[t] = s, at'[t] # "archive",
           \A u \in Tasks \ {t} : at'[u] = at[u] /\ session'[u] = session[u]
    PROVE  (Count(s))' = Count(s) - 1
  <1>1. (JobsArchiving(s))' = JobsArchiving(s) \ {t}
    BY DEF JobsArchiving
  <1>2. t \in JobsArchiving(s)
    BY DEF JobsArchiving
  <1> QED
    BY <1>1, <1>2, CountType, FS_RemoveElement DEF Count

LEMMA InitBalanced == Init => Balanced
  <1> SUFFICES ASSUME Init, NEW s \in Sessions
               PROVE  Count(s) = 0
    BY DEF Init, Balanced
  <1>1. JobsArchiving(s) = {}
    BY DEF Init, JobsArchiving
  <1> QED
    BY <1>1, FS_EmptySet DEF Count

LEMMA NextBalanced == TypeOK /\ Balanced /\ [Next]_vars => Balanced'
  <1> SUFFICES ASSUME TypeOK, Balanced, [Next]_vars
               PROVE  Balanced'
    OBVIOUS
  <1> USE CountType
  <1>1. ASSUME NEW t \in Tasks, Check(t)
        PROVE  Balanced'
    <2>1. \A r \in Sessions : (Count(r))' = Count(r)
      BY <1>1, KeepCount DEF Check, Finish, Go, TypeOK, taskVars, historyVars
    <2> QED
      BY <1>1, <2>1 DEF Check, Finish, Go, Balanced, TypeOK, Sessions, States, taskVars,
         historyVars
  <1>2. ASSUME NEW t \in Tasks, Promote(t)
        PROVE  Balanced'
    <2>1. \A r \in Sessions : (Count(r))' = Count(r)
      BY <1>2, KeepCount DEF Promote, Go, TypeOK, taskVars, historyVars
    <2> QED
      BY <1>2, <2>1 DEF Promote, Go, Balanced, TypeOK, Sessions, States, taskVars, historyVars
  <1>3. ASSUME NEW t \in Tasks, MarkWarm(t)
        PROVE  Balanced'
    <2>1. \A r \in Sessions : (Count(r))' = Count(r)
      BY <1>3, KeepCount DEF MarkWarm, Mark, Finish, Go, TypeOK, taskVars, historyVars
    <2> QED
      BY <1>3, <2>1 DEF MarkWarm, Mark, Finish, Go, Balanced, TypeOK, Sessions, States,
         taskVars, historyVars
  <1>4. ASSUME NEW t \in Tasks, Read(t)
        PROVE  Balanced'
    <2>1. \A r \in Sessions : (Count(r))' = Count(r)
      BY <1>4, KeepCount DEF Read, Go, TypeOK, taskVars, historyVars
    <2> QED
      BY <1>4, <2>1 DEF Read, Go, Balanced, TypeOK, Sessions, States, taskVars, historyVars
  <1>5. ASSUME NEW t \in Tasks, Record(t)
        PROVE  Balanced'
    <2>1. \A r \in Sessions : (Count(r))' = Count(r)
      BY <1>5, KeepCount DEF Record, Go, TypeOK, taskVars, historyVars
    <2> QED
      BY <1>5, <2>1 DEF Record, Go, Balanced, TypeOK, Sessions, States, taskVars, historyVars
  <1>6. ASSUME NEW t \in Tasks, Register(t)
        PROVE  Balanced'
    <2>1. \A r \in Sessions : (Count(r))' = Count(r)
      BY <1>6, KeepCount DEF Register, Go, TypeOK, taskVars, historyVars
    <2> QED
      BY <1>6, <2>1 DEF Register, GetOrCreate, Go, Balanced, TypeOK, Sessions, States, taskVars,
         historyVars
  <1>7. ASSUME NEW t \in Tasks, MarkNext(t)
        PROVE  Balanced'
    <2>1. \A r \in Sessions : (Count(r))' = Count(r)
      BY <1>7, KeepCount DEF MarkNext, Mark, Go, TypeOK, taskVars, historyVars
    <2> QED
      BY <1>7, <2>1 DEF MarkNext, Mark, Go, Balanced, TypeOK, Sessions, States, taskVars,
         historyVars
  <1>8. ASSUME NEW t \in Tasks, ReadScope(t)
        PROVE  Balanced'
    <2>1. \A r \in Sessions : (Count(r))' = Count(r)
      BY <1>8, KeepCount DEF ReadScope, Narrows, AfterScope, Drops, Finish, Go, TypeOK,
         taskVars, historyVars
    <2> QED
      BY <1>8, <2>1 DEF ReadScope, Narrows, AfterScope, Drops, Finish, Go, Balanced, TypeOK,
         Sessions, States, taskVars, historyVars
  <1>9. ASSUME NEW t \in Tasks, WriteScope(t)
        PROVE  Balanced'
    <2>1. \A r \in Sessions : (Count(r))' = Count(r)
      BY <1>9, KeepCount DEF WriteScope, AfterScope, Drops, Finish, Go, TypeOK, taskVars,
         historyVars
    <2> QED
      BY <1>9, <2>1 DEF WriteScope, AfterScope, Drops, Finish, Go, Balanced, TypeOK, Sessions,
         States, taskVars, historyVars
  <1>10. ASSUME NEW t \in Tasks, DropSession(t)
         PROVE  Balanced'
    <2>1. \A r \in Sessions : (Count(r))' = Count(r)
      BY <1>10, KeepCount DEF DropSession, Go, TypeOK, taskVars, historyVars
    <2> QED
      BY <1>10, <2>1 DEF DropSession, Go, Balanced, TypeOK, Sessions, States, taskVars,
         historyVars
  <1>11. ASSUME NEW t \in Tasks, EvictBlocked(t)
         PROVE  Balanced'
    <2>1. session[t] \in Sessions
      BY DEF TypeOK
    <2>2. CASE registry[session[t]] = "none"
      <3>1. \A r \in Sessions : (Count(r))' = Count(r)
        BY <1>11, <2>2, KeepCount DEF EvictBlocked, Finish, Go, TypeOK
      <3> QED
        BY <1>11, <2>1, <2>2, <3>1 DEF EvictBlocked, Evict, Balanced, TypeOK
    <2>3. CASE registry[session[t]] # "none"
      <3>1. (Count(session[t]))' = Count(session[t]) + 1
        BY <1>11, <2>1, <2>3, EnterCount DEF EvictBlocked, Go, TypeOK
      <3>2. \A s \in Sessions \ {session[t]} : (Count(s))' = Count(s)
        BY <1>11, <2>3, KeepCount DEF EvictBlocked, Go, TypeOK
      <3> QED
        BY <1>11, <2>1, <2>3, <3>1, <3>2, CountType DEF EvictBlocked, Evict, Balanced, TypeOK
    <2> QED
      BY <2>2, <2>3
  <1>12. ASSUME NEW t \in Tasks, ArchiveBlocked(t)
         PROVE  Balanced'
    <2>1. PICK s \in Sessions : s = session[t]
      BY DEF TypeOK
    <2>2. (Count(s))' = Count(s) - 1
      BY <1>12, <2>1, LeaveCount DEF ArchiveBlocked, Finish, Go, TypeOK, Steps
    <2>3. \A r \in Sessions \ {s} : (Count(r))' = Count(r)
      BY <1>12, <2>1, KeepCount DEF ArchiveBlocked, Finish, Go, TypeOK
    <2> QED
      BY <1>12, <2>1, <2>2, <2>3, CountType DEF ArchiveBlocked, Archive, Balanced, TypeOK
  <1>13. ASSUME NEW t \in Tasks, Cancelled(t)
         PROVE  Balanced'
    <2>1. CASE at[t] = "archive"
      <3>1. PICK s \in Sessions : s = session[t]
        BY DEF TypeOK
      <3>2. (Count(s))' = Count(s) - 1
        BY <1>13, <2>1, <3>1, LeaveCount DEF Cancelled, Finish, Go, TypeOK, Steps
      <3>3. \A r \in Sessions \ {s} : (Count(r))' = Count(r)
        BY <1>13, <2>1, <3>1, KeepCount DEF Cancelled, Finish, Go, TypeOK
      <3> QED
        BY <1>13, <2>1, <3>1, <3>2, <3>3, CountType DEF Cancelled, Archive, Balanced, TypeOK
    <2>2. CASE at[t] # "archive"
      <3>1. \A r \in Sessions : (Count(r))' = Count(r)
        BY <1>13, <2>2, KeepCount DEF Cancelled, Finish, Go, TypeOK
      <3> QED
        BY <1>13, <2>2, <3>1 DEF Cancelled, Balanced, TypeOK
    <2> QED
      BY <2>1, <2>2
  <1>14. ASSUME NEW t \in Tasks, NEW sig \in Signals, Fetched(t, sig)
         PROVE  Balanced'
    <2>1. \A r \in Sessions : (Count(r))' = Count(r)
      BY <1>14, KeepCount DEF Fetched, Take, InHand, Go, TypeOK, taskVars, historyVars
    <2> QED
      BY <1>14, <2>1 DEF Fetched, Take, InHand, Go, Balanced, TypeOK, Sessions, States,
         taskVars, historyVars
  <1>15. ASSUME NEW t \in Tasks, NEW s \in RenderSessions,
                 NEW sig \in Signals \cup {NoSignal}, Rendered(t, s, sig)
         PROVE  Balanced'
    <2>1. \A r \in Sessions : (Count(r))' = Count(r)
      BY <1>15, KeepCount DEF Rendered, Take, InHand, Go, TypeOK, taskVars, historyVars
    <2> QED
      BY <1>15, <2>1 DEF Rendered, Take, InHand, GetOrCreate, Go, Balanced, TypeOK, Sessions,
         States, taskVars, historyVars
  <1>16. ASSUME NEW s \in Sessions, Age(s)
         PROVE  Balanced'
    <2>1. \A r \in Sessions : (Count(r))' = Count(r)
      BY <1>16, KeepCount DEF Age, TypeOK, taskVars, historyVars
    <2> QED
      BY <1>16, <2>1 DEF Age, Balanced, TypeOK, Sessions, States, taskVars, historyVars
  <1>17. CASE SweepStarts
    <2>1. \A r \in Sessions : (Count(r))' = Count(r)
      BY <1>17, KeepCount DEF SweepStarts, TypeOK, taskVars, historyVars
    <2> QED
      BY <1>17, <2>1 DEF SweepStarts, Balanced, TypeOK, Sessions, States, taskVars, historyVars
  <1>18. CASE SweepDrops
    <2>1. \A r \in Sessions : (Count(r))' = Count(r)
      BY <1>18, KeepCount DEF SweepDrops, TypeOK, taskVars, historyVars
    <2> QED
      BY <1>18, <2>1 DEF SweepDrops, Balanced, TypeOK, Sessions, States, taskVars, historyVars
  <1>19. CASE SweepEvicts
    <2>1. \A r \in Sessions : (Count(r))' = Count(r)
      BY <1>19, KeepCount DEF SweepEvicts, Evict, TypeOK, taskVars, historyVars
    <2> QED
      BY <1>19, <2>1 DEF SweepEvicts, Evict, Balanced, TypeOK, Sessions, States, taskVars,
         historyVars
  <1>20. CASE SweepArchives
    <2>1. \A r \in Sessions : (Count(r))' = Count(r)
      BY <1>20, KeepCount DEF SweepArchives, Archive, TypeOK, taskVars, historyVars
    <2> QED
      BY <1>20, <2>1, SMTT(40) DEF SweepArchives, Archive, Balanced, TypeOK, Sessions, States, taskVars,
         historyVars
  <1>21. CASE FlushStarts
    <2>1. \A r \in Sessions : (Count(r))' = Count(r)
      BY <1>21, KeepCount DEF FlushStarts, TypeOK, taskVars, historyVars
    <2> QED
      BY <1>21, <2>1 DEF FlushStarts, Balanced, TypeOK, Sessions, States, taskVars, historyVars
  <1>22. CASE FlushEvicts
    <2>1. \A r \in Sessions : (Count(r))' = Count(r)
      BY <1>22, KeepCount DEF FlushEvicts, Evict, TypeOK, taskVars, historyVars
    <2> QED
      BY <1>22, <2>1 DEF FlushEvicts, Evict, Balanced, TypeOK, Sessions, States, taskVars,
         historyVars
  <1>23. CASE FlushArchives
    <2>1. PICK i \in Sessions : i = flush.id
      BY <1>23 DEF FlushArchives, TypeOK
    <2>2. \A r \in Sessions : (Count(r))' = Count(r)
      BY <1>23, KeepCount DEF FlushArchives, taskVars
    <2>3. flush'.at = "next"
      BY <1>23 DEF FlushArchives, TypeOK
    <2>4. CASE archived' = [archived EXCEPT ![i] = @ + 1] /\ lost' = lost
      BY <1>23, <2>1, <2>2, <2>3, <2>4 DEF FlushArchives, Balanced, TypeOK
    <2>5. CASE lost' = [lost EXCEPT ![i] = @ + 1] /\ archived' = archived
      BY <1>23, <2>1, <2>2, <2>3, <2>5 DEF FlushArchives, Balanced, TypeOK
    <2> QED
      BY <1>23, <2>1, <2>4, <2>5 DEF FlushArchives, Archive
  <1>24. CASE RunReturns
    <2>1. \A r \in Sessions : (Count(r))' = Count(r)
      BY <1>24, KeepCount DEF RunReturns, TypeOK, taskVars, historyVars
    <2> QED
      BY <1>24, <2>1 DEF RunReturns, Balanced, TypeOK, Sessions, States, taskVars, historyVars
  <1>25. CASE UNCHANGED vars
    <2>1. \A r \in Sessions : (Count(r))' = Count(r)
      BY <1>25, KeepCount DEF vars, taskVars, historyVars, TypeOK, taskVars, historyVars
    <2> QED
      BY <1>25, <2>1 DEF vars, taskVars, historyVars, Balanced, TypeOK, Sessions, States,
         taskVars, historyVars
  <1> QED
    BY <1>1, <1>2, <1>3, <1>4, <1>5, <1>6, <1>7, <1>8, <1>9, <1>10, <1>11, <1>12, <1>13, <1>14,
       <1>15, <1>16, <1>17, <1>18, <1>19, <1>20, <1>21, <1>22, <1>23, <1>24, <1>25 DEF Next,
       Step, Sweep, Flush, Ended

(* What a step may do. *)

LEMMA StepStates ==
    TypeOK /\ ReadIsFresh /\ [Next]_vars =>
        \A s \in Sessions : Rank(states'[s]) < Rank(states[s]) => s \in shared
  <1> SUFFICES ASSUME TypeOK, ReadIsFresh, [Next]_vars, NEW s \in Sessions,
                      Rank(states'[s]) < Rank(states[s])
               PROVE  s \in shared
    OBVIOUS
  <1>0. Rank(states[s]) \in 0 .. 3 /\ states[s] \in States
    BY DEF TypeOK, Rank, States
  <1>1. states'[s] # states[s]
    BY <1>0
  <1>2. PICK t \in Tasks : Promote(t) \/ Record(t)
    BY <1>1 DEF Next, Step, Check, MarkWarm, Read, Register, MarkNext, ReadScope, WriteScope,
       DropSession, EvictBlocked, ArchiveBlocked, Cancelled, Fetched, Rendered, Take, Age,
       SweepStarts, Sweep, SweepDrops, SweepEvicts, SweepArchives, FlushStarts, Flush,
       FlushEvicts, FlushArchives, RunReturns, Ended, vars
  <1>3. s = session[t]
    BY <1>1, <1>2 DEF Promote, Record, TypeOK
  <1>4. CASE Promote(t)
    BY <1>0, <1>3, <1>4 DEF Promote, ReadIsFresh, TypeOK, Rank
  <1>5. CASE Record(t)
    <2>1. states'[s] = Decision(signal[t], seen[t]) /\ seen[t] \in States
      BY <1>3, <1>5 DEF Record, TypeOK
    <2>2. Rank(states'[s]) >= Rank(seen[t])
      BY <2>1, DecisionRises
    <2>3. seen[t] # states[s]
      BY <1>0, <2>1, <2>2, DecisionRises DEF Rank, States
    <2> QED
      BY <1>3, <1>5, <2>3 DEF Record, ReadIsFresh
  <1> QED
    BY <1>2, <1>4, <1>5

LEMMA StepScope ==
    TypeOK /\ [Next]_vars =>
        (scope' > scope => \E t \in Tasks : at[t] = "narrow" /\ scopeSeen[t] # scope)
  <1> SUFFICES ASSUME TypeOK, [Next]_vars, scope' > scope
               PROVE  \E t \in Tasks : at[t] = "narrow" /\ scopeSeen[t] # scope
    OBVIOUS
  <1>1. scope' # scope
    BY DEF TypeOK
  <1>2. PICK t \in Tasks : WriteScope(t)
    BY <1>1 DEF Next, Step, Check, Promote, MarkWarm, Read, Record, Register, MarkNext,
       ReadScope, DropSession, EvictBlocked, ArchiveBlocked, Cancelled, Fetched, Rendered, Take,
       Age, SweepStarts, Sweep, SweepDrops, SweepEvicts, SweepArchives, FlushStarts, Flush,
       FlushEvicts, FlushArchives, RunReturns, Ended, vars
  <1>3. scope' = NarrowTo(scopeSeen[t], signal[t].level) /\ scopeSeen[t] \in 0 .. 3
    BY <1>2 DEF WriteScope, TypeOK
  <1>4. scope' <= scopeSeen[t] /\ scope' \in 0 .. 3
    BY <1>3, Narrowing
  <1>5. scopeSeen[t] # scope
    BY <1>4 DEF TypeOK
  <1> QED
    BY <1>2, <1>5 DEF WriteScope

(* Theorems. *)

IInv ==
    /\ TypeOK
    /\ SharedKnown /\ ReadIsFresh /\ MarkedIsRegistered
    /\ MapsAgree /\ MapsFollow
    /\ BlockedIsTaken
    /\ FlushFollows /\ Balanced

LEMMA Inductive == Spec => []IInv
  <1>1. Init => IInv
    BY InitType, InitJobs, InitMaps, InitBlocked, InitFlush, InitBalanced DEF IInv
  <1>2. IInv /\ [Next]_vars => IInv'
    BY NextType, NextSharedKnown, NextReadIsFresh, NextMarkedIsRegistered, NextMaps,
       NextBlocked, NextFlush, NextBalanced DEF IInv
  <1> QED
    BY <1>1, <1>2, PTL DEF Spec

\* No entry is archived twice or forgotten, whoever is after it: the sweep, a
\* block or the end of the run.
THEOREM EntriesArchivedOnce == Spec => []ArchivedOnce
  <1>1. IInv => ArchivedOnce
    BY BalancedIsArchivedOnce DEF IInv
  <1> QED
    BY <1>1, Inductive, PTL

\* The registry and session_states agree, except where jobs raced or the entry
\* left the registry.
THEOREM MapsStayEqual == Spec => []MapsAgree
  <1>1. IInv => MapsAgree
    BY DEF IInv
  <1> QED
    BY <1>1, Inductive, PTL

\* A blocked entry is always some job's to evict, unless that job was cancelled.
THEOREM BlockedHasOwner == Spec => []BlockedIsTaken
  <1>1. IInv => BlockedIsTaken
    BY DEF IInv
  <1> QED
    BY <1>1, Inductive, PTL

\* The state of a session nobody shares never becomes milder.
THEOREM StatesRise == Spec => StateOnlyRises
  <1>1. IInv /\ [Next]_vars =>
          [\A s \in Sessions : Rank(states'[s]) < Rank(states[s]) => s \in shared]_states
    BY StepStates DEF IInv
  <1> QED
    BY <1>1, Inductive, PTL DEF Spec, StateOnlyRises

\* The scope only narrows, except under a job that read it too early.
THEOREM ScopeNarrows == Spec => ScopeOnlyNarrows
  <1>1. IInv /\ [Next]_vars =>
          [scope' > scope => \E t \in Tasks : at[t] = "narrow" /\ scopeSeen[t] # scope]_scope
    BY StepScope DEF IInv
  <1> QED
    BY <1>1, Inductive, PTL DEF Spec, ScopeOnlyNarrows

(* The end of a blocked entry. *)

\* Job t is on its way to evict the blocked session s.
Owes(t, s) == registry[s] = "blocked" /\ InHand(t, s) /\ next[t] = "blocked"
OwesAt(t, s, step) == Owes(t, s) /\ at[t] = step

MustEvict(t, s) == Owes(t, s) /\ at[t] \in {"scope", "narrow", "drop", "evict"}

Gone(s) == registry[s] # "blocked" \/ s \in cut

\* Where a job that owes an eviction is after the next step of anybody,
NextAt(step) ==
    CASE step = "scope"  -> {"scope", "narrow", "drop"}
      [] step = "narrow" -> {"narrow", "drop"}
      [] step = "drop"   -> {"drop", "evict"}
      [] step = "evict"  -> {"evict"}

LEMMA OthersWait ==
  ASSUME TypeOK, NEW t \in Tasks, [Next]_vars, ~Step(t), ~Cancelled(t), at[t] # "idle"
  PROVE  at'[t] = at[t] /\ session'[t] = session[t] /\ next'[t] = next[t]
  <1> DEFINE Same == at'[t] = at[t] /\ session'[t] = session[t] /\ next'[t] = next[t]
  <1> USE DEF TypeOK
  <1>1. ASSUME NEW u \in Tasks, u # t, Step(u) PROVE Same
    <2>1. CASE Check(u) \/ Promote(u) \/ MarkWarm(u) \/ Read(u) \/ Record(u) \/ Register(u)
               \/ MarkNext(u) \/ DropSession(u) \/ ArchiveBlocked(u)
      BY <1>1, <2>1 DEF Check, Promote, MarkWarm, Read, Record, Register, MarkNext, DropSession,
                        ArchiveBlocked, Finish, Go
    <2>2. CASE ReadScope(u) \/ WriteScope(u) \/ EvictBlocked(u)
      BY <1>1, <2>2 DEF ReadScope, WriteScope, EvictBlocked, AfterScope, Finish, Go
    <2> QED
      BY <1>1, <2>1, <2>2 DEF Step
  <1>2. ASSUME NEW u \in Tasks, u # t, Cancelled(u) PROVE Same
    BY <1>2 DEF Cancelled, Finish, Go
  <1>3. ASSUME NEW u \in Tasks, NEW sig \in Signals, Fetched(u, sig) PROVE Same
    BY <1>3 DEF Fetched, Take, Go
  <1>4. ASSUME NEW u \in Tasks, NEW s \in RenderSessions, NEW sig \in Signals \cup {NoSignal},
               Rendered(u, s, sig)
        PROVE  Same
    BY <1>4 DEF Rendered, Take, Go
  <1>5. CASE UNCHANGED vars \/ SweepStarts \/ Sweep \/ FlushStarts \/ Flush
             \/ \E s \in Sessions : Age(s)
    BY <1>5 DEF vars, taskVars, SweepStarts, Sweep, SweepDrops, SweepEvicts, SweepArchives,
                FlushStarts, Flush, FlushEvicts, FlushArchives, RunReturns, Age
  <1> QED
    BY <1>1, <1>2, <1>3, <1>4, <1>5 DEF Next, Ended

LEMMA OwesStep ==
  ASSUME TypeOK, DropOnBlock, NEW t \in Tasks, NEW s \in Sessions,
         NEW step \in {"scope", "narrow", "drop", "evict"}, OwesAt(t, s, step), [Next]_vars
  PROVE  /\ Gone(s)' \/ \E n \in NextAt(step) : OwesAt(t, s, n)'
         /\ Step(t) => Gone(s)' \/ \E n \in NextAt(step) \ {step} : OwesAt(t, s, n)'
  <1> USE DEF OwesAt, Owes, InHand, Gone, NextAt
  <1>1. CASE ~Step(t) /\ ~Cancelled(t)
    BY <1>1, OthersWait
  <1>2. CASE Cancelled(t)
    <2>1. at[t] = "drop" /\ s \in cut' /\ ~Step(t)
      BY <1>2 DEF Cancelled, TypeOK, Step, Check, Promote, MarkWarm, Read, Record, Register,
                  MarkNext, ReadScope, WriteScope, DropSession, EvictBlocked, ArchiveBlocked, vars,
                  taskVars, historyVars
    <2> QED
      BY <2>1
  <1>3. CASE Step(t)
    <2>1. CASE step = "scope"
      <3>1. ReadScope(t)
        BY <1>3, <2>1 DEF Step, Check, Promote, MarkWarm, Read, Record, Register, MarkNext,
                          WriteScope, DropSession, EvictBlocked, ArchiveBlocked
      <3>2. at'[t] \in {"narrow", "drop"} /\ session'[t] = session[t] /\ next'[t] = next[t]
        BY <3>1 DEF ReadScope, AfterScope, Drops, Go, TypeOK
      <3> QED
        BY <2>1, <3>2
    <2>2. CASE step = "narrow"
      <3>1. WriteScope(t)
        BY <1>3, <2>2 DEF Step, Check, Promote, MarkWarm, Read, Record, Register, MarkNext,
                          ReadScope, DropSession, EvictBlocked, ArchiveBlocked
      <3>2. at'[t] = "drop" /\ session'[t] = session[t] /\ next'[t] = next[t]
        BY <3>1 DEF WriteScope, AfterScope, Drops, Go, TypeOK
      <3> QED
        BY <2>2, <3>2
    <2>3. CASE step = "drop"
      <3>1. DropSession(t)
        BY <1>3, <2>3 DEF Step, Check, Promote, MarkWarm, Read, Record, Register, MarkNext,
                          ReadScope, WriteScope, EvictBlocked, ArchiveBlocked
      <3>2. at'[t] = "evict" /\ session'[t] = session[t] /\ next'[t] = next[t]
        BY <3>1 DEF DropSession, Go, TypeOK
      <3> QED
        BY <2>3, <3>2
    <2>4. CASE step = "evict"
      <3>1. EvictBlocked(t)
        BY <1>3, <2>4 DEF Step, Check, Promote, MarkWarm, Read, Record, Register, MarkNext,
                          ReadScope, WriteScope, DropSession, ArchiveBlocked
      <3>2. registry'[s] = "none"
        BY <3>1 DEF EvictBlocked, Evict, TypeOK
      <3> QED
        BY <3>2
    <2> QED
      BY <2>1, <2>2, <2>3, <2>4
  <1> QED
    BY <1>1, <1>2, <1>3

LEMMA StepIsNext == ASSUME NEW t \in Tasks, Step(t) PROVE [Next]_vars
  BY DEF Next

\* One job, step by step: each holds until the job moves on, and the job runs.
LEMMA OneJobEvicts ==
  ASSUME NEW s \in Sessions, NEW t \in Tasks, DropOnBlock
  PROVE  FairSpec /\ []JobsGoOn =>
           (MustEvict(t, s) ~> Gone(s))
  <1> DEFINE A == OwesAt(t, s, "scope")
             B == OwesAt(t, s, "narrow")
             C == OwesAt(t, s, "drop")
             D == OwesAt(t, s, "evict")
             G == Gone(s)
  <1>1. TypeOK /\ A /\ [Next]_vars => A' \/ B' \/ C' \/ G'
    BY OwesStep DEF NextAt
  <1>2. TypeOK /\ A /\ <<Step(t)>>_vars => B' \/ C' \/ G'
    BY OwesStep, StepIsNext DEF NextAt
  <1>3. TypeOK /\ B /\ [Next]_vars => B' \/ C' \/ G'
    BY OwesStep DEF NextAt
  <1>4. TypeOK /\ B /\ <<Step(t)>>_vars => C' \/ G'
    BY OwesStep, StepIsNext DEF NextAt
  <1>5. TypeOK /\ C /\ [Next]_vars => C' \/ D' \/ G'
    BY OwesStep DEF NextAt
  <1>6. TypeOK /\ C /\ <<Step(t)>>_vars => D' \/ G'
    BY OwesStep, StepIsNext DEF NextAt
  <1>7. TypeOK /\ D /\ [Next]_vars => D' \/ G'
    BY OwesStep DEF NextAt
  <1>8. TypeOK /\ D /\ <<Step(t)>>_vars => G'
    BY OwesStep, StepIsNext DEF NextAt
  <1>9. FairSpec => JobsRun
    BY PTL DEF FairSpec, Fairness
  <1>10. JobsGoOn /\ (A \/ B \/ C \/ D) => ENABLED <<Step(t)>>_vars
    BY DEF JobsGoOn, OwesAt, Owes, InHand
  <1>11. JobsRun => Runs(t)
    BY DEF JobsRun
  <1>12. MustEvict(t, s) => A \/ B \/ C \/ D
    BY DEF MustEvict, OwesAt
  <1> QED
    BY <1>1, <1>2, <1>3, <1>4, <1>5, <1>6, <1>7, <1>8, <1>9, <1>10, <1>11, <1>12,
       TypeCorrect, PTL DEF FairSpec, Spec, Runs

\* Some job owes the eviction, or it was cut.
LEMMA BlockedSessionLeaves ==
  ASSUME DropOnBlock, NEW s \in Sessions
  PROVE  FairSpec /\ []JobsGoOn =>
           (registry[s] = "blocked" ~> registry[s] # "blocked" \/ s \in cut)
  <1>1. ASSUME NEW t \in Tasks
        PROVE  FairSpec /\ []JobsGoOn => [](MustEvict(t, s) => <>Gone(s))
    <2>1. FairSpec /\ []JobsGoOn => (MustEvict(t, s) ~> Gone(s))
      BY <1>1, OneJobEvicts
    <2> QED
      BY <2>1, PTL
  <1>2. FairSpec /\ []JobsGoOn => \A t \in Tasks : [](MustEvict(t, s) => <>Gone(s))
    BY <1>1
  <1>3. (\A t \in Tasks : [](MustEvict(t, s) => <>Gone(s)))
          => [](\A t \in Tasks : (MustEvict(t, s) => <>Gone(s)))
    OBVIOUS
  <1>4. (\A t \in Tasks : (MustEvict(t, s) => <>Gone(s)))
          => ((\E t \in Tasks : MustEvict(t, s)) => <>Gone(s))
    OBVIOUS
  <1>5. [](\A t \in Tasks : (MustEvict(t, s) => <>Gone(s)))
          => []((\E t \in Tasks : MustEvict(t, s)) => <>Gone(s))
    BY <1>4, PTL
  <1>6. BlockedIsTaken /\ registry[s] = "blocked" => (\E t \in Tasks : MustEvict(t, s)) \/ Gone(s)
    BY DEF BlockedIsTaken, MustEvict, Owes, Gone
  <1>7. Gone(s) => registry[s] # "blocked" \/ s \in cut
    BY DEF Gone
  <1> QED
    BY <1>2, <1>3, <1>5, <1>6, <1>7, BlockedHasOwner, PTL DEF FairSpec

\* A blocked entry leaves the registry, if jobs keep running and none is stuck.
THEOREM BlockedLeaves == FairSpec /\ []JobsGoOn => BlockedIsEvicted
  <1>1. ASSUME DropOnBlock, NEW s \in Sessions
        PROVE  FairSpec /\ []JobsGoOn =>
                 (registry[s] = "blocked" ~> registry[s] # "blocked" \/ s \in cut)
    BY <1>1, BlockedSessionLeaves
  <1>2. FairSpec /\ []JobsGoOn =>
          (DropOnBlock => \A s \in Sessions :
             (registry[s] = "blocked" ~> registry[s] # "blocked" \/ s \in cut))
    BY <1>1
  <1> QED
    BY <1>2 DEF BlockedIsEvicted
====
