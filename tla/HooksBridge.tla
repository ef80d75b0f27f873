---- MODULE HooksBridge ----
(***************************************************************************)
(* The hook bridge: invocations and the pump of src/hooks/bridge.rs, the   *)
(* two pipes of --hook-bridge stdio, and the reading loop and dispatcher   *)
(* of sdk/crawlex-sdk.js at their other end.  The stdout pipe also carries *)
(* the events of the run, which the SDK hands to its consumer one by one.  *)
(***************************************************************************)
EXTENDS Integers, Sequences, FiniteSets

CONSTANTS
    Jobs,           \* tasks that fire hooks
    Events,
    Handled,        \* the events the SDK has a handler for
    Pipe,           \* lines the stdout pipe holds
    CALLS,          \* bound: invocations
    EMITS,          \* bound: events of the run
    FAULTS          \* bound: bad replies, cancelled jobs, the end of the SDK

ASSUME BridgeAssumption ==
    /\ Handled \subseteq Events
    /\ Pipe \in Nat \ {0}
    /\ {CALLS, EMITS, FAULTS} \subseteq Nat

VARIABLES
    at,         \* at[j]: where the invocation of job j is
    call,       \* call[j]: its id, its job and its event
    reply,      \* reply[j]: the call its oneshot holds the answer to
    nextId,
    pending,    \* pending[i]: the job with the oneshot under id i
    subscribed,
    pump,       \* "running" or "stopped"
    out,        \* stdout of the crawler, oldest line first
    inp,        \* its stdin
    sdk,        \* "reading", "yielding" to the consumer, or "ended"
    running,    \* the calls handlers are under way for
    emits, faults,
    late,       \* history: ids of invocations that timed out
    left,       \* ids of invocations that ended without a look at the map
    dropped     \* ids of replies that found no entry

jobVars == <<at, call, reply>>
adapterVars == <<nextId, pending, subscribed, pump>>
pipeVars == <<out, inp>>
sdkVars == <<sdk, running>>
boundVars == <<emits, faults>>
historyVars == <<late, left, dropped>>
vars == <<jobVars, adapterVars, pipeVars, sdkVars, boundVars, historyVars>>

None == "none"
NoCall == [id |-> 0, job |-> None, event |-> None]
Line(kind, c) == [kind |-> kind, call |-> c]
Bare(kind) == Line(kind, NoCall)

\* The handshake is written, the pump runs, no subscription is known.
Init ==
    /\ at = [j \in Jobs |-> "idle"]
    /\ call = [j \in Jobs |-> NoCall]
    /\ reply = [j \in Jobs |-> NoCall]
    /\ nextId = 1
    /\ pending = [i \in {} |-> None]
    /\ subscribed = {}
    /\ pump = "running"
    /\ out = <<Bare("hello")>>
    /\ inp = <<>>
    /\ sdk = "reading"
    /\ running = {}
    /\ emits = 0
    /\ faults = 0
    /\ late = {}
    /\ left = {}
    /\ dropped = {}

(* invoke. *)

Without(i) == [k \in DOMAIN pending \ {i} |-> pending[k]]
With(i, j) == [k \in DOMAIN pending \cup {i} |-> IF k = i THEN j ELSE pending[k]]

Finish(j) ==
    /\ at' = [at EXCEPT ![j] = "idle"]
    /\ call' = [call EXCEPT ![j] = NoCall]
    /\ reply' = [reply EXCEPT ![j] = NoCall]

\* Mutant of Invoke: the id is read and not advanced.
InvokeSameId(j, e) ==
    /\ at[j] = "idle"
    /\ nextId <= CALLS
    /\ e \in subscribed
    /\ pending' = With(nextId, j)
    /\ call' = [call EXCEPT ![j] = [id |-> nextId, job |-> j, event |-> e]]
    /\ at' = [at EXCEPT ![j] = "send"]
    /\ UNCHANGED <<reply, nextId, subscribed, pump, pipeVars, sdkVars, boundVars, historyVars>>

\* An event nobody subscribed to is over at once; that changes nothing.
Invoke(j, e) ==
    /\ at[j] = "idle"
    /\ nextId <= CALLS
    /\ e \in subscribed
    /\ nextId' = nextId + 1
    /\ pending' = With(nextId, j)
    /\ call' = [call EXCEPT ![j] = [id |-> nextId, job |-> j, event |-> e]]
    /\ at' = [at EXCEPT ![j] = "send"]
    /\ UNCHANGED <<reply, subscribed, pump, pipeVars, sdkVars, boundVars, historyVars>>

\* The line is written and flushed; while the pipe is full, no timeout runs.
Send(j) ==
    /\ at[j] = "send"
    /\ sdk # "ended"
    /\ Len(out) < Pipe
    /\ out' = Append(out, Line("invoke", call[j]))
    /\ at' = [at EXCEPT ![j] = "wait"]
    /\ UNCHANGED <<call, reply, adapterVars, inp, sdkVars, boundVars, historyVars>>

\* Nobody reads the pipe any more.  The error leaves the entry in the map.
SendFails(j) ==
    /\ at[j] = "send"
    /\ sdk = "ended"
    /\ left' = left \cup {call[j].id}
    /\ Finish(j)
    /\ UNCHANGED <<adapterVars, pipeVars, sdkVars, boundVars, late, dropped>>

\* job_max_runtime_secs drops the job at an await, and with it the invocation.
Cancelled(j) ==
    /\ at[j] \in {"send", "wait"}
    /\ faults < FAULTS
    /\ faults' = faults + 1
    /\ left' = left \cup {call[j].id}
    /\ Finish(j)
    /\ UNCHANGED <<adapterVars, pipeVars, sdkVars, emits, late, dropped>>

\* The decision is returned and the patch applied.
Answer(j) ==
    /\ at[j] = "wait"
    /\ reply[j] # NoCall
    /\ Finish(j)
    /\ UNCHANGED <<adapterVars, pipeVars, sdkVars, boundVars, historyVars>>

\* Mutant of TimesOut: the wait starts again.
TimesOutAgain(j) ==
    /\ at[j] = "wait"
    /\ reply[j] = NoCall
    /\ UNCHANGED vars

\* The receiver is gone from here on; the entry is removed in the next step.
TimesOut(j) ==
    /\ at[j] = "wait"
    /\ reply[j] = NoCall
    /\ late' = late \cup {call[j].id}
    /\ at' = [at EXCEPT ![j] = "forget"]
    /\ UNCHANGED <<call, reply, adapterVars, pipeVars, sdkVars, boundVars, left, dropped>>

\* Mutant of Forget: the entry stays.
ForgetNothing(j) ==
    /\ at[j] = "forget"
    /\ Finish(j)
    /\ UNCHANGED <<adapterVars, pipeVars, sdkVars, boundVars, historyVars>>

\* Mutant of Forget: the map is cleared.
ForgetAll(j) ==
    /\ at[j] = "forget"
    /\ pending' = [i \in {} |-> None]
    /\ Finish(j)
    /\ UNCHANGED <<nextId, subscribed, pump, pipeVars, sdkVars, boundVars, historyVars>>

Forget(j) ==
    /\ at[j] = "forget"
    /\ pending' = Without(call[j].id)
    /\ Finish(j)
    /\ UNCHANGED <<nextId, subscribed, pump, pipeVars, sdkVars, boundVars, historyVars>>

(* pump_once and the task that repeats it. *)

Takes(kind) ==
    /\ pump = "running"
    /\ inp # <<>>
    /\ Head(inp).kind = kind
    /\ inp' = Tail(inp)

TakesSubscription ==
    /\ Takes("subscribe")
    /\ subscribed' = Handled
    /\ UNCHANGED <<jobVars, nextId, pending, pump, out, sdkVars, boundVars, historyVars>>

\* A oneshot without a receiver drops what it is sent.
TakesReply ==
    /\ Takes("result")
    /\ LET c == Head(inp).call
       IN  IF c.id \in DOMAIN pending
           THEN /\ pending' = Without(c.id)
                /\ reply' = [j \in Jobs |->
                               IF /\ j = pending[c.id]
                                  /\ call[j].id = c.id
                                  /\ at[j] \in {"send", "wait"}
                               THEN c ELSE reply[j]]
                /\ UNCHANGED dropped
           ELSE dropped' = dropped \cup {c.id} /\ UNCHANGED <<pending, reply>>
    /\ UNCHANGED <<at, call, nextId, subscribed, pump, out, sdkVars, boundVars, late, left>>

\* The first error ends the task.
PumpStops ==
    /\ Takes("malformed") \/ Takes("end")
    /\ pump' = "stopped"
    /\ UNCHANGED <<jobVars, nextId, pending, subscribed, out, sdkVars, boundVars, historyVars>>

(* The run's own events, on the same pipe. *)

Emit ==
    /\ emits < EMITS
    /\ sdk # "ended"
    /\ Len(out) < Pipe
    /\ emits' = emits + 1
    /\ out' = Append(out, Bare("event"))
    /\ UNCHANGED <<jobVars, adapterVars, inp, sdkVars, faults, historyVars>>

(* The SDK. *)

Reads(kind) ==
    /\ sdk = "reading"
    /\ out # <<>>
    /\ Head(out).kind = kind
    /\ out' = Tail(out)

\* The subscription goes out when the hello comes in.
ReadsHello ==
    /\ Reads("hello")
    /\ inp' = Append(inp, Bare("subscribe"))
    /\ UNCHANGED <<jobVars, adapterVars, sdkVars, boundVars, historyVars>>

\* The handler runs on its own while the loop goes on.
ReadsInvocation ==
    /\ Reads("invoke")
    /\ running' = running \cup {Head(out).call}
    /\ UNCHANGED <<jobVars, adapterVars, inp, sdk, boundVars, historyVars>>

\* The generator stops at the yield until its consumer asks for more.
ReadsEvent ==
    /\ Reads("event")
    /\ sdk' = "yielding"
    /\ UNCHANGED <<jobVars, adapterVars, inp, running, boundVars, historyVars>>

ConsumerPulls ==
    /\ sdk = "yielding"
    /\ sdk' = "reading"
    /\ UNCHANGED <<jobVars, adapterVars, pipeVars, running, boundVars, historyVars>>

\* It returns or throws: either way there is a reply.
HandlerEnds(c) ==
    /\ c \in running
    /\ running' = running \ {c}
    /\ inp' = Append(inp, Line("result", c))
    /\ UNCHANGED <<jobVars, adapterVars, out, sdk, boundVars, historyVars>>

\* Its patch has a field of another type than the crawler expects.
HandlerMisreplies(c) ==
    /\ faults < FAULTS
    /\ faults' = faults + 1
    /\ c \in running
    /\ running' = running \ {c}
    /\ inp' = Append(inp, Bare("malformed"))
    /\ UNCHANGED <<jobVars, adapterVars, out, sdk, emits, historyVars>>

\* The SDK's process ends, with it the reader of out and the writer of inp.
SdkEnds ==
    /\ faults < FAULTS
    /\ faults' = faults + 1
    /\ sdk # "ended"
    /\ sdk' = "ended"
    /\ running' = {}
    /\ inp' = Append(inp, Bare("end"))
    /\ UNCHANGED <<jobVars, adapterVars, out, emits, historyVars>>

\* Every call is made and over.
Done ==
    /\ at = [j \in Jobs |-> "idle"]
    /\ running = {}
    /\ inp = <<>> \/ pump = "stopped"
    /\ out = <<>> \/ sdk = "ended"
    /\ UNCHANGED vars

Job(j) == Send(j) \/ SendFails(j) \/ Answer(j) \/ TimesOut(j) \/ Forget(j)
Pump == TakesSubscription \/ TakesReply \/ PumpStops
Reader == ReadsHello \/ ReadsInvocation \/ ReadsEvent
Handler(c) == HandlerEnds(c) \/ HandlerMisreplies(c)

Next ==
    \/ \E j \in Jobs : Job(j) \/ Cancelled(j) \/ \E e \in Events : Invoke(j, e)
    \/ Pump \/ Emit \/ Reader \/ ConsumerPulls
    \/ \E c \in running : Handler(c)
    \/ SdkEnds
    \/ Done

Spec == Init /\ [][Next]_vars

\* Tasks are scheduled, the loop of the SDK reads and its consumer keeps asking.
\* Neither handlers nor the pump need to get anywhere.
Fairness ==
    /\ \A j \in Jobs : WF_vars(Job(j))
    /\ WF_vars(Reader)
    /\ WF_vars(ConsumerPulls)

FairSpec == Spec /\ Fairness

(***************************************************************************)
(* Properties.                                                             *)
(***************************************************************************)

Call == [id : Nat, job : Jobs \cup {None}, event : Events \cup {None}]

TypeOK ==
    /\ at \in [Jobs -> {"idle", "send", "wait", "forget"}]
    /\ call \in [Jobs -> Call]
    /\ reply \in [Jobs -> Call]
    /\ \A j \in Jobs : at[j] = "idle" <=> call[j] = NoCall
    /\ \A j \in Jobs : reply[j] # NoCall => at[j] \in {"send", "wait"}
    /\ nextId \in 1 .. CALLS + 1
    /\ DOMAIN pending \subseteq 1 .. nextId - 1
    /\ \A i \in DOMAIN pending : pending[i] \in Jobs
    /\ subscribed \in {{}, Handled}
    /\ pump \in {"running", "stopped"}
    /\ out \in Seq([kind : {"hello", "event", "invoke"}, call : Call])
    /\ Len(out) <= Pipe
    /\ inp \in Seq([kind : {"subscribe", "result", "malformed", "end"}, call : Call])
    /\ sdk \in {"reading", "yielding", "ended"}
    /\ running \subseteq Call
    /\ emits \in 0 .. EMITS
    /\ faults \in 0 .. FAULTS
    /\ late \cup left \cup dropped \subseteq 1 .. nextId - 1

\* An invocation gets the decision and the patch its own event was answered
\* with, whatever the order replies come in and however late they are (ids).
AnswersItsOwn == \A j \in Jobs : reply[j] \in {NoCall, call[j]}

\* An entry of the map belongs to an invocation under way, or to one that was
\* cancelled or could not be sent, and an invocation that waits has an entry (insert and remove).
PendingIsAwaited ==
    /\ \A i \in DOMAIN pending :
         i \in left \/ (call[pending[i]].id = i /\ reply[pending[i]] = NoCall)
    /\ \A j \in Jobs : at[j] = "wait" /\ reply[j] = NoCall => call[j].id \in DOMAIN pending

\* A reply is thrown away only if its invocation timed out (the debug line of
\* pump_once).
OnlyLateDropped == dropped \subseteq late

\* Every invocation ends: answered, failed or timed out, with the SDK gone, a
\* handler that hangs or a pump that stopped (the budget of invoke).
InvocationEnds == \A j \in Jobs : at[j] # "idle" ~> at[j] = "idle"
====
