---- MODULE HooksBridgeProofs ----
(***************************************************************************)
(* Proofs about HooksBridge, for any number of jobs and events: types,     *)
(* replies that reach their own invocation, a map without stray entries,   *)
(* that only late replies are thrown away, and that a call goes one way.   *)
(***************************************************************************)
EXTENDS HooksBridge, TLAPS

(* Lines of a pipe. *)

CallsIn(s, kind) == {s[n].call : n \in {m \in 1 .. Len(s) : s[m].kind = kind}}

UniqueIn(s, kind) ==
    \A m, n \in 1 .. Len(s) :
        s[m].kind = kind /\ s[n].kind = kind /\ s[m].call.id = s[n].call.id => m = n

\* What a line added at the end changes.
LEMMA AppendLine ==
    ASSUME NEW S, NEW s \in Seq(S), NEW l \in S, NEW kind
    PROVE  /\ l.kind = kind => CallsIn(Append(s, l), kind) = CallsIn(s, kind) \cup {l.call}
           /\ l.kind # kind => CallsIn(Append(s, l), kind) = CallsIn(s, kind)
           /\ UniqueIn(s, kind) /\ (l.kind = kind => \A c \in CallsIn(s, kind) : c.id # l.call.id)
                => UniqueIn(Append(s, l), kind)
  <1> DEFINE t == Append(s, l)
  <1>1. /\ Len(t) = Len(s) + 1 /\ Len(s) \in Nat
        /\ t[Len(s) + 1] = l
        /\ \A n \in 1 .. Len(s) : t[n] = s[n]
    OBVIOUS
  <1>2. CallsIn(t, kind) = CallsIn(s, kind) \cup (IF l.kind = kind THEN {l.call} ELSE {})
    <2>1. ASSUME NEW c \in CallsIn(t, kind)
          PROVE  c \in CallsIn(s, kind) \cup (IF l.kind = kind THEN {l.call} ELSE {})
      <3>1. PICK n \in 1 .. Len(t) : t[n].kind = kind /\ c = t[n].call
        BY DEF CallsIn
      <3>2. CASE n = Len(s) + 1
        BY <1>1, <3>1, <3>2
      <3>3. CASE n \in 1 .. Len(s)
        BY <1>1, <3>1, <3>3 DEF CallsIn
      <3> QED
        BY <1>1, <3>1, <3>2, <3>3
    <2>2. ASSUME NEW c \in CallsIn(s, kind)
          PROVE  c \in CallsIn(t, kind)
      <3>1. PICK n \in 1 .. Len(s) : s[n].kind = kind /\ c = s[n].call
        BY DEF CallsIn
      <3>2. n \in 1 .. Len(t) /\ t[n] = s[n]
        BY <1>1
      <3> QED
        BY <3>1, <3>2 DEF CallsIn
    <2>3. l.kind = kind => l.call \in CallsIn(t, kind)
      <3>1. Len(s) + 1 \in 1 .. Len(t) /\ t[Len(s) + 1] = l
        BY <1>1
      <3> QED
        BY <3>1 DEF CallsIn
    <2> QED
      BY <2>1, <2>2, <2>3
  <1>3. ASSUME UniqueIn(s, kind), l.kind = kind => \A c \in CallsIn(s, kind) : c.id # l.call.id
        PROVE  UniqueIn(t, kind)
    <2> SUFFICES ASSUME NEW m \in 1 .. Len(t), NEW n \in 1 .. Len(t), t[m].kind = kind,
                        t[n].kind = kind, t[m].call.id = t[n].call.id
                 PROVE  m = n
      BY DEF UniqueIn
    <2>1. \A i \in 1 .. Len(s) : t[i].kind = kind => t[i].call \in CallsIn(s, kind)
      BY <1>1 DEF CallsIn
    <2>2. m \in 1 .. Len(s) \/ m = Len(s) + 1
      BY <1>1
    <2>3. n \in 1 .. Len(s) \/ n = Len(s) + 1
      BY <1>1
    <2>4. CASE m \in 1 .. Len(s) /\ n \in 1 .. Len(s)
      BY <1>1, <1>3, <2>4 DEF UniqueIn
    <2>5. CASE m \in 1 .. Len(s) /\ n = Len(s) + 1
      BY <1>1, <1>3, <2>1, <2>5
    <2>6. CASE n \in 1 .. Len(s) /\ m = Len(s) + 1
      BY <1>1, <1>3, <2>1, <2>6
    <2> QED
      BY <2>2, <2>3, <2>4, <2>5, <2>6
  <1>4. l.kind = kind => CallsIn(t, kind) = CallsIn(s, kind) \cup {l.call}
    BY <1>2
  <1>5. l.kind # kind => CallsIn(t, kind) = CallsIn(s, kind)
    BY <1>2
  <1> QED
    BY <1>3, <1>4, <1>5

\* What is left when the first line is taken.
LEMMA TailLine ==
    ASSUME NEW S, NEW s \in Seq(S), s # <<>>, NEW kind, UniqueIn(s, kind)
    PROVE  /\ UniqueIn(Tail(s), kind)
           /\ CallsIn(Tail(s), kind) \subseteq CallsIn(s, kind)
           /\ Head(s).kind = kind =>
                /\ Head(s).call \in CallsIn(s, kind)
                /\ \A c \in CallsIn(Tail(s), kind) : c.id # Head(s).call.id
  <1> DEFINE t == Tail(s)
  <1>1. /\ Len(s) \in Nat /\ Len(s) >= 1 /\ Len(t) = Len(s) - 1
        /\ Head(s) = s[1] /\ 1 \in 1 .. Len(s)
        /\ \A n \in 1 .. Len(t) : t[n] = s[n + 1] /\ n + 1 \in 1 .. Len(s)
    OBVIOUS
  <1>2. UniqueIn(t, kind)
    <2> SUFFICES ASSUME NEW m \in 1 .. Len(t), NEW n \in 1 .. Len(t), t[m].kind = kind,
                        t[n].kind = kind, t[m].call.id = t[n].call.id
                 PROVE  m = n
      BY DEF UniqueIn
    <2>1. m + 1 = n + 1
      BY <1>1 DEF UniqueIn
    <2> QED
      BY <1>1, <2>1
  <1>3. \A n \in 1 .. Len(t) : t[n].kind = kind => t[n].call \in CallsIn(s, kind)
    BY <1>1 DEF CallsIn
  <1>4. ASSUME Head(s).kind = kind, NEW n \in 1 .. Len(t), t[n].kind = kind
        PROVE  t[n].call.id # Head(s).call.id
    BY <1>1, <1>4 DEF UniqueIn
  <1>5. Head(s).kind = kind => Head(s).call \in CallsIn(s, kind)
    BY <1>1 DEF CallsIn
  <1> QED
    BY <1>2, <1>3, <1>4, <1>5 DEF CallsIn

(* The invariant. *)

Invoked == CallsIn(out, "invoke")
Replied == CallsIn(inp, "result")
Sent == Invoked \cup running \cup Replied

\* An invocation under way has an id of its own, and an entry while it may
\* still be answered.
Calls ==
    /\ \A j \in Jobs : at[j] # "idle" =>
         /\ call[j].job = j
         /\ call[j].id \in 1 .. nextId - 1
         /\ call[j].id \notin left
         /\ at[j] = "forget" => call[j].id \in late
         /\ at[j] = "send" => reply[j] = NoCall
         /\ at[j] \in {"send", "wait"} /\ reply[j] = NoCall => call[j].id \in DOMAIN pending
    /\ \A j, k \in Jobs : at[j] # "idle" /\ at[k] # "idle" /\ call[j].id = call[k].id => j = k

Entries ==
    \A i \in DOMAIN pending :
        i \in left \/ (call[pending[i]].id = i /\ reply[pending[i]] = NoCall)

\* What is on its way to the SDK and back.
Lines ==
    /\ \A c \in Sent :
         /\ c.id \in 1 .. nextId - 1
         /\ c.id \in DOMAIN pending \/ c.id \in late
         /\ \A j \in Jobs : call[j].id = c.id => call[j] = c /\ at[j] # "send"
    /\ UniqueIn(out, "invoke")
    /\ UniqueIn(inp, "result")
    /\ \A c, d \in running : c.id = d.id => c = d
    /\ \A c \in Invoked, d \in running \cup Replied : c.id # d.id
    /\ \A c \in running, d \in Replied : c.id # d.id

IInv == TypeOK /\ Calls /\ Entries /\ Lines /\ AnswersItsOwn /\ OnlyLateDropped

OutLine == [kind : {"hello", "event", "invoke"}, call : Call]
InpLine == [kind : {"subscribe", "result", "malformed", "end"}, call : Call]

LEMMA InitIInv == Init => IInv
  <1> SUFFICES ASSUME Init PROVE IInv
    OBVIOUS
  <1> USE DEF Init, NoCall
  <1>1. NoCall \in Call
    BY DEF Call
  <1>2. out \in Seq(OutLine) /\ Len(out) = 1 /\ out[1].kind = "hello"
    BY <1>1 DEF OutLine, Bare, Line
  <1>3. inp \in Seq(InpLine) /\ Len(inp) = 0
    BY DEF InpLine
  <1>4. TypeOK
    BY <1>1, <1>2, <1>3, BridgeAssumption DEF TypeOK, OutLine, InpLine
  <1>5. Invoked = {} /\ Replied = {}
    BY <1>2, <1>3 DEF Invoked, Replied, CallsIn
  <1>6. UniqueIn(out, "invoke") /\ UniqueIn(inp, "result")
    BY <1>2, <1>3 DEF UniqueIn
  <1>7. Lines
    BY <1>5, <1>6 DEF Lines, Sent
  <1> QED
    BY <1>4, <1>7 DEF IInv, Calls, Entries, AnswersItsOwn, OnlyLateDropped

(* Steps that leave invocations and the map alone. *)

\* The lines before, and those that are no invocation and no reply, decide
\* nothing else.
LEMMA SentLess ==
    ASSUME TypeOK, Lines, UNCHANGED <<jobVars, nextId, pending, late>>, TypeOK',
           Invoked' \subseteq Invoked, running' \subseteq running, Replied' \subseteq Replied,
           UniqueIn(out, "invoke")', UniqueIn(inp, "result")'
    PROVE  Lines'
  <1>1. Sent' \subseteq Sent
    BY DEF Sent
  <1> QED
    BY <1>1 DEF Lines, jobVars

LEMMA CallsKept ==
    ASSUME UNCHANGED <<jobVars, nextId, pending, late, left>>
    PROVE  (Calls => Calls') /\ (Entries => Entries') /\ (AnswersItsOwn => AnswersItsOwn')
  BY DEF Calls, Entries, AnswersItsOwn, jobVars

\* A line without a call, added to stdin.
LEMMA BareLine ==
    ASSUME TypeOK, Lines, NEW kind \in {"subscribe", "malformed", "end"},
           inp' = Append(inp, Bare(kind))
    PROVE  inp' \in Seq(InpLine) /\ Replied' = Replied /\ UniqueIn(inp, "result")'
  <1>1. Bare(kind) \in InpLine /\ Bare(kind).kind # "result"
    BY DEF Bare, Line, InpLine, NoCall, Call
  <1>2. inp \in Seq(InpLine)
    BY DEF TypeOK, InpLine
  <1>3. UniqueIn(inp, "result")
    BY DEF Lines
  <1>4. /\ CallsIn(Append(inp, Bare(kind)), "result") = CallsIn(inp, "result")
        /\ UniqueIn(Append(inp, Bare(kind)), "result")
    BY <1>1, <1>2, <1>3, AppendLine
  <1> QED
    BY <1>1, <1>2, <1>4 DEF Replied

\* The first line of stdin, taken.
LEMMA TakenLine ==
    ASSUME TypeOK, Lines, NEW kind, Takes(kind)
    PROVE  /\ inp' \in Seq(InpLine)
           /\ Replied' \subseteq Replied
           /\ UniqueIn(inp, "result")'
           /\ Head(inp) \in InpLine
           /\ Head(inp).kind = kind
           /\ kind = "result" => /\ Head(inp).call \in Replied
                                /\ \A c \in Replied' : c.id # Head(inp).call.id
  <1>1. inp \in Seq(InpLine) /\ inp # <<>>
    BY DEF TypeOK, InpLine, Takes
  <1>2. inp' \in Seq(InpLine) /\ Head(inp) \in InpLine
    BY <1>1 DEF Takes
  <1>3. Head(inp).kind = kind /\ inp' = Tail(inp)
    BY DEF Takes
  <1>4. UniqueIn(inp, "result")
    BY DEF Lines
  <1> QED
    BY <1>1, <1>2, <1>3, <1>4, TailLine DEF Replied

\* The first line of stdout, read.
LEMMA ReadLine ==
    ASSUME TypeOK, Lines, NEW kind, Reads(kind)
    PROVE  /\ out' \in Seq(OutLine) /\ Len(out') <= Pipe
           /\ Invoked' \subseteq Invoked
           /\ UniqueIn(out, "invoke")'
           /\ Head(out) \in OutLine
           /\ Head(out).kind = kind
           /\ kind = "invoke" => /\ Head(out).call \in Invoked
                                /\ \A c \in Invoked' : c.id # Head(out).call.id
  <1>1. out \in Seq(OutLine) /\ out # <<>> /\ Len(out) <= Pipe
    BY DEF TypeOK, OutLine, Reads
  <1>2. out' \in Seq(OutLine) /\ Head(out) \in OutLine /\ Len(out') <= Pipe
    BY <1>1, BridgeAssumption DEF Reads
  <1>3. Head(out).kind = kind /\ out' = Tail(out)
    BY DEF Reads
  <1>4. UniqueIn(out, "invoke")
    BY DEF Lines
  <1> QED
    BY <1>1, <1>2, <1>3, <1>4, TailLine DEF Invoked

LEMMA PipeSteps ==
    ASSUME IInv, TakesSubscription \/ PumpStops \/ Emit \/ ReadsHello \/ ReadsEvent
                 \/ ConsumerPulls \/ SdkEnds \/ \E c \in running : HandlerMisreplies(c)
    PROVE  IInv'
  <1> USE DEF IInv
  <1>1. UNCHANGED <<jobVars, nextId, pending, late, left, dropped>>
    BY DEF TakesSubscription, PumpStops, Emit, ReadsHello, ReadsEvent, ConsumerPulls, SdkEnds,
           HandlerMisreplies, adapterVars, historyVars
  <1>2. CASE TakesSubscription \/ PumpStops
    <2>1. PICK kind : Takes(kind)
      BY <1>2 DEF TakesSubscription, PumpStops
    <2>2. UNCHANGED <<out, running>>
      BY <1>2 DEF TakesSubscription, PumpStops, sdkVars
    <2>3. TypeOK'
      BY <1>2, <2>1, TakenLine, ZenonT(60) DEF TypeOK, TakesSubscription, PumpStops, InpLine, jobVars, sdkVars,
         boundVars, historyVars
    <2> QED
      BY <1>1, <2>1, <2>2, <2>3, TakenLine, SentLess, CallsKept
         DEF Lines, Invoked, OnlyLateDropped
  <1>3. CASE Emit
    <2>1. Bare("event") \in OutLine /\ Bare("event").kind # "invoke"
      BY DEF Bare, Line, OutLine, NoCall, Call
    <2>2. out \in Seq(OutLine) /\ out' = Append(out, Bare("event")) /\ Len(out) < Pipe
      BY <1>3 DEF TypeOK, OutLine, Emit
    <2> HIDE DEF IInv
    <2>7. UniqueIn(out, "invoke")
      BY DEF IInv, Lines
    <2>8. /\ CallsIn(Append(out, Bare("event")), "invoke") = CallsIn(out, "invoke")
          /\ UniqueIn(Append(out, Bare("event")), "invoke")
      BY <2>1, <2>2, <2>7, AppendLine
    <2> USE DEF IInv
    <2>3. CallsIn(out', "invoke") = CallsIn(out, "invoke") /\ UniqueIn(out', "invoke")
      BY <2>2, <2>8
    <2>4. out' \in Seq(OutLine) /\ Len(out') <= Pipe
      BY <2>1, <2>2, BridgeAssumption
    <2>5. TypeOK'
      BY <1>3, <2>4, BridgeAssumption, SMTT(40) DEF TypeOK, Emit, OutLine, jobVars, adapterVars, sdkVars,
         historyVars
    <2>6. UNCHANGED <<inp, running>>
      BY <1>3 DEF Emit, sdkVars
    <2> QED
      BY <1>1, <2>3, <2>5, <2>6, SentLess, CallsKept DEF Lines, Invoked, Replied, OnlyLateDropped
  <1>4. CASE ReadsHello
    <2>1. Reads("hello") /\ inp' = Append(inp, Bare("subscribe")) /\ UNCHANGED running
      BY <1>4 DEF ReadsHello, sdkVars
    <2>2. inp' \in Seq(InpLine) /\ Replied' = Replied /\ UniqueIn(inp, "result")'
      BY <2>1, BareLine
    <2>3. TypeOK'
      BY <1>4, <2>1, <2>2, ReadLine DEF TypeOK, ReadsHello, InpLine, OutLine, jobVars, adapterVars,
         sdkVars, boundVars, historyVars
    <2> QED
      BY <1>1, <2>1, <2>2, <2>3, ReadLine, SentLess, CallsKept DEF OnlyLateDropped
  <1>5. CASE ReadsEvent
    <2>1. Reads("event") /\ UNCHANGED <<inp, running>>
      BY <1>5 DEF ReadsEvent
    <2>2. TypeOK'
      BY <1>5, <2>1, ReadLine DEF TypeOK, ReadsEvent, OutLine, jobVars, adapterVars,
         boundVars, historyVars
    <2> QED
      BY <1>1, <2>1, <2>2, ReadLine, SentLess, CallsKept DEF Lines, Replied, OnlyLateDropped
  <1>6. CASE ConsumerPulls
    <2>1. UNCHANGED <<out, inp, running>>
      BY <1>6 DEF ConsumerPulls, pipeVars
    <2>2. TypeOK'
      BY <1>6, <2>1 DEF TypeOK, ConsumerPulls, jobVars, adapterVars, boundVars, historyVars
    <2> QED
      BY <1>1, <2>1, <2>2, SentLess, CallsKept DEF Lines, Replied, Invoked, OnlyLateDropped
  <1>7. CASE SdkEnds \/ \E c \in running : HandlerMisreplies(c)
    <2>1. PICK kind \in {"subscribe", "malformed", "end"} : inp' = Append(inp, Bare(kind))
      BY <1>7 DEF SdkEnds, HandlerMisreplies
    <2>2. running' \subseteq running /\ UNCHANGED out
      BY <1>7 DEF SdkEnds, HandlerMisreplies
    <2>3. inp' \in Seq(InpLine) /\ Replied' = Replied /\ UniqueIn(inp, "result")'
      BY <2>1, BareLine
    <2>4. faults' \in 0 .. FAULTS
      BY <1>7, BridgeAssumption, SMTT(40) DEF TypeOK, SdkEnds, HandlerMisreplies
    <2>5. TypeOK'
      BY <1>7, <2>2, <2>3, <2>4 DEF TypeOK, SdkEnds, HandlerMisreplies, InpLine, jobVars,
         adapterVars, historyVars
    <2> QED
      BY <1>1, <2>2, <2>3, <2>5, SentLess, CallsKept DEF Lines, Invoked, OnlyLateDropped
  <1> QED
    BY <1>2, <1>3, <1>4, <1>5, <1>6, <1>7

(* The steps of an invocation. *)

\* Ids start at 1, so an invocation is under way exactly where an id is.
LEMMA UnderWay ==
    ASSUME TypeOK, Calls, NEW j \in Jobs
    PROVE  /\ at[j] = "idle" => call[j].id = 0 /\ reply[j] = NoCall
           /\ at[j] # "idle" => call[j].id \in 1 .. nextId - 1 /\ call[j].id # 0
           /\ call[j] \in Call /\ NoCall \in Call
  BY DEF TypeOK, Calls, NoCall, Call

\* Where the lines stay, it is enough that their ids keep an entry or are late,
\* and that no invocation under way starts over.
LEMMA LinesKept ==
    ASSUME Lines, UNCHANGED <<out, inp, running>>, nextId \in Nat, nextId' \in Nat,
           nextId' >= nextId,
           \A c \in Sent : /\ c.id \in DOMAIN pending' \/ c.id \in late'
                           /\ \A j \in Jobs : call'[j].id = c.id => call'[j] = c /\ at'[j] # "send"
    PROVE  Lines'
  <1>1. UNCHANGED <<Sent, Invoked, Replied>>
    BY DEF Sent, Invoked, Replied
  <1>2. \A c \in Sent : c.id \in 1 .. nextId' - 1
    BY DEF Lines
  <1> QED
    BY <1>1, <1>2 DEF Lines

LEMMA InvokeStep ==
    ASSUME IInv, NEW j \in Jobs, NEW e \in Events, Invoke(j, e)
    PROVE  IInv'
  <1> DEFINE c == [id |-> nextId, job |-> j, event |-> e]
  <1>1. /\ at[j] = "idle" /\ nextId \in Nat /\ nextId >= 1 /\ nextId <= CALLS /\ CALLS \in Nat
        /\ nextId' = nextId + 1
        /\ DOMAIN pending' = DOMAIN pending \cup {nextId} /\ pending'[nextId] = j
        /\ \A i \in DOMAIN pending : i # nextId /\ pending'[i] = pending[i]
        /\ call' = [call EXCEPT ![j] = c]
        /\ at' = [at EXCEPT ![j] = "send"]
        /\ UNCHANGED <<reply, subscribed, pump, pipeVars, sdkVars, boundVars, historyVars>>
    BY BridgeAssumption, SMTT(40) DEF IInv, TypeOK, Invoke, With
  <1>2. c \in Call /\ c.id = nextId /\ c.job = j /\ c # NoCall
    BY <1>1 DEF Call, NoCall
  <1>3. reply[j] = NoCall /\ \A k \in Jobs : at[k] = "idle" => call[k].id = 0
    BY <1>1, UnderWay DEF IInv
  <1>4. \A k \in Jobs : at[k] # "idle" => call[k].id \in 1 .. nextId - 1
    BY UnderWay DEF IInv
  <1>5. TypeOK'
    <2>1. at' \in [Jobs -> {"idle", "send", "wait", "forget"}] /\ call' \in [Jobs -> Call]
      BY <1>1, <1>2 DEF IInv, TypeOK
    <2>2. \A k \in Jobs : at'[k] = "idle" <=> call'[k] = NoCall
      BY <1>1, <1>2 DEF IInv, TypeOK
    <2>3. \A k \in Jobs : reply'[k] # NoCall => at'[k] \in {"send", "wait"}
      BY <1>1 DEF IInv, TypeOK
    <2>4. nextId' \in 1 .. CALLS + 1 /\ DOMAIN pending' \subseteq 1 .. nextId' - 1
      BY <1>1, SMTT(40) DEF IInv, TypeOK
    <2>5. \A i \in DOMAIN pending' : pending'[i] \in Jobs
      BY <1>1 DEF IInv, TypeOK
    <2>6. late' \cup left' \cup dropped' \subseteq 1 .. nextId' - 1
      BY <1>1, SMTT(40) DEF IInv, TypeOK, historyVars
    <2> QED
      BY <1>1, <2>1, <2>2, <2>3, <2>4, <2>5, <2>6
         DEF IInv, TypeOK, pipeVars, sdkVars, boundVars
  <1>6. Calls'
    <2>1. call'[j] = c /\ at'[j] = "send"
          /\ \A k \in Jobs \ {j} : call'[k] = call[k] /\ at'[k] = at[k]
      BY <1>1 DEF IInv, TypeOK
    <2>2. nextId \notin left /\ nextId \in DOMAIN pending'
      BY <1>1 DEF IInv, TypeOK
    <2>3. ASSUME NEW k \in Jobs, at'[k] # "idle"
          PROVE  /\ call'[k].job = k
                 /\ call'[k].id \in 1 .. nextId' - 1
                 /\ call'[k].id \notin left'
                 /\ at'[k] = "forget" => call'[k].id \in late'
                 /\ at'[k] = "send" => reply'[k] = NoCall
                 /\ at'[k] \in {"send", "wait"} /\ reply'[k] = NoCall
                      => call'[k].id \in DOMAIN pending'
      <3>1. CASE k = j
        BY <1>1, <1>2, <1>3, <2>1, <2>2, <3>1 DEF historyVars
      <3>2. CASE k # j
        BY <1>1, <2>1, <2>3, <3>2 DEF IInv, Calls, historyVars
      <3> QED
        BY <3>1, <3>2
    <2>4. ASSUME NEW k \in Jobs, NEW l \in Jobs, at'[k] # "idle", at'[l] # "idle",
                 call'[k].id = call'[l].id
          PROVE  k = l
      <3>1. \A m \in Jobs \ {j} : at'[m] # "idle" => call'[m].id # nextId
        BY <1>1, <1>4, <2>1
      <3> QED
        BY <1>2, <2>1, <2>4, <3>1 DEF IInv, Calls
    <2> QED
      BY <2>3, <2>4 DEF Calls
  <1>7. Entries'
    BY <1>1, <1>2, <1>3, SMTT(40) DEF IInv, Entries, TypeOK, historyVars
  <1>8. Lines'
    <2>1. \A d \in Sent : d.id \in 1 .. nextId - 1
      BY DEF IInv, Lines
    <2>2. ASSUME NEW d \in Sent
          PROVE  /\ d.id \in DOMAIN pending' \/ d.id \in late'
                 /\ \A k \in Jobs : call'[k].id = d.id => call'[k] = d /\ at'[k] # "send"
      BY <1>1, <1>2, <2>1, SMTT(40) DEF IInv, Lines, TypeOK, historyVars
    <2> QED
      BY <1>1, <2>2, LinesKept DEF IInv, pipeVars, sdkVars
  <1> QED
    BY <1>1, <1>2, <1>3, <1>5, <1>6, <1>7, <1>8, SMTT(40)
       DEF IInv, AnswersItsOwn, OnlyLateDropped, TypeOK, historyVars

\* An invocation that is over: its job has no id, the others keep theirs.
LEMMA Finished ==
    ASSUME IInv, NEW j \in Jobs, Finish(j)
    PROVE  /\ at' \in [Jobs -> {"idle", "send", "wait", "forget"}]
           /\ call' \in [Jobs -> Call] /\ reply' \in [Jobs -> Call]
           /\ at'[j] = "idle" /\ call'[j] = NoCall /\ reply'[j] = NoCall /\ NoCall.id = 0
           /\ \A k \in Jobs \ {j} : at'[k] = at[k] /\ call'[k] = call[k] /\ reply'[k] = reply[k]
           /\ \A k \in Jobs : at'[k] = "idle" <=> call'[k] = NoCall
           /\ \A k \in Jobs : reply'[k] # NoCall => at'[k] \in {"send", "wait"}
           /\ AnswersItsOwn'
  <1>1. NoCall \in Call /\ NoCall.id = 0
    BY DEF NoCall, Call
  <1>2. /\ at' \in [Jobs -> {"idle", "send", "wait", "forget"}]
        /\ call' \in [Jobs -> Call] /\ reply' \in [Jobs -> Call]
        /\ at'[j] = "idle" /\ call'[j] = NoCall /\ reply'[j] = NoCall
        /\ \A k \in Jobs \ {j} : at'[k] = at[k] /\ call'[k] = call[k] /\ reply'[k] = reply[k]
    BY <1>1 DEF IInv, TypeOK, Finish
  <1> QED
    BY <1>1, <1>2, SMTT(40) DEF IInv, TypeOK, AnswersItsOwn

LEMMA FinishStep ==
    ASSUME IInv, NEW j \in Jobs,
           SendFails(j) \/ Cancelled(j) \/ Answer(j) \/ Forget(j)
    PROVE  IInv'
  <1>1. /\ Finish(j) /\ at[j] # "idle"
        /\ UNCHANGED <<nextId, subscribed, pump, out, inp, sdk, running, emits, late, dropped>>
    BY DEF SendFails, Cancelled, Answer, Forget, adapterVars, pipeVars, sdkVars, boundVars,
           historyVars
  <1>0. faults' \in 0 .. FAULTS
    BY BridgeAssumption DEF IInv, TypeOK, SendFails, Cancelled, Answer, Forget, boundVars
  <1>2. call[j].id \in 1 .. nextId - 1 /\ nextId \in Nat
    BY <1>1 DEF IInv, Calls, TypeOK
  <1>3. /\ DOMAIN pending' \subseteq DOMAIN pending
        /\ \A i \in DOMAIN pending' : pending'[i] = pending[i]
        /\ \A i \in DOMAIN pending : i \notin DOMAIN pending' => i = call[j].id /\ i \in late
    BY DEF SendFails, Cancelled, Answer, Forget, Without, adapterVars, IInv, Calls
  <1>4. left \subseteq left' /\ left' \subseteq left \cup {call[j].id}
    BY DEF SendFails, Cancelled, Answer, Forget, historyVars
  <1>5. \A k \in Jobs \ {j} : at[k] # "idle" => call[k].id # call[j].id
    BY <1>1 DEF IInv, Calls
  <1>6. \A i \in DOMAIN pending' : pending[i] = j => i \in left'
    <2> SUFFICES ASSUME NEW i \in DOMAIN pending', pending[i] = j, i \notin left'
                 PROVE  FALSE
      OBVIOUS
    <2>1. call[j].id = i /\ reply[j] = NoCall
      BY <1>3, <1>4 DEF IInv, Entries
    <2> QED
      BY <2>1 DEF SendFails, Cancelled, Answer, Forget, Without
  <1>7. TypeOK'
    BY <1>0, <1>1, <1>2, <1>3, <1>4, Finished, SMTT(40) DEF IInv, TypeOK
  <1>8. Calls'
    <2>1. ASSUME NEW k \in Jobs, at'[k] # "idle"
          PROVE  k # j /\ at'[k] = at[k] /\ call'[k] = call[k] /\ reply'[k] = reply[k]
      BY <1>1, <2>1, Finished
    <2>2. ASSUME NEW k \in Jobs, at'[k] # "idle"
          PROVE  /\ call'[k].id \notin left'
                 /\ at'[k] \in {"send", "wait"} /\ reply'[k] = NoCall
                      => call'[k].id \in DOMAIN pending'
      BY <1>3, <1>4, <1>5, <2>1, <2>2 DEF IInv, Calls
    <2> QED
      BY <1>1, <2>1, <2>2 DEF IInv, Calls
  <1>9. Entries'
    BY <1>1, <1>3, <1>4, <1>6, Finished DEF IInv, Entries, TypeOK
  <1>10. Lines'
    <2>1. ASSUME NEW d \in Sent
          PROVE  /\ d.id \in DOMAIN pending' \/ d.id \in late'
                 /\ \A k \in Jobs : call'[k].id = d.id => call'[k] = d /\ at'[k] # "send"
      BY <1>1, <1>3, Finished DEF IInv, Lines
    <2> QED
      BY <1>1, <1>2, <2>1, LinesKept DEF IInv
  <1> QED
    BY <1>1, <1>7, <1>8, <1>9, <1>10, Finished DEF IInv, OnlyLateDropped

LEMMA SendStep ==
    ASSUME IInv, NEW j \in Jobs, Send(j)
    PROVE  IInv'
  <1> DEFINE l == Line("invoke", call[j])
  <1>1. /\ at[j] = "send" /\ at' = [at EXCEPT ![j] = "wait"] /\ Len(out) < Pipe
        /\ out' = Append(out, l)
        /\ UNCHANGED <<call, reply, nextId, pending, subscribed, pump, inp, sdk, running, emits,
                       faults, late, left, dropped>>
    BY DEF Send, adapterVars, sdkVars, boundVars, historyVars
  <1>2. out \in Seq(OutLine) /\ l \in OutLine /\ l.kind = "invoke" /\ l.call = call[j]
    BY UnderWay DEF IInv, TypeOK, OutLine, Line
  <1>3. out' \in Seq(OutLine) /\ Len(out') <= Pipe
    BY <1>1, <1>2, BridgeAssumption
  <1>4. reply[j] = NoCall /\ call[j].id \in 1 .. nextId - 1 /\ call[j].id \in DOMAIN pending
    BY <1>1 DEF IInv, Calls
  <1>5. \A c \in Sent : c.id # call[j].id
    BY <1>1 DEF IInv, Lines
  <1>6. UniqueIn(out, "invoke") /\ \A c \in CallsIn(out, "invoke") : c.id # l.call.id
    BY <1>2, <1>5 DEF IInv, Lines, Sent, Invoked
  <1> HIDE DEF l
  <1>7. CallsIn(Append(out, l), "invoke") = CallsIn(out, "invoke") \cup {l.call}
        /\ UniqueIn(Append(out, l), "invoke")
    BY <1>2, <1>6, AppendLine
  <1>8. Invoked' = Invoked \cup {call[j]} /\ UniqueIn(out, "invoke")' /\ Replied' = Replied
    BY <1>1, <1>2, <1>7 DEF Invoked, Replied
  <1>9. at'[j] = "wait" /\ \A k \in Jobs \ {j} : at'[k] = at[k]
    BY <1>1 DEF IInv, TypeOK
  <1>10. TypeOK'
    <2>1. \A k \in Jobs : at'[k] = "idle" <=> call'[k] = NoCall
      BY <1>1, <1>9 DEF IInv, TypeOK
    <2>2. at' \in [Jobs -> {"idle", "send", "wait", "forget"}]
      BY <1>1 DEF IInv, TypeOK
    <2> QED
      BY <1>1, <1>3, <1>9, <2>1, <2>2 DEF IInv, TypeOK, OutLine
  <1>11. Calls'
    <2>1. ASSUME NEW k \in Jobs
          PROVE  (at'[k] # "idle" <=> at[k] # "idle") /\ (at'[k] = "forget" <=> at[k] = "forget")
                 /\ (at'[k] = "send" => at[k] = "send")
                 /\ (at'[k] \in {"send", "wait"} <=> at[k] \in {"send", "wait"})
      BY <1>1, <1>9
    <2> QED
      BY <1>1, <2>1 DEF IInv, Calls
  <1>12. Entries' /\ AnswersItsOwn' /\ OnlyLateDropped'
    BY <1>1 DEF IInv, Entries, AnswersItsOwn, OnlyLateDropped
  <1>13. Lines'
    <2>1. Sent' = Sent \cup {call[j]}
      BY <1>1, <1>8 DEF Sent
    <2>2. ASSUME NEW c \in Sent'
          PROVE  /\ c.id \in 1 .. nextId' - 1
                 /\ c.id \in DOMAIN pending' \/ c.id \in late'
                 /\ \A k \in Jobs : call'[k].id = c.id => call'[k] = c /\ at'[k] # "send"
      <3>1. CASE c \in Sent
        BY <1>1, <1>9, <3>1 DEF IInv, Lines
      <3>2. CASE c = call[j]
        BY <1>1, <1>4, <1>9, <3>2, UnderWay DEF IInv, Calls
      <3> QED
        BY <2>1, <3>1, <3>2
    <2>3. UniqueIn(inp, "result")'
      BY <1>1 DEF IInv, Lines
    <2>4. \A c \in Invoked', d \in running' \cup Replied' : c.id # d.id
      BY <1>1, <1>5, <1>8 DEF IInv, Lines, Sent
    <2>5. /\ \A c, d \in running' : c.id = d.id => c = d
          /\ \A c \in running', d \in Replied' : c.id # d.id
      BY <1>1, <1>8 DEF IInv, Lines
    <2> QED
      BY <1>8, <2>2, <2>3, <2>4, <2>5 DEF Lines
  <1> QED
    BY <1>10, <1>11, <1>12, <1>13 DEF IInv

LEMMA TimesOutStep ==
    ASSUME IInv, NEW j \in Jobs, TimesOut(j)
    PROVE  IInv'
  <1>1. /\ at[j] = "wait" /\ reply[j] = NoCall /\ late' = late \cup {call[j].id}
        /\ at' = [at EXCEPT ![j] = "forget"]
        /\ UNCHANGED <<call, reply, nextId, pending, subscribed, pump, out, inp, sdk, running,
                       emits, faults, left, dropped>>
    BY DEF TimesOut, adapterVars, pipeVars, sdkVars, boundVars
  <1>2. at'[j] = "forget" /\ \A k \in Jobs \ {j} : at'[k] = at[k]
    BY <1>1 DEF IInv, TypeOK
  <1>3. call[j].id \in 1 .. nextId - 1 /\ nextId \in Nat
    BY <1>1 DEF IInv, Calls, TypeOK
  <1>4. TypeOK'
    <2>1. at' \in [Jobs -> {"idle", "send", "wait", "forget"}]
      BY <1>1 DEF IInv, TypeOK
    <2>2. \A k \in Jobs : at'[k] = "idle" <=> call'[k] = NoCall
      BY <1>1, <1>2 DEF IInv, TypeOK
    <2>3. \A k \in Jobs : reply'[k] # NoCall => at'[k] \in {"send", "wait"}
      BY <1>1, <1>2 DEF IInv, TypeOK
    <2> QED
      BY <1>1, <1>3, <2>1, <2>2, <2>3 DEF IInv, TypeOK
  <1>5. Calls'
    BY <1>1, <1>2 DEF IInv, Calls
  <1>6. Entries' /\ AnswersItsOwn' /\ OnlyLateDropped'
    BY <1>1 DEF IInv, Entries, AnswersItsOwn, OnlyLateDropped
  <1>7. Lines'
    <2>1. \A c \in Sent : /\ c.id \in DOMAIN pending' \/ c.id \in late'
                          /\ \A k \in Jobs : call'[k].id = c.id => call'[k] = c /\ at'[k] # "send"
      BY <1>1, <1>2 DEF IInv, Lines
    <2> QED
      BY <1>1, <1>3, <2>1, LinesKept DEF IInv
  <1> QED
    BY <1>4, <1>5, <1>6, <1>7 DEF IInv

(* A call on its way to a handler, and a reply on its way back. *)

LEMMA ReadsInvocationStep ==
    ASSUME IInv, ReadsInvocation
    PROVE  IInv'
  <1> DEFINE c == Head(out).call
  <1>1. /\ Reads("invoke") /\ running' = running \cup {c}
        /\ UNCHANGED <<at, call, reply, nextId, pending, subscribed, pump, inp, sdk, emits, faults,
                       late, left, dropped>>
    BY DEF ReadsInvocation, jobVars, adapterVars, boundVars, historyVars
  <1>2. /\ out' \in Seq(OutLine) /\ Len(out') <= Pipe
        /\ Invoked' \subseteq Invoked /\ UniqueIn(out, "invoke")' /\ Head(out) \in OutLine
        /\ c \in Invoked /\ \A d \in Invoked' : d.id # c.id
    BY <1>1, ReadLine DEF IInv
  <1> HIDE DEF c
  <1>3. c \in Call
    BY <1>2 DEF OutLine, c
  <1>4. TypeOK'
    BY <1>1, <1>2, <1>3 DEF IInv, TypeOK, OutLine
  <1>5. Calls' /\ Entries' /\ AnswersItsOwn' /\ OnlyLateDropped'
    BY <1>1 DEF IInv, Calls, Entries, AnswersItsOwn, OnlyLateDropped
  <1>6. Replied' = Replied /\ Sent' \subseteq Sent
    BY <1>1, <1>2 DEF Replied, Sent
  <1>7. \A d \in Sent' :
         /\ d.id \in 1 .. nextId' - 1
         /\ d.id \in DOMAIN pending' \/ d.id \in late'
         /\ \A j \in Jobs : call'[j].id = d.id => call'[j] = d /\ at'[j] # "send"
    BY <1>1, <1>6 DEF IInv, Lines
  <1>8. UniqueIn(inp, "result")'
    BY <1>1 DEF IInv, Lines
  <1>9. \A d, e \in running' : d.id = e.id => d = e
    BY <1>1, <1>2 DEF IInv, Lines
  <1>10. \A d \in Invoked', e \in running' \cup Replied' : d.id # e.id
    BY <1>1, <1>2, <1>6 DEF IInv, Lines
  <1>11. \A d \in running', e \in Replied' : d.id # e.id
    BY <1>1, <1>2, <1>6 DEF IInv, Lines
  <1> QED
    BY <1>2, <1>4, <1>5, <1>7, <1>8, <1>9, <1>10, <1>11 DEF IInv, Lines

LEMMA HandlerEndsStep ==
    ASSUME IInv, NEW c \in running, HandlerEnds(c)
    PROVE  IInv'
  <1> DEFINE l == Line("result", c)
  <1>1. /\ running' = running \ {c} /\ inp' = Append(inp, l)
        /\ UNCHANGED <<at, call, reply, nextId, pending, subscribed, pump, out, sdk, emits, faults,
                       late, left, dropped>>
    BY DEF HandlerEnds, jobVars, adapterVars, boundVars, historyVars
  <1>2. inp \in Seq(InpLine) /\ l \in InpLine /\ l.kind = "result" /\ l.call = c /\ c \in Call
    BY DEF IInv, TypeOK, InpLine, Line
  <1>3. UniqueIn(inp, "result") /\ \A d \in CallsIn(inp, "result") : d.id # l.call.id
    BY <1>2 DEF IInv, Lines, Replied
  <1> HIDE DEF l
  <1>4. CallsIn(Append(inp, l), "result") = CallsIn(inp, "result") \cup {l.call}
        /\ UniqueIn(Append(inp, l), "result")
    BY <1>2, <1>3, AppendLine
  <1>5. Replied' = Replied \cup {c} /\ UniqueIn(inp, "result")' /\ Invoked' = Invoked
    BY <1>1, <1>2, <1>4 DEF Replied, Invoked
  <1>6. inp' \in Seq(InpLine)
    BY <1>1, <1>2
  <1>7. TypeOK'
    BY <1>1, <1>6 DEF IInv, TypeOK, InpLine
  <1>8. Calls' /\ Entries' /\ AnswersItsOwn' /\ OnlyLateDropped'
    BY <1>1 DEF IInv, Calls, Entries, AnswersItsOwn, OnlyLateDropped
  <1>9. Sent' \subseteq Sent
    BY <1>1, <1>5 DEF Sent
  <1>10. \A d \in Sent' :
         /\ d.id \in 1 .. nextId' - 1
         /\ d.id \in DOMAIN pending' \/ d.id \in late'
         /\ \A j \in Jobs : call'[j].id = d.id => call'[j] = d /\ at'[j] # "send"
    BY <1>1, <1>9 DEF IInv, Lines
  <1>11. UniqueIn(out, "invoke")' /\ \A d, e \in running' : d.id = e.id => d = e
    BY <1>1 DEF IInv, Lines
  <1>12. \A d \in Invoked', e \in running' \cup Replied' : d.id # e.id
    BY <1>1, <1>5 DEF IInv, Lines
  <1>13. \A d \in running', e \in Replied' : d.id # e.id
    BY <1>1, <1>5 DEF IInv, Lines
  <1> QED
    BY <1>5, <1>7, <1>8, <1>10, <1>11, <1>12, <1>13 DEF IInv, Lines

\* The invocation a reply is for is the one of its entry, and nothing else of
\* that id is on its way.
LEMMA TakesReplyStep ==
    ASSUME IInv, TakesReply
    PROVE  IInv'
  <1> DEFINE c == Head(inp).call
  <1>1. /\ Takes("result")
        /\ UNCHANGED <<at, call, nextId, subscribed, pump, out, sdk, running, emits, faults, late,
                       left>>
        /\ IF c.id \in DOMAIN pending
           THEN /\ pending' = Without(c.id)
                /\ reply' = [j \in Jobs |-> IF /\ j = pending[c.id] /\ call[j].id = c.id
                                               /\ at[j] \in {"send", "wait"}
                                            THEN c ELSE reply[j]]
                /\ UNCHANGED dropped
           ELSE dropped' = dropped \cup {c.id} /\ UNCHANGED <<pending, reply>>
    BY DEF TakesReply, sdkVars, boundVars
  <1>2. /\ inp' \in Seq(InpLine) /\ Replied' \subseteq Replied /\ UniqueIn(inp, "result")'
        /\ Head(inp) \in InpLine /\ c \in Replied /\ \A d \in Replied' : d.id # c.id
    BY <1>1, TakenLine DEF IInv
  <1> HIDE DEF c
  <1>3. c \in Call /\ c.id \in 1 .. nextId - 1 /\ nextId \in Nat /\ c # NoCall
    BY <1>2 DEF InpLine, IInv, Lines, Sent, TypeOK, NoCall, c
  <1>4. \A j \in Jobs : call[j].id = c.id => call[j] = c /\ at[j] # "send" /\ at[j] # "idle"
    <2>1. \A j \in Jobs : at[j] = "idle" => call[j].id # c.id
      BY <1>3, UnderWay DEF IInv
    <2> QED
      BY <1>2, <2>1 DEF IInv, Lines, Sent
  <1>5. \A d \in Sent' : d \in Sent /\ d.id # c.id
    BY <1>1, <1>2 DEF IInv, Lines, Sent, Invoked
  <1>6. Lines' <=> (\A d \in Sent' : d.id \in DOMAIN pending' \/ d.id \in late')
    <2>1. Invoked' = Invoked
      BY <1>1 DEF Invoked
    <2>2. \A d \in Sent' :
            /\ d.id \in 1 .. nextId' - 1
            /\ \A j \in Jobs : call'[j].id = d.id => call'[j] = d /\ at'[j] # "send"
      BY <1>1, <1>5 DEF IInv, Lines
    <2>3. UniqueIn(out, "invoke")' /\ UniqueIn(inp, "result")'
      BY <1>1, <1>2 DEF IInv, Lines
    <2>4. /\ \A d, e \in running' : d.id = e.id => d = e
          /\ \A d \in Invoked', e \in running' \cup Replied' : d.id # e.id
          /\ \A d \in running', e \in Replied' : d.id # e.id
      BY <1>1, <1>2, <2>1 DEF IInv, Lines
    <2> QED
      BY <2>2, <2>3, <2>4 DEF Lines
  <1>7. CASE c.id \notin DOMAIN pending
    <2>1. UNCHANGED <<pending, reply>> /\ dropped' = dropped \cup {c.id} /\ c.id \in late
      BY <1>1, <1>2, <1>7 DEF IInv, Lines, Sent
    <2>2. TypeOK'
      BY <1>1, <1>2, <1>3, <2>1 DEF IInv, TypeOK, InpLine
    <2>3. Calls' /\ Entries' /\ AnswersItsOwn' /\ OnlyLateDropped'
      BY <1>1, <2>1 DEF IInv, Calls, Entries, AnswersItsOwn, OnlyLateDropped
    <2>4. Lines'
      BY <1>1, <1>5, <1>6, <2>1 DEF IInv, Lines
    <2> QED
      BY <2>2, <2>3, <2>4 DEF IInv
  <1>8. CASE c.id \in DOMAIN pending
    <2>1. /\ DOMAIN pending' = DOMAIN pending \ {c.id}
          /\ \A i \in DOMAIN pending' : pending'[i] = pending[i]
          /\ UNCHANGED dropped
      BY <1>1, <1>8 DEF Without
    <2>2. \A j \in Jobs : reply'[j] = IF /\ j = pending[c.id] /\ call[j].id = c.id
                                         /\ at[j] \in {"send", "wait"}
                                      THEN c ELSE reply[j]
      BY <1>1, <1>8
    <2>3. reply' \in [Jobs -> Call]
      BY <1>1, <1>3, <1>8 DEF IInv, TypeOK
    <2>4. \A j \in Jobs : reply'[j] # NoCall => at[j] \in {"send", "wait"}
      BY <2>2 DEF IInv, TypeOK
    <2>5. TypeOK'
      BY <1>1, <1>2, <2>1, <2>3, <2>4 DEF IInv, TypeOK, InpLine
    <2>6. AnswersItsOwn'
      BY <1>1, <1>4, <2>2 DEF IInv, AnswersItsOwn
    <2>7. Entries'
      BY <1>1, <2>1, <2>2 DEF IInv, Entries, TypeOK
    <2>8. ASSUME NEW j \in Jobs, at[j] \in {"send", "wait"}, reply'[j] = NoCall
          PROVE  call[j].id \in DOMAIN pending'
      <3>1. reply[j] = NoCall /\ call[j].id \in DOMAIN pending /\ call[j].id \notin left
        BY <1>3, <2>2, <2>8 DEF IInv, Calls
      <3>2. call[j].id = c.id => FALSE
        <4>1. HAVE call[j].id = c.id
        <4>2. call[pending[c.id]].id = c.id /\ pending[c.id] \in Jobs
          BY <1>8, <3>1, <4>1 DEF IInv, Entries, TypeOK
        <4>3. pending[c.id] = j
          BY <1>4, <4>1, <4>2 DEF IInv, Calls
        <4> QED
          BY <1>3, <2>2, <2>8, <4>1, <4>3
      <3> QED
        BY <2>1, <3>1, <3>2
    <2>9. Calls'
      <3>1. \A j \in Jobs : at[j] = "send" => reply'[j] = NoCall
        BY <1>4, <2>2 DEF IInv, Calls
      <3> QED
        BY <1>1, <2>8, <3>1 DEF IInv, Calls
    <2>10. Lines' /\ OnlyLateDropped'
      BY <1>1, <1>5, <1>6, <2>1 DEF IInv, Lines, OnlyLateDropped
    <2> QED
      BY <2>5, <2>6, <2>7, <2>9, <2>10 DEF IInv
  <1> QED
    BY <1>7, <1>8

LEMMA NextIInv == IInv /\ [Next]_vars => IInv'
  <1> SUFFICES ASSUME IInv, [Next]_vars PROVE IInv'
    OBVIOUS
  <1>1. ASSUME NEW j \in Jobs, Job(j) \/ Cancelled(j) PROVE IInv'
    BY <1>1, SendStep, FinishStep, TimesOutStep DEF Job
  <1>2. ASSUME NEW j \in Jobs, NEW e \in Events, Invoke(j, e) PROVE IInv'
    BY <1>2, InvokeStep
  <1>3. CASE Pump \/ Emit \/ Reader \/ ConsumerPulls \/ SdkEnds
    BY <1>3, PipeSteps, TakesReplyStep, ReadsInvocationStep DEF Pump, Reader
  <1>4. ASSUME NEW c \in running, Handler(c) PROVE IInv'
    BY <1>4, PipeSteps, HandlerEndsStep DEF Handler
  <1>5. CASE UNCHANGED vars
    <2>1. UNCHANGED <<at, call, reply, nextId, pending, subscribed, pump, out, inp, sdk, running,
                      emits, faults, late, left, dropped>>
      BY <1>5 DEF vars, jobVars, adapterVars, pipeVars, sdkVars, boundVars, historyVars
    <2>2. Lines'
      BY <2>1, LinesKept DEF IInv, TypeOK, Lines
    <2>3. TypeOK'
      BY <2>1 DEF IInv, TypeOK
    <2> QED
      BY <2>1, <2>2, <2>3 DEF IInv, Calls, Entries, AnswersItsOwn, OnlyLateDropped
  <1> QED
    BY <1>1, <1>2, <1>3, <1>4, <1>5 DEF Next, Done

LEMMA SpecIInv == Spec => []IInv
  BY InitIInv, NextIInv, PTL DEF Spec

\* The types.
THEOREM SpecTypeOK == Spec => []TypeOK
  BY SpecIInv, PTL DEF IInv

\* A reply reaches the invocation it answers (pump_once).
THEOREM SpecAnswersItsOwn == Spec => []AnswersItsOwn
  BY SpecIInv, PTL DEF IInv

\* The map of pending calls holds the calls under way, no more and no less but
\* for those that were cancelled or could not be sent (invoke).
THEOREM SpecPendingIsAwaited == Spec => []PendingIsAwaited
  <1>1. IInv => PendingIsAwaited
    BY DEF IInv, Entries, Calls, PendingIsAwaited
  <1> QED
    BY <1>1, SpecIInv, PTL

\* Only replies to invocations that timed out are thrown away (pump_once).
THEOREM SpecOnlyLateDropped == Spec => []OnlyLateDropped
  BY SpecIInv, PTL DEF IInv

(* One way for every call. *)

Unsent == {call[j] : j \in {k \in Jobs : at[k] = "send"}}

Has(S, i) == \E c \in S : c.id = i

\* Where the call of id i is: not yet written, on stdout, with its handler, on
\* its way back, or none of these.
Stage(i) ==
    IF Has(Unsent, i) THEN 0
    ELSE IF Has(Invoked, i) THEN 1
    ELSE IF Has(running, i) THEN 2
    ELSE IF Has(Replied, i) THEN 3
    ELSE 4

\* At any time a call is in one place, and there once.
InOnePlace ==
    /\ UniqueIn(out, "invoke") /\ UniqueIn(inp, "result")
    /\ \A c, d \in Unsent \cup running : c.id = d.id => c = d
    /\ \A i \in 1 .. nextId - 1 :
         /\ Has(Unsent, i) => ~Has(Sent, i)
         /\ Has(Invoked, i) => ~Has(running, i) /\ ~Has(Replied, i)
         /\ Has(running, i) => ~Has(Replied, i)

\* And it never goes back: no call is written, handled or answered twice
\* (invoke and pump_once; the loop and dispatch of the SDK).
Onward == \A i \in 1 .. nextId - 1 : Stage(i)' >= Stage(i)
CallsGoOnward == [][Onward]_vars

\* What one step does to the places.
Moves ==
    /\ \A i \in 1 .. nextId - 1 : Has(Unsent, i)' => Has(Unsent, i)
    /\ Invoked' \subseteq Invoked \cup Unsent
    /\ running' \subseteq running \cup Invoked
    /\ Replied' \subseteq Replied \cup running

LEMMA MovesOnward == Moves => Onward
  <1> SUFFICES ASSUME Moves, NEW i \in 1 .. nextId - 1
               PROVE  Stage(i)' >= Stage(i)
    BY DEF Onward
  <1>1. /\ Has(Unsent, i)' => Has(Unsent, i)
        /\ Has(Invoked, i)' => Has(Invoked, i) \/ Has(Unsent, i)
        /\ Has(running, i)' => Has(running, i) \/ Has(Invoked, i)
        /\ Has(Replied, i)' => Has(Replied, i) \/ Has(running, i)
    BY DEF Moves, Has
  <1> QED
    BY <1>1 DEF Stage

\* Who only finishes, or waits for an answer now, sends nothing again.
LEMMA UnsentLess ==
    ASSUME \A j \in Jobs : at'[j] = "send" => at[j] = "send" /\ call'[j] = call[j]
    PROVE  Unsent' \subseteq Unsent
  BY DEF Unsent

LEMMA JobMoves ==
    ASSUME IInv, NEW j \in Jobs, Job(j) \/ Cancelled(j)
    PROVE  Moves
  <1>1. \A k \in Jobs : at'[k] = "send" => at[k] = "send" /\ call'[k] = call[k]
    BY Finished DEF IInv, TypeOK, Job, Send, SendFails, Answer, TimesOut, Forget, Cancelled
  <1>2. running' = running /\ inp' = inp
    BY DEF Job, Send, SendFails, Answer, TimesOut, Forget, Cancelled, sdkVars, pipeVars
  <1>3. Invoked' \subseteq Invoked \cup Unsent
    <2>1. CASE Send(j)
      <3> DEFINE l == Line("invoke", call[j])
      <3>1. out \in Seq(OutLine) /\ l \in OutLine /\ l.kind = "invoke" /\ l.call = call[j]
            /\ out' = Append(out, l) /\ at[j] = "send"
        BY <2>1, UnderWay DEF IInv, TypeOK, OutLine, Line, Send
      <3>2. UniqueIn(out, "invoke")
        BY DEF IInv, Lines
      <3> HIDE DEF l
      <3>3. CallsIn(Append(out, l), "invoke") = CallsIn(out, "invoke") \cup {l.call}
        BY <3>1, AppendLine
      <3> QED
        BY <3>1, <3>3 DEF Invoked, Unsent
    <2>2. CASE ~Send(j)
      <3>1. out' = out
        BY <2>2 DEF Job, SendFails, Answer, TimesOut, Forget, Cancelled, pipeVars
      <3> QED
        BY <3>1 DEF Invoked
    <2> QED
      BY <2>1, <2>2
  <1> QED
    BY <1>1, <1>2, <1>3, UnsentLess DEF Moves, Has, Replied

LEMMA InvokeMoves ==
    ASSUME IInv, NEW j \in Jobs, NEW e \in Events, Invoke(j, e)
    PROVE  Moves
  <1>1. /\ at'[j] = "send" /\ call'[j].id = nextId /\ nextId \in Nat
        /\ \A k \in Jobs \ {j} : at'[k] = at[k] /\ call'[k] = call[k]
        /\ UNCHANGED <<out, inp, running>>
    BY DEF IInv, TypeOK, Invoke, pipeVars, sdkVars
  <1>2. ASSUME NEW i \in 1 .. nextId - 1, Has(Unsent, i)'
        PROVE  Has(Unsent, i)
    <2>1. PICK k \in Jobs : at'[k] = "send" /\ call'[k].id = i
      BY <1>2 DEF Has, Unsent
    <2>2. k # j
      BY <1>1, <2>1
    <2> QED
      BY <1>1, <2>1, <2>2 DEF Has, Unsent
  <1> QED
    BY <1>1, <1>2 DEF Moves, Invoked, Replied

\* The steps of the pump, the run's events, the SDK and its handlers.
LEMMA PipeMoves ==
    ASSUME IInv, Pump \/ Emit \/ Reader \/ ConsumerPulls \/ SdkEnds \/ \E c \in running : Handler(c)
    PROVE  Moves
  <1>0. TypeOK /\ Lines
    BY DEF IInv
  <1>1. UNCHANGED <<at, call>>
    BY DEF Pump, TakesSubscription, TakesReply, PumpStops, Emit, Reader, ReadsHello,
           ReadsInvocation, ReadsEvent, ConsumerPulls, SdkEnds, Handler, HandlerEnds,
           HandlerMisreplies, jobVars
  <1>2. \A i \in 1 .. nextId - 1 : Has(Unsent, i)' => Has(Unsent, i)
    BY <1>1 DEF Has, Unsent
  <1>3. CASE Pump
    <2>1. PICK kind : Takes(kind)
      BY <1>3 DEF Pump, TakesSubscription, TakesReply, PumpStops
    <2>2. UNCHANGED <<out, running>>
      BY <1>3 DEF Pump, TakesSubscription, TakesReply, PumpStops, sdkVars
    <2>3. Replied' \subseteq Replied
      BY <1>0, <2>1, TakenLine
    <2> QED
      BY <1>2, <2>2, <2>3 DEF Moves, Invoked
  <1>4. CASE Emit
    <2>1. Bare("event") \in OutLine /\ Bare("event").kind # "invoke"
      BY DEF Bare, Line, OutLine, NoCall, Call
    <2>2. out \in Seq(OutLine) /\ out' = Append(out, Bare("event")) /\ UNCHANGED <<inp, running>>
      BY <1>0, <1>4 DEF TypeOK, OutLine, Emit, sdkVars
    <2>3. CallsIn(Append(out, Bare("event")), "invoke") = CallsIn(out, "invoke")
      BY <2>1, <2>2, AppendLine
    <2> QED
      BY <1>2, <2>2, <2>3 DEF Moves, Invoked, Replied
  <1>5. CASE Reader
    <2>1. PICK kind : Reads(kind)
      BY <1>5 DEF Reader, ReadsHello, ReadsInvocation, ReadsEvent
    <2>2. Invoked' \subseteq Invoked
      BY <1>0, <2>1, ReadLine
    <2>3. running' \subseteq running \cup Invoked
      <3>1. CASE ReadsInvocation
        BY <1>0, <3>1, ReadLine DEF ReadsInvocation
      <3> QED
        BY <1>5, <3>1 DEF Reader, ReadsHello, ReadsEvent, sdkVars
    <2>4. Replied' = Replied
      <3>1. CASE ReadsHello
        BY <1>0, <3>1, BareLine DEF ReadsHello
      <3> QED
        BY <1>5, <3>1 DEF Reader, ReadsInvocation, ReadsEvent, Replied
    <2> QED
      BY <1>2, <2>2, <2>3, <2>4 DEF Moves
  <1>6. CASE ConsumerPulls
    BY <1>2, <1>6 DEF ConsumerPulls, pipeVars, Moves, Invoked, Replied
  <1>7. CASE SdkEnds \/ \E c \in running : HandlerMisreplies(c)
    <2>1. PICK kind \in {"subscribe", "malformed", "end"} : inp' = Append(inp, Bare(kind))
      BY <1>7 DEF SdkEnds, HandlerMisreplies
    <2>2. running' \subseteq running /\ UNCHANGED out
      BY <1>7 DEF SdkEnds, HandlerMisreplies
    <2>3. Replied' = Replied
      BY <1>0, <2>1, BareLine
    <2> QED
      BY <1>2, <2>2, <2>3 DEF Moves, Invoked
  <1>8. ASSUME NEW c \in running, HandlerEnds(c)
        PROVE  Moves
    <2> DEFINE l == Line("result", c)
    <2>1. running' \subseteq running /\ inp' = Append(inp, l) /\ UNCHANGED out
      BY <1>8 DEF HandlerEnds
    <2>2. inp \in Seq(InpLine) /\ l \in InpLine /\ l.kind = "result" /\ l.call = c
      BY <1>0 DEF TypeOK, InpLine, Line
    <2> HIDE DEF l
    <2>3. CallsIn(Append(inp, l), "result") = CallsIn(inp, "result") \cup {l.call}
      BY <2>2, AppendLine
    <2> QED
      BY <1>2, <2>1, <2>2, <2>3 DEF Moves, Invoked, Replied
  <1> QED
    BY <1>3, <1>4, <1>5, <1>6, <1>7, <1>8 DEF Handler

\* A call is written, handled and answered once at most, in this order,
\* whatever is cancelled, times out or ends meanwhile.
THEOREM SpecCallsGoOnward == Spec => CallsGoOnward
  <1>1. ASSUME IInv, [Next]_vars
        PROVE  [Onward]_vars
    <2>1. CASE Done \/ UNCHANGED vars
      BY <2>1 DEF Done
    <2>2. ASSUME Moves PROVE Onward
      BY <2>2, MovesOnward
    <2> QED
      BY <1>1, <2>1, <2>2, JobMoves, InvokeMoves, PipeMoves DEF Next
  <1> QED
    BY <1>1, SpecIInv, PTL DEF Spec, CallsGoOnward

\* And at any time it is in one place.
THEOREM SpecInOnePlace == Spec => []InOnePlace
  <1>1. ASSUME IInv
        PROVE  InOnePlace
    <2>1. \A c \in Unsent, d \in Sent : c.id # d.id
      BY <1>1 DEF IInv, Lines, Unsent
    <2>2. \A c, d \in Unsent : c.id = d.id => c = d
      BY <1>1 DEF IInv, Calls, Unsent
    <2>3. \A c, d \in Unsent \cup running : c.id = d.id => c = d
      BY <1>1, <2>1, <2>2 DEF IInv, Lines, Sent
    <2> QED
      BY <1>1, <2>1, <2>3 DEF IInv, Lines, InOnePlace, Has
  <1> QED
    BY <1>1, SpecIInv, PTL
====
