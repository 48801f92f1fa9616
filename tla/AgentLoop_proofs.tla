-------------------------- MODULE AgentLoop_proofs --------------------------
(***************************************************************************)
(* Safety of the agent's loop, for all tools, control frames, jobs and     *)
(* bounds.                                                                 *)
(***************************************************************************)
EXTENDS AgentLoop, SequenceTheorems, TLAPS

\* The reply that exhausts the retries fails the process, so no other follows.
TooManyFail == empties > MaxEmpty => stage = "failed"

Inv == TypeOK /\ TooManyFail /\ NoTurnWhileSuspended

----------------------------------------------------------------------------
(* The entries that the actions put into sequences.                         *)

LEMMA EntriesTyped ==
    /\ \A k \in 1 .. MaxEvents : Entry("event", k) \in Items
    /\ \A op \in Controls \cup {"eof", "error"} : Entry(op, 0) \in Items
    /\ \A kind \in {"say", "result", "summary", "reminder"} : Entry(kind, 0) \in Messages
    /\ \A j \in Jobs : Entry("note", j) \in Messages
    /\ \A n \in 1 .. MaxBatch : Entry("calls", n) \in Messages
  BY DEF Entry, Items, Messages

\* An event frame can stand in the conversation; the kinds of other frames
\* are not events.
LEMMA ItemKinds ==
    ASSUME NEW item \in Items
    PROVE  /\ IsEvent(item) => item \in Messages
           /\ ~ IsEvent(item) => item.kind \in Controls \cup {"eof", "error"}
  BY ControlsAssumption DEF Items, Messages, IsEvent

LEMMA FoldTyped ==
    ASSUME NEW item \in Items
    PROVE  /\ Folded(item) \in Seq(Messages)
           /\ Deferred(item) \in Seq(Items)
  BY ItemKinds DEF Folded, Deferred, Takes

LEMMA ReminderTyped ==
    ASSUME NEW wanted
    PROVE  Reminder(wanted) \in Seq(Messages)
  BY EntriesTyped DEF Reminder

LEMMA BatchTyped ==
    ASSUME NEW calls \in Batches
    PROVE  calls \in Seq(Tools) /\ Len(calls) \in 1 .. MaxBatch
<1>1. PICK n \in 1 .. MaxBatch : calls \in [1 .. n -> Tools]
  BY DEF Batches
<1>2. n \in Nat
  BY <1>1, BoundsAssumption
<1>3. calls \in Seq(Tools) /\ Len(calls) = n
  BY <1>1, <1>2, IsASeq, LenProperties
<1> QED
  BY <1>1, <1>3

----------------------------------------------------------------------------
LEMMA InitType == Init => TypeOK
<1> SUFFICES ASSUME Init PROVE TypeOK
  OBVIOUS
<1> USE DEF Init
<1>1. inbox \in Seq(Items) /\ pending \in Seq(Items) /\ msgs \in Seq(Messages)
  OBVIOUS
<1>2. batch \in Seq(Tools) /\ todo \in Seq(Tools)
  OBVIOUS
<1>3. empties \in 0 .. MaxEmpty + 1
  BY BoundsAssumption
<1>4. job \in [Jobs -> Background \cup {"none", "finished", "told", "cancelled"}]
  OBVIOUS
<1>5. streaming \in BOOLEAN /\ suspended \in BOOLEAN /\ mention \in BOOLEAN /\ summary \in BOOLEAN
  OBVIOUS
<1> QED
  BY <1>1, <1>2, <1>3, <1>4, <1>5 DEF TypeOK

\* Every action keeps the variables in their types.
LEMMA TypeStep == TypeOK /\ TooManyFail /\ [Next]_vars => TypeOK'
<1> SUFFICES ASSUME TypeOK, TooManyFail, [Next]_vars PROVE TypeOK'
  OBVIOUS
<1> USE BoundsAssumption DEF TypeOK
<1>1. CASE SendEvent
  <2>1. Entry("event", events + 1) \in Items
    BY <1>1, EntriesTyped DEF SendEvent
  <2> QED
    BY <1>1, <2>1 DEF SendEvent, turnVars, batching
<1>2. CASE SendControl
  BY <1>2, EntriesTyped DEF SendControl, turnVars, batching
<1>3. ASSUME NEW kind \in {"eof", "error"}, StreamEnds(kind), faults' \in Nat
      PROVE  TypeOK'
  <2>1. Entry(kind, 0) \in Items
    BY EntriesTyped
  <2>2. inbox' \in Seq(Items)
    BY <1>3, <2>1 DEF StreamEnds
  <2>3. streaming' \in BOOLEAN
    BY <1>3, Zenon DEF StreamEnds
  <2> QED
    BY <1>3, <2>2, <2>3 DEF StreamEnds, turnVars, batching
<1>4. CASE AskKeepAlive
  BY <1>4 DEF AskKeepAlive, turnVars, batching
<1>5. CASE IdleGrace
  BY <1>5, <1>3 DEF IdleGrace
<1>6. CASE StreamBreaks
  BY <1>6, <1>3 DEF StreamBreaks
<1>7. CASE Replay \/ Receive
  <2>1. ASSUME NEW item \in Items, NEW rest \in Seq(Items), Handle(item, rest)
        PROVE  /\ pending' \in Seq(Items) /\ msgs' \in Seq(Messages)
               /\ suspended' \in BOOLEAN
               /\ stage' \in {"idle"} \cup Turn \cup Final
               /\ nudged' \subseteq {"compact", "mention", "promise"}
               /\ empties' \in 0 .. MaxEmpty + 1
               /\ job' \in [Jobs -> Background \cup {"none", "finished", "told", "cancelled"}]
    <3>1. CASE HandleEvent(item, rest)
      <4>1. CASE suspended
        <5>1. /\ pending' = Append(rest, item)
              /\ UNCHANGED <<msgs, stage, nudged, empties, job, suspended>>
          BY <3>1, <4>1, Zenon DEF HandleEvent
        <5>2. Append(rest, item) \in Seq(Items)
          OBVIOUS
        <5> QED
          BY <5>1, <5>2
      <4>2. CASE ~ suspended
        <5>1. item \in Messages
          BY <3>1, ItemKinds DEF HandleEvent
        <5>2. job' \in [Jobs -> Background \cup {"none", "finished", "told", "cancelled"}]
          BY <3>1, <4>2 DEF HandleEvent, TouchesJobs
        <5>3. BeginTurn /\ pending' = rest /\ msgs' = Append(msgs, item) /\ UNCHANGED suspended
          BY <3>1, <4>2 DEF HandleEvent
        <5>4. stage' = "round" /\ nudged' \subseteq {"compact"} /\ empties' = 0
          BY <5>3 DEF BeginTurn
        <5> QED
          BY <5>1, <5>2, <5>3, <5>4 DEF Turn
      <4> QED
        BY <4>1, <4>2
    <3>2. CASE HandleControl(item, rest)
      BY <2>1, <3>2 DEF HandleControl, Final, Background
    <3> QED
      BY <2>1, <3>1, <3>2 DEF Handle
  <2>2. CASE Replay
    <3>1. Head(pending) \in Items /\ Tail(pending) \in Seq(Items)
      BY <2>2 DEF Replay
    <3> QED
      BY <2>1, <2>2, <3>1 DEF Replay, inputs, batching
  <2>3. CASE Receive
    <3>1. Head(inbox) \in Items /\ Tail(inbox) \in Seq(Items)
      BY <2>3 DEF Receive
    <3> QED
      BY <2>1, <2>3, <3>1 DEF Receive, batching
  <2> QED
    BY <1>7, <2>2, <2>3
<1>8. CASE StartRound
  <2>1. msgs' \in Seq(Messages) /\ nudged' \subseteq {"compact", "mention", "promise"}
    <3>1. CASE UNCHANGED <<nudged, msgs>>
      BY <3>1
    <3>2. CASE nudged' = nudged \cup {"compact"} /\ msgs' = Append(msgs, Entry("reminder", 0))
      BY <3>2, EntriesTyped
    <3> QED
      BY <1>8, <3>1, <3>2, Zenon DEF StartRound, CompactNudge
  <2>2. Len(msgs') \in Nat
    BY <2>1
  <2>3. {m \in {msgs'[i] : i \in Window(msgs')} : IsInput(m)} \subseteq Messages
    BY <2>1 DEF Window
  <2> QED
    BY <1>8, <2>1, <2>2, <2>3 DEF StartRound, inputs, batching, Turn
<1>9. CASE Fold
  <2>1. Head(inbox) \in Items /\ Tail(inbox) \in Seq(Items)
    BY <1>9 DEF Fold
  <2>2. msgs' \in Seq(Messages) /\ pending' \in Seq(Items)
    BY <1>9, <2>1, FoldTyped DEF Fold
  <2>3. job' \in [Jobs -> Background \cup {"none", "finished", "told", "cancelled"}]
    BY <1>9 DEF Fold, TouchesJobs
  <2> QED
    BY <1>9, <2>1, <2>2, <2>3 DEF Fold, turnVars, batching
<1>10. CASE CallFails
  BY <1>10 DEF CallFails, Final, inputs, turnVars, batching
<1>11. CASE ReplyEmpty \/ ReplyText \/ ReplyNudged \/ ReplyCalls
  <2>1. CASE ReplyEmpty
    <3>1. Entry("say", 0) \in Messages /\ Entry("reminder", 0) \in Messages
      BY EntriesTyped
    <3>2. msgs' \in Seq(Messages) /\ stage' \in Turn \cup Final
      <4>1. CASE stage' = "failed" /\ msgs' = Append(msgs, Entry("say", 0))
        BY <3>1, <4>1 DEF Final
      <4>2. CASE stage' = "round" /\ msgs' = msgs \o <<Entry("say", 0), Entry("reminder", 0)>>
        <5>1. <<Entry("say", 0), Entry("reminder", 0)>> \in Seq(Messages)
          BY <3>1
        <5> QED
          BY <4>2, <5>1 DEF Turn
      <4> QED
        BY <2>1, <4>1, <4>2, Zenon DEF ReplyEmpty
    <3>3. empties' \in 0 .. MaxEmpty + 1
      BY <2>1 DEF ReplyEmpty, Reply, TooManyFail
    <3> QED
      BY <2>1, <3>2, <3>3 DEF ReplyEmpty, Reply, Prolongs, inputs, batching
  <2>2. CASE ReplyText
    BY <2>2, EntriesTyped DEF ReplyText, Reply, Turn, inputs, batching
  <2>3. CASE ReplyNudged
    BY <2>3, EntriesTyped, ReminderTyped
    DEF ReplyNudged, Reply, Prolongs, Turn, inputs, batching
  <2>4. CASE ReplyCalls
    <3>1. PICK calls \in Batches :
            batch' = calls /\ todo' = calls /\ msgs' = Append(msgs, Entry("calls", Len(calls)))
      BY <2>4 DEF ReplyCalls
    <3>2. calls \in Seq(Tools) /\ Entry("calls", Len(calls)) \in Messages
      BY BatchTyped, EntriesTyped
    <3>3. mention' \in BOOLEAN /\ summary' \in BOOLEAN
      BY <2>4, Zenon DEF ReplyCalls
    <3> QED
      BY <2>4, <3>1, <3>2, <3>3 DEF ReplyCalls, Reply, Prolongs, Turn, inputs
  <2> QED
    BY <1>11, <2>1, <2>2, <2>3, <2>4
<1>12. CASE CallTool
  <2>1. msgs' \in Seq(Messages) /\ todo' \in Seq(Tools)
    BY <1>12, EntriesTyped DEF CallTool
  <2>2. job' \in [Jobs -> Background \cup {"none", "finished", "told", "cancelled"}]
    BY <1>12 DEF CallTool, Starts, Background
  <2>3. summary' \in BOOLEAN
    BY <1>12 DEF CallTool
  <2> QED
    BY <1>12, <2>1, <2>2, <2>3 DEF CallTool, inputs
<1>13. CASE EndBatch
  <2>1. msgs' \in Seq(Messages)
    BY <1>13, EntriesTyped, ReminderTyped DEF EndBatch
  <2>2. nudged' \subseteq {"compact", "mention", "promise"}
    BY <1>13 DEF EndBatch
  <2> QED
    BY <1>13, <2>1, <2>2 DEF EndBatch, inputs, Turn
<1>14. ASSUME NEW j \in Jobs, JobEnds(j) \/ FoldNote(j) \/ Wake(j)
       PROVE  TypeOK'
  <2>1. job' \in [Jobs -> Background \cup {"none", "finished", "told", "cancelled"}]
    BY <1>14 DEF JobEnds, FoldNote, Wake
  <2>2. Append(msgs, Entry("note", j)) \in Seq(Messages)
    BY EntriesTyped
  <2>3. CASE JobEnds(j)
    BY <2>1, <2>3 DEF JobEnds, inputs, turnVars, batching
  <2>4. CASE FoldNote(j)
    <3>1. msgs' = msgs \/ msgs' = Append(msgs, Entry("note", j))
      BY <2>4, Zenon DEF FoldNote
    <3> QED
      BY <2>1, <2>2, <2>4, <3>1 DEF FoldNote, inputs, turnVars, batching
  <2>5. CASE Wake(j)
    <3>1. \/ UNCHANGED <<msgs, stage, nudged, empties>>
          \/ msgs' = Append(msgs, Entry("note", j)) /\ BeginTurn
      BY <2>5, Zenon DEF Wake
    <3>2. /\ msgs' \in Seq(Messages)
          /\ stage' \in {"idle"} \cup Turn \cup Final
          /\ nudged' \subseteq {"compact", "mention", "promise"}
          /\ empties' \in 0 .. MaxEmpty + 1
      <4>1. CASE UNCHANGED <<msgs, stage, nudged, empties>>
        BY <4>1
      <4>2. CASE msgs' = Append(msgs, Entry("note", j)) /\ BeginTurn
        BY <2>2, <4>2 DEF BeginTurn, Turn
      <4> QED
        BY <3>1, <4>1, <4>2
    <3> QED
      BY <2>1, <2>5, <3>2 DEF Wake, inputs, batching
  <2> QED
    BY <1>14, <2>3, <2>4, <2>5
<1>15. CASE UNCHANGED vars
  BY <1>15 DEF vars
<1> QED
  BY <1>1, <1>2, <1>4, <1>5, <1>6, <1>7, <1>8, <1>9, <1>10, <1>11, <1>12, <1>13, <1>14, <1>15
  DEF Next, LoopStep

----------------------------------------------------------------------------
LEMMA InitInv == Init => Inv
<1> SUFFICES ASSUME Init PROVE TooManyFail /\ NoTurnWhileSuspended
  BY InitType DEF Inv
<1> QED
  BY BoundsAssumption DEF Init, TooManyFail, NoTurnWhileSuspended, Turn

\* Only the handlers that run between two turns suspend, and no turn begins
\* while suspended.
LEMMA InvStep == Inv /\ [Next]_vars => Inv'
<1> SUFFICES ASSUME Inv, [Next]_vars PROVE TooManyFail' /\ NoTurnWhileSuspended'
  BY TypeStep DEF Inv
<1> USE BoundsAssumption DEF Inv, TypeOK, TooManyFail, NoTurnWhileSuspended, Turn, Final
<1>1. CASE SendEvent \/ SendControl \/ AskKeepAlive \/ IdleGrace \/ StreamBreaks
  BY <1>1 DEF SendEvent, SendControl, AskKeepAlive, IdleGrace, StreamBreaks, StreamEnds, turnVars
<1>2. ASSUME NEW item, NEW rest, Handle(item, rest), stage = "idle"
      PROVE  TooManyFail' /\ NoTurnWhileSuspended'
  <2>1. CASE HandleEvent(item, rest)
    BY <1>2, <2>1 DEF HandleEvent, BeginTurn
  <2>2. CASE HandleControl(item, rest)
    BY <1>2, <2>2 DEF HandleControl
  <2> QED
    BY <1>2, <2>1, <2>2 DEF Handle
<1>3. CASE Replay \/ Receive
  BY <1>2, <1>3 DEF Replay, Receive
<1>4. CASE StartRound \/ Fold \/ CallFails
  BY <1>4 DEF StartRound, Fold, CallFails, turnVars
<1>5. CASE ReplyEmpty
  <2>1. ~ suspended /\ UNCHANGED suspended
    BY <1>5 DEF ReplyEmpty, Reply
  <2>2. empties' = empties + 1 /\ (empties >= MaxEmpty => stage' = "failed")
    BY <1>5 DEF ReplyEmpty
  <2>3. NoTurnWhileSuspended'
    BY <2>1, Zenon
  <2>4. empties' \in Int /\ MaxEmpty \in Int
    BY <2>2
  <2>5. TooManyFail'
    BY <2>2, <2>4
  <2> QED
    BY <2>3, <2>5
<1>6. CASE ReplyText \/ ReplyNudged \/ ReplyCalls
  <2>1. Reply /\ empties' = 0
    BY <1>6 DEF ReplyText, ReplyNudged, ReplyCalls
  <2>2. ~ suspended /\ UNCHANGED suspended
    BY <2>1 DEF Reply
  <2>3. NoTurnWhileSuspended'
    BY <2>2, Zenon
  <2>4. TooManyFail'
    BY <2>1
  <2> QED
    BY <2>3, <2>4
<1>7. CASE CallTool \/ EndBatch
  BY <1>7 DEF CallTool, EndBatch
<1>8. ASSUME NEW j \in Jobs, JobEnds(j) \/ FoldNote(j)
      PROVE  TooManyFail' /\ NoTurnWhileSuspended'
  BY <1>8 DEF JobEnds, FoldNote, turnVars
<1>9. ASSUME NEW j \in Jobs, Wake(j)
      PROVE  TooManyFail' /\ NoTurnWhileSuspended'
  <2>1. CASE suspended
    BY <1>9, <2>1, Zenon DEF Wake
  <2>2. CASE ~ suspended
    <3>1. ~ suspended' /\ empties' = 0
      BY <1>9, <2>2 DEF Wake, BeginTurn
    <3> QED
      BY <3>1
  <2> QED
    BY <2>1, <2>2
<1>10. CASE UNCHANGED vars
  BY <1>10 DEF vars
<1> QED
  BY <1>1, <1>3, <1>4, <1>5, <1>6, <1>7, <1>8, <1>9, <1>10 DEF Next, LoopStep

THEOREM Invariance == Spec => []Inv
<1> QED
  BY InitInv, InvStep, PTL DEF Spec

\* Every variable keeps its type: the conversation only holds messages, the
\* queues only frames, and no more empty replies are taken than allowed.
THEOREM TypeCorrect == Spec => []TypeOK
<1>1. Inv => TypeOK
  BY DEF Inv
<1> QED
  BY <1>1, Invariance, PTL

\* Run, handleFrame, driveOneTurnWithID: whatever arrives while a turn runs,
\* the agent makes no request and calls no tool while it is suspended.
THEOREM SuspendedRests == Spec => []NoTurnWhileSuspended
<1>1. Inv => NoTurnWhileSuspended
  BY DEF Inv
<1> QED
  BY <1>1, Invariance, PTL

----------------------------------------------------------------------------
\* The condition of SeenBeforeEnd on one step.
EndsInSight ==
    stage = "call" /\ stage' = "idle" =>
        \A i \in DOMAIN msgs' : IsInput(msgs'[i]) => i <= seen

\* Plain text is the only reply that ends a turn, and it does so when the
\* conversation has not grown since the request; what it appends is its text.
LEMMA EndStep == Inv /\ [Next]_vars => [EndsInSight]_stage
<1> SUFFICES ASSUME Inv, [Next]_vars, stage = "call", stage' = "idle"
             PROVE  \A i \in DOMAIN msgs' : IsInput(msgs'[i]) => i <= seen
  BY DEF EndsInSight
<1>1. ReplyText
  <2>1. ~ (SendEvent \/ SendControl \/ AskKeepAlive \/ IdleGrace \/ StreamBreaks)
    BY DEF SendEvent, SendControl, AskKeepAlive, IdleGrace, StreamBreaks, StreamEnds
  <2>2. ~ (Replay \/ Receive \/ StartRound \/ CallTool \/ EndBatch)
    BY DEF Replay, Receive, StartRound, CallTool, EndBatch
  <2>3. ~ (Fold \/ CallFails \/ ReplyNudged \/ ReplyCalls)
    BY DEF Fold, CallFails, ReplyNudged, ReplyCalls
  <2>4. ~ ReplyEmpty
    BY DEF ReplyEmpty
  <2>5. ASSUME NEW j \in Jobs, JobEnds(j) \/ FoldNote(j) \/ Wake(j)
        PROVE  FALSE
    BY <2>5 DEF JobEnds, FoldNote, Wake
  <2>6. ~ UNCHANGED vars
    BY DEF vars
  <2> QED
    BY <2>1, <2>2, <2>3, <2>4, <2>5, <2>6 DEF Next, LoopStep
<1>2. msgs \in Seq(Messages) /\ seen \in Nat
  BY DEF Inv, TypeOK
<1>3. Len(msgs) <= seen /\ msgs' = Append(msgs, Entry("say", 0))
  BY <1>1, <1>2 DEF ReplyText
<1> TAKE i \in DOMAIN msgs'
<1> HAVE IsInput(msgs'[i])
<1>4. Entry("say", 0) \in Messages /\ ~ IsInput(Entry("say", 0))
  BY EntriesTyped DEF IsInput, Entry
<1>5. i \in 1 .. Len(msgs) + 1 /\ msgs'[Len(msgs) + 1] = Entry("say", 0)
  BY <1>2, <1>3, <1>4, AppendProperties
<1>6. i # Len(msgs) + 1
  BY <1>4, <1>5
<1> QED
  BY <1>2, <1>3, <1>5, <1>6

\* driveOneTurnWithID: whatever arrives during a request, the reply that ends
\* the turn was given in sight of every event and notification.
THEOREM EndsSeen == Spec => SeenBeforeEnd
<1>1. Inv /\ [Next]_vars => [EndsInSight]_stage
  BY EndStep
<1> QED
  BY <1>1, Invariance, PTL DEF Spec, SeenBeforeEnd, EndsInSight

----------------------------------------------------------------------------
(* The events of a sequence and their order.                                *)

Numbers(s) == {s[i].n : i \in {k \in DOMAIN s : IsEvent(s[k])}}

Rising(s) ==
    \A i, k \in DOMAIN s : i < k /\ IsEvent(s[i]) /\ IsEvent(s[k]) => s[i].n < s[k].n

Below(A, B) == \A a \in A, b \in B : a < b

\* t is s with entries other than events behind it.
Quiet(s, t) ==
    /\ Len(s) <= Len(t)
    /\ \A i \in 1 .. Len(s) : t[i] = s[i]
    /\ \A i \in 1 .. Len(t) : i > Len(s) => ~ IsEvent(t[i])

LEMMA EmptyEvents == Numbers(<<>>) = {} /\ Rising(<<>>)
  BY DEF Numbers, Rising

LEMMA QuietKeeps ==
    ASSUME NEW S, NEW s \in Seq(S), NEW t \in Seq(S), Quiet(s, t)
    PROVE  Numbers(t) = Numbers(s) /\ (Rising(s) => Rising(t))
<1>1. \A i \in DOMAIN t : IsEvent(t[i]) => i \in DOMAIN s /\ t[i] = s[i]
  BY DEF Quiet
<1>2. \A i \in DOMAIN s : i \in DOMAIN t /\ t[i] = s[i]
  BY DEF Quiet
<1> QED
  BY <1>1, <1>2 DEF Numbers, Rising

LEMMA AppendQuiet ==
    ASSUME NEW S, NEW s \in Seq(S), NEW e \in S, ~ IsEvent(e)
    PROVE  Quiet(s, Append(s, e)) /\ Append(s, e) \in Seq(S)
  BY DEF Quiet

LEMMA AppendEvent ==
    ASSUME NEW S, NEW s \in Seq(S), NEW e \in S, IsEvent(e)
    PROVE  /\ Append(s, e) \in Seq(S)
           /\ Numbers(Append(s, e)) = Numbers(s) \cup {e.n}
           /\ Rising(s) /\ Below(Numbers(s), {e.n}) => Rising(Append(s, e))
<1> DEFINE t == Append(s, e)
<1>1. /\ t \in Seq(S)
      /\ DOMAIN t = DOMAIN s \cup {Len(s) + 1}
      /\ t[Len(s) + 1] = e
      /\ \A i \in DOMAIN s : t[i] = s[i] /\ i < Len(s) + 1
  OBVIOUS
<1> HIDE DEF t
<1>2. Numbers(t) = Numbers(s) \cup {e.n}
  BY <1>1 DEF Numbers
<1>3. ASSUME Rising(s), Below(Numbers(s), {e.n})
      PROVE  Rising(t)
  <2> SUFFICES ASSUME NEW i \in DOMAIN t, NEW k \in DOMAIN t,
                      i < k, IsEvent(t[i]), IsEvent(t[k])
               PROVE  t[i].n < t[k].n
    BY DEF Rising
  <2>1. i \in DOMAIN s
    BY <1>1
  <2>2. CASE k \in DOMAIN s
    BY <1>1, <1>3, <2>1, <2>2 DEF Rising
  <2>3. CASE k = Len(s) + 1
    <3>1. s[i].n \in Numbers(s)
      BY <1>1, <2>1 DEF Numbers
    <3> QED
      BY <1>1, <1>3, <2>1, <2>3, <3>1 DEF Below
  <2> QED
    BY <1>1, <2>2, <2>3
<1> QED
  BY <1>1, <1>2, <1>3 DEF t

LEMMA TailEvents ==
    ASSUME NEW S, NEW s \in Seq(S), s # <<>>
    PROVE  /\ Tail(s) \in Seq(S) /\ Head(s) \in S
           /\ Numbers(s) = Numbers(Tail(s)) \cup (IF IsEvent(Head(s)) THEN {Head(s).n} ELSE {})
           /\ Rising(s) => Rising(Tail(s))
           /\ Rising(s) /\ IsEvent(Head(s)) => Below({Head(s).n}, Numbers(Tail(s)))
<1> DEFINE t == Tail(s)
<1>1. /\ t \in Seq(S) /\ Head(s) \in S /\ Head(s) = s[1]
      /\ 1 \in DOMAIN s /\ Len(t) = Len(s) - 1
      /\ \A i \in DOMAIN t : i + 1 \in DOMAIN s /\ t[i] = s[i + 1]
      /\ \A i \in DOMAIN s : i = 1 \/ (i - 1 \in DOMAIN t /\ s[i] = t[i - 1])
  OBVIOUS
<1>2. DOMAIN t \subseteq Nat \ {0} /\ DOMAIN s \subseteq Nat \ {0}
  BY <1>1
<1> HIDE DEF t
<1>3. Numbers(t) \subseteq Numbers(s)
  BY <1>1 DEF Numbers
<1>4. \A x \in Numbers(s) : x \in Numbers(t) \/ (IsEvent(s[1]) /\ x = s[1].n)
  BY <1>1 DEF Numbers
<1>5. IsEvent(s[1]) => s[1].n \in Numbers(s)
  BY <1>1 DEF Numbers
<1>6. Numbers(s) = Numbers(t) \cup (IF IsEvent(Head(s)) THEN {Head(s).n} ELSE {})
  BY <1>1, <1>3, <1>4, <1>5
<1>7. Rising(s) => Rising(t)
  BY <1>1, <1>2 DEF Rising
<1>8. Rising(s) /\ IsEvent(s[1]) => Below({s[1].n}, Numbers(t))
  <2> SUFFICES ASSUME Rising(s), IsEvent(s[1]), NEW i \in DOMAIN t, IsEvent(t[i])
               PROVE  s[1].n < t[i].n
    BY DEF Below, Numbers
  <2>1. 1 < i + 1 /\ i + 1 \in DOMAIN s /\ t[i] = s[i + 1]
    BY <1>1, <1>2
  <2> QED
    BY <1>1, <2>1 DEF Rising
<1> QED
  BY <1>1, <1>6, <1>7, <1>8 DEF t

LEMMA OneEntry ==
    ASSUME NEW S, NEW s \in Seq(S), NEW e \in S
    PROVE  /\ Len(s) = 1 => Tail(s) = <<>> /\ Append(Tail(s), Head(s)) = s
           /\ Append(<<>>, e) = <<e>> /\ <<e>> \in Seq(S) /\ Len(<<e>>) = 1
           /\ s \o <<e>> = Append(s, e) /\ s \o <<>> = s
           /\ IsEvent(e) => Numbers(<<e>>) = {e.n} /\ Rising(<<e>>)
<1>1. Len(s) = 1 => Tail(s) = <<>> /\ Head(s) \in S /\ Head(s) = s[1]
  <2> SUFFICES ASSUME Len(s) = 1
               PROVE  Tail(s) = <<>> /\ Head(s) \in S /\ Head(s) = s[1]
    OBVIOUS
  <2>1. s # <<>> /\ Head(s) = s[1]
    OBVIOUS
  <2>2. Tail(s) \in Seq(S) /\ Len(Tail(s)) = 0 /\ Head(s) \in S
    BY <2>1, HeadTailProperties
  <2> QED
    BY <2>1, <2>2, EmptySeq
<1>2. <<e>> \in Seq(S) /\ Len(<<e>>) = 1 /\ <<e>>[1] = e
  OBVIOUS
<1>3. \A x \in S : /\ Append(<<>>, x) \in Seq(S) /\ Len(Append(<<>>, x)) = 1
                   /\ Append(<<>>, x)[1] = x
  BY EmptySeq, AppendProperties
<1>4. Append(<<>>, e) = <<e>>
  BY <1>2, <1>3, SeqEqual
<1>5. s \o <<e>> = Append(s, e) /\ s \o <<>> = s
  BY AppendIsConcat, ConcatEmptySeq
<1>6. Len(s) = 1 => Append(Tail(s), Head(s)) = s
  <2> SUFFICES ASSUME Len(s) = 1 PROVE Append(<<>>, Head(s)) = s
    BY <1>1
  <2> QED
    BY <1>1, <1>3, SeqEqual
<1>7. IsEvent(e) => Numbers(<<e>>) = {e.n} /\ Rising(<<e>>)
  BY DEF Numbers, Rising
<1> QED
  BY <1>1, <1>2, <1>4, <1>5, <1>6, <1>7

----------------------------------------------------------------------------
(* An item is an event in one place only, and the places are in order.      *)

InPlace ==
    /\ Rising(msgs) /\ Rising(pending) /\ Rising(inbox)
    /\ Below(Numbers(msgs), Numbers(pending))
    /\ Below(Numbers(msgs), Numbers(inbox))
    /\ Below(Numbers(pending), Numbers(inbox))
    /\ Numbers(msgs) \cup Numbers(pending) \cup Numbers(inbox) = 1 .. events

\* Only a suspended loop puts an event on pendingItems, and there it stays the
\* only item.
DeferredAlone == Numbers(pending) # {} => suspended /\ Len(pending) = 1

OrderInv == InPlace /\ DeferredAlone

LEMMA OrderInit == Init => OrderInv
<1> SUFFICES ASSUME Init PROVE OrderInv
  OBVIOUS
<1>1. msgs = <<>> /\ pending = <<>> /\ inbox = <<>> /\ 1 .. events = {}
  BY DEF Init
<1> QED
  BY <1>1, EmptyEvents DEF OrderInv, InPlace, DeferredAlone, Below

LEMMA AloneKept ==
    ASSUME DeferredAlone, pending' = pending, suspended' = suspended
    PROVE  DeferredAlone'
  BY DEF DeferredAlone

\* A step that adds other messages to the conversation, other frames to the
\* inbox, or nothing.
LEMMA QuietOrder ==
    ASSUME TypeOK, TypeOK', OrderInv, Quiet(msgs, msgs'), Quiet(inbox, inbox'),
           UNCHANGED <<pending, suspended, events>>
    PROVE  OrderInv'
<1>1. Numbers(msgs') = Numbers(msgs) /\ (Rising(msgs) => Rising(msgs'))
  BY QuietKeeps DEF TypeOK
<1>2. Numbers(inbox') = Numbers(inbox) /\ (Rising(inbox) => Rising(inbox'))
  BY QuietKeeps DEF TypeOK
<1>3. pending' = pending /\ suspended' = suspended /\ events' = events
  OBVIOUS
<1>4. InPlace'
  BY <1>1, <1>2, <1>3 DEF OrderInv, InPlace
<1>5. DeferredAlone'
  BY <1>3, AloneKept DEF OrderInv
<1> QED
  BY <1>4, <1>5 DEF OrderInv

LEMMA SameQuiet ==
    ASSUME NEW S, NEW s \in Seq(S)
    PROVE  Quiet(s, s)
  BY DEF Quiet

LEMMA EntryKinds ==
    /\ \A n : IsEvent(Entry("event", n)) /\ Entry("event", n).n = n
    /\ \A kind, n : kind # "event" => ~ IsEvent(Entry(kind, n))
  BY DEF Entry, IsEvent

LEMMA SendOrder == Inv /\ Inv' /\ OrderInv /\ SendEvent => OrderInv'
<1> SUFFICES ASSUME Inv, Inv', OrderInv, SendEvent PROVE OrderInv'
  OBVIOUS
<1> USE DEF Inv, TypeOK
<1> DEFINE e == Entry("event", events + 1)
<1>1. inbox' = Append(inbox, e) /\ events' = events + 1 /\ UNCHANGED <<pending, msgs, suspended>>
  BY DEF SendEvent
<1>2. e \in Items /\ IsEvent(e) /\ e.n = events + 1
  BY EntriesTyped, EntryKinds DEF SendEvent
<1>3. \A a \in 1 .. events : a < e.n
  <2>1. \A a \in 1 .. events : a < events + 1
    OBVIOUS
  <2> QED
    BY <1>2, <2>1
<1>4. Below(Numbers(inbox), {e.n}) /\ Below(Numbers(msgs), {e.n}) /\ Below(Numbers(pending), {e.n})
  BY <1>3 DEF OrderInv, InPlace, Below
<1>5. Numbers(inbox') = Numbers(inbox) \cup {events + 1} /\ Rising(inbox')
  BY <1>1, <1>2, <1>4, AppendEvent DEF OrderInv, InPlace
<1>6. 1 .. events' = (1 .. events) \cup {events + 1}
  BY <1>1
<1>7. Rising(msgs') /\ Rising(pending') /\ Numbers(msgs') = Numbers(msgs)
      /\ Numbers(pending') = Numbers(pending)
  BY <1>1 DEF OrderInv, InPlace
<1>8. InPlace'
  <2>1. Below(Numbers(msgs'), Numbers(pending'))
    BY <1>7 DEF OrderInv, InPlace
  <2>2. Below(Numbers(msgs'), Numbers(inbox')) /\ Below(Numbers(pending'), Numbers(inbox'))
    BY ONLY OrderInv, <1>4, <1>5, <1>7, <1>2 DEF OrderInv, InPlace, Below
  <2>3. Numbers(msgs') \cup Numbers(pending') \cup Numbers(inbox') = 1 .. events'
    BY ONLY OrderInv, <1>5, <1>6, <1>7 DEF OrderInv, InPlace
  <2> QED
    BY ONLY <1>5, <1>7, <2>1, <2>2, <2>3 DEF InPlace
<1>9. DeferredAlone'
  BY <1>1, AloneKept DEF OrderInv
<1> QED
  BY <1>8, <1>9 DEF OrderInv

LEMMA FrameOrder ==
    ASSUME Inv, Inv', OrderInv,
           NEW kind, kind # "event", inbox' = Append(inbox, Entry(kind, 0)),
           UNCHANGED <<pending, msgs, suspended, events>>
    PROVE  OrderInv'
<1>1. inbox \in Seq(Items \cup {Entry(kind, 0)}) /\ ~ IsEvent(Entry(kind, 0))
  BY EntryKinds DEF Inv, TypeOK
<1>2. Quiet(inbox, inbox')
  BY <1>1, AppendQuiet
<1>3. Quiet(msgs, msgs')
  BY SameQuiet DEF Inv, TypeOK
<1> QED
  BY <1>2, <1>3, QuietOrder DEF Inv

\* The loop between two turns takes the first deferred item ...
LEMMA ReplayOrder == Inv /\ Inv' /\ OrderInv /\ Replay => OrderInv'
<1> SUFFICES ASSUME Inv, Inv', OrderInv, Replay PROVE OrderInv'
  OBVIOUS
<1> USE DEF Inv, TypeOK
<1> DEFINE item == Head(pending)
           rest == Tail(pending)
<1>1. /\ pending # <<>> /\ item \in Items /\ rest \in Seq(Items)
      /\ UNCHANGED <<inbox, events>> /\ Handle(item, rest)
  BY DEF Replay, inputs
<1>2. CASE IsEvent(item)
  <2>1. item.n \in Numbers(pending)
    BY <1>1, <1>2, TailEvents
  <2>2. suspended /\ Len(pending) = 1
    BY <2>1 DEF OrderInv, DeferredAlone
  <2>3. HandleEvent(item, rest)
    BY <1>1, <1>2, ControlsAssumption DEF Handle, HandleControl, IsEvent
  <2>4. pending' = Append(rest, item) /\ UNCHANGED <<msgs, suspended>>
    BY <2>2, <2>3, Zenon DEF HandleEvent
  <2>5. Append(rest, item) = pending
    BY <1>1, <2>2, OneEntry
  <2> QED
    BY <1>1, <2>4, <2>5, QuietOrder, SameQuiet
<1>3. CASE ~ IsEvent(item)
  <2>1. pending' = rest /\ UNCHANGED msgs
    BY <1>1, <1>3 DEF Handle, HandleEvent, HandleControl
  <2>2. Numbers(rest) = Numbers(pending) /\ (Rising(pending) => Rising(rest))
    BY <1>1, <1>3, TailEvents
  <2>3. Numbers(rest) = {}
    <3> SUFFICES ASSUME Numbers(rest) # {} PROVE FALSE
      OBVIOUS
    <3>1. Len(pending) = 1
      BY <2>2 DEF OrderInv, DeferredAlone
    <3>2. rest = <<>>
      BY <1>1, <3>1, OneEntry
    <3> QED
      BY <3>2, EmptyEvents
  <2>4. InPlace'
    BY <1>1, <2>1, <2>2 DEF OrderInv, InPlace
  <2>5. DeferredAlone'
    BY <2>1, <2>3 DEF DeferredAlone
  <2> QED
    BY <2>4, <2>5 DEF OrderInv
<1> QED
  BY <1>2, <1>3

\* ... and when there is none, the first of the inbox.
LEMMA ReceiveOrder == Inv /\ Inv' /\ OrderInv /\ Receive => OrderInv'
<1> SUFFICES ASSUME Inv, Inv', OrderInv, Receive PROVE OrderInv'
  OBVIOUS
<1> USE DEF Inv, TypeOK
<1> DEFINE item == Head(inbox)
           rest == Tail(inbox)
<1>1. /\ pending = <<>> /\ inbox # <<>> /\ inbox' = rest /\ item \in Items
      /\ UNCHANGED events /\ Handle(item, <<>>)
  BY DEF Receive
<1>2. Numbers(pending) = {}
  BY <1>1, EmptyEvents
<1>3. CASE IsEvent(item) /\ suspended
  <2>1. HandleEvent(item, <<>>)
    BY <1>1, <1>3, ControlsAssumption DEF Handle, HandleControl, IsEvent
  <2>2. pending' = Append(<<>>, item) /\ UNCHANGED <<msgs, suspended>>
    BY <1>3, <2>1, Zenon DEF HandleEvent
  <2>3. /\ Numbers(inbox) = Numbers(rest) \cup {item.n} /\ Rising(rest)
        /\ Below({item.n}, Numbers(rest))
    BY <1>1, <1>3, TailEvents DEF OrderInv, InPlace
  <2>4. Numbers(pending') = {item.n} /\ Rising(pending') /\ Len(pending') = 1
    <3>1. pending' = <<item>> /\ Len(<<item>>) = 1
      BY <1>1, <2>2, OneEntry
    <3>2. Numbers(<<item>>) = {item.n} /\ Rising(<<item>>)
      BY <1>1, <1>3, OneEntry
    <3> QED
      BY <3>1, <3>2
  <2>5. InPlace'
    BY <1>1, <1>2, <2>2, <2>3, <2>4 DEF OrderInv, InPlace, Below
  <2>6. DeferredAlone'
    BY <1>3, <2>2, <2>4 DEF DeferredAlone
  <2> QED
    BY <2>5, <2>6 DEF OrderInv
<1>4. CASE IsEvent(item) /\ ~ suspended
  <2>1. HandleEvent(item, <<>>)
    BY <1>1, <1>4, ControlsAssumption DEF Handle, HandleControl, IsEvent
  <2>2. pending' = <<>> /\ msgs' = Append(msgs, item)
    BY <1>4, <2>1, Zenon DEF HandleEvent
  <2>3. /\ Numbers(inbox) = Numbers(rest) \cup {item.n} /\ Rising(rest)
        /\ Below({item.n}, Numbers(rest))
    BY <1>1, <1>4, TailEvents DEF OrderInv, InPlace
  <2>4. Below(Numbers(msgs), {item.n})
    BY <2>3 DEF OrderInv, InPlace, Below
  <2>5. Numbers(msgs') = Numbers(msgs) \cup {item.n} /\ Rising(msgs')
    <3>1. item \in Messages
      BY <1>1, <1>4, ItemKinds
    <3> QED
      <4> HIDE DEF item
      <4>1. msgs \in Seq(Messages) /\ Rising(msgs)
        BY DEF OrderInv, InPlace
      <4> QED
        BY <1>4, <2>2, <2>4, <3>1, <4>1, AppendEvent
  <2>6. InPlace'
    BY <1>1, <1>2, <2>2, <2>3, <2>5 DEF OrderInv, InPlace, Below
  <2>7. DeferredAlone'
    BY <2>2, EmptyEvents DEF DeferredAlone
  <2> QED
    BY <2>6, <2>7 DEF OrderInv
<1>5. CASE ~ IsEvent(item)
  <2>1. pending' = <<>> /\ UNCHANGED msgs
    BY <1>1, <1>5 DEF Handle, HandleEvent, HandleControl
  <2>2. Numbers(inbox) = Numbers(rest) /\ Rising(rest)
    BY <1>1, <1>5, TailEvents DEF OrderInv, InPlace
  <2>3. InPlace'
    BY <1>1, <2>1, <2>2 DEF OrderInv, InPlace
  <2>4. DeferredAlone'
    BY <2>1, EmptyEvents DEF DeferredAlone
  <2> QED
    BY <2>3, <2>4 DEF OrderInv
<1> QED
  BY <1>3, <1>4, <1>5

\* In a turn the loop is not suspended: events go to the conversation, other
\* frames to pendingItems.
LEMMA FoldOrder == Inv /\ Inv' /\ OrderInv /\ Fold => OrderInv'
<1> SUFFICES ASSUME Inv, Inv', OrderInv, Fold PROVE OrderInv'
  OBVIOUS
<1> USE DEF Inv, TypeOK
<1> DEFINE item == Head(inbox)
           rest == Tail(inbox)
<1>1. /\ inbox # <<>> /\ inbox' = rest /\ item \in Items
      /\ msgs' = msgs \o Folded(item) /\ pending' = pending \o Deferred(item)
      /\ UNCHANGED <<suspended, events>>
  BY DEF Fold
<1>2. ~ suspended
  BY DEF Fold, NoTurnWhileSuspended, Turn
<1>3. Numbers(pending) = {}
  BY <1>2, Zenon DEF OrderInv, DeferredAlone
<1>4. CASE IsEvent(item)
  <2>1. Folded(item) = <<item>> /\ Deferred(item) = <<>>
    BY <1>2, <1>4, Zenon DEF Folded, Deferred, Takes
  <2>2. msgs' = Append(msgs, item) /\ pending' = pending
    <3>1. item \in Messages
      BY <1>1, <1>4, ItemKinds
    <3>2. msgs \o <<item>> = Append(msgs, item) /\ pending \o <<>> = pending
      <4> HIDE DEF item
      <4> QED
        BY <3>1, OneEntry, ConcatEmptySeq
    <3> QED
      BY <1>1, <2>1, <3>2
  <2>3. /\ Numbers(inbox) = Numbers(rest) \cup {item.n} /\ Rising(rest)
        /\ Below({item.n}, Numbers(rest))
    BY <1>1, <1>4, TailEvents DEF OrderInv, InPlace
  <2>4. Below(Numbers(msgs), {item.n})
    BY <2>3 DEF OrderInv, InPlace, Below
  <2>5. Numbers(msgs') = Numbers(msgs) \cup {item.n} /\ Rising(msgs')
    <3>1. item \in Messages
      BY <1>1, <1>4, ItemKinds
    <3> QED
      <4> HIDE DEF item
      <4>1. msgs \in Seq(Messages) /\ Rising(msgs)
        BY DEF OrderInv, InPlace
      <4> QED
        BY <1>4, <2>2, <2>4, <3>1, <4>1, AppendEvent
  <2>6. InPlace'
    BY <1>1, <1>3, <2>2, <2>3, <2>5 DEF OrderInv, InPlace, Below
  <2>7. DeferredAlone'
    BY <1>3, <2>2 DEF DeferredAlone
  <2> QED
    BY <2>6, <2>7 DEF OrderInv
<1>5. CASE ~ IsEvent(item)
  <2>1. Folded(item) = <<>> /\ Deferred(item) = <<item>>
    BY <1>5, Zenon DEF Folded, Deferred, Takes
  <2>2. msgs' = msgs /\ pending' = Append(pending, item)
    <3>1. pending \o <<item>> = Append(pending, item) /\ msgs \o <<>> = msgs
      <4>1. item \in Items
        BY <1>1
      <4> HIDE DEF item
      <4> QED
        BY <4>1, OneEntry, ConcatEmptySeq
    <3> QED
      BY <1>1, <2>1, <3>1
  <2>3. Numbers(pending') = {} /\ Rising(pending')
    <3>1. Quiet(pending, pending') /\ pending' \in Seq(Items)
      <4>1. item \in Items
        BY <1>1
      <4> HIDE DEF item
      <4> QED
        BY <1>5, <2>2, <4>1, AppendQuiet
    <3> QED
      BY <1>3, <3>1, QuietKeeps DEF OrderInv, InPlace
  <2>4. Numbers(inbox) = Numbers(rest) /\ Rising(rest)
    BY <1>1, <1>5, TailEvents DEF OrderInv, InPlace
  <2>5. InPlace'
    BY <1>1, <1>3, <2>2, <2>3, <2>4 DEF OrderInv, InPlace
  <2>6. DeferredAlone'
    BY <2>3 DEF DeferredAlone
  <2> QED
    BY <2>5, <2>6 DEF OrderInv
<1> QED
  BY <1>4, <1>5

\* The other actions leave pendingItems alone and put no event anywhere.
LEMMA MessagesOrder ==
    ASSUME Inv, Inv', OrderInv, Quiet(msgs, msgs'), inbox' = inbox,
           UNCHANGED <<pending, suspended, events>>
    PROVE  OrderInv'
<1>1. Quiet(inbox, inbox')
  BY SameQuiet DEF Inv, TypeOK
<1> QED
  BY <1>1, QuietOrder DEF Inv

LEMMA StreamOrder ==
    Inv /\ Inv' /\ OrderInv /\ (SendControl \/ IdleGrace \/ StreamBreaks) => OrderInv'
<1> SUFFICES ASSUME Inv, Inv', OrderInv, SendControl \/ IdleGrace \/ StreamBreaks
             PROVE  OrderInv'
  OBVIOUS
<1>1. CASE SendControl
  <2>1. PICK op \in Controls : inbox' = Append(inbox, Entry(op, 0))
    BY <1>1 DEF SendControl
  <2>2. op # "event"
    BY ControlsAssumption
  <2>3. UNCHANGED <<pending, msgs, suspended, events>>
    BY <1>1 DEF SendControl
  <2> QED
    BY <2>1, <2>2, <2>3, FrameOrder
<1>2. ASSUME NEW kind \in {"eof", "error"}, StreamEnds(kind)
      PROVE  OrderInv'
  <2>1. kind # "event" /\ inbox' = Append(inbox, Entry(kind, 0))
    BY <1>2 DEF StreamEnds
  <2>2. UNCHANGED <<pending, msgs, suspended, events>>
    BY <1>2 DEF StreamEnds
  <2> QED
    BY <2>1, <2>2, FrameOrder
<1> QED
  BY <1>1, <1>2 DEF IdleGrace, StreamBreaks

LEMMA NoteOrder ==
    ASSUME Inv, Inv', OrderInv, NEW j \in Jobs, JobEnds(j) \/ FoldNote(j) \/ Wake(j)
    PROVE  OrderInv'
<1>1. inbox' = inbox /\ UNCHANGED <<pending, suspended, events>>
  BY DEF JobEnds, FoldNote, Wake, inputs
<1>2. msgs' = msgs \/ msgs' = Append(msgs, Entry("note", j))
  BY Zenon DEF JobEnds, FoldNote, Wake
<1>3. Entry("note", j) \in Messages /\ ~ IsEvent(Entry("note", j))
  BY EntriesTyped, EntryKinds
<1>4. msgs \in Seq(Messages)
  BY DEF Inv, TypeOK
<1>5. Quiet(msgs, Append(msgs, Entry("note", j))) /\ Quiet(msgs, msgs)
  BY <1>3, <1>4, SameQuiet, AppendQuiet
<1>6. Quiet(msgs, msgs')
  BY <1>2, <1>5, Zenon
<1> QED
  BY <1>1, <1>6, MessagesOrder

LEMMA TurnOrder ==
    ASSUME Inv, Inv', OrderInv,
           \/ AskKeepAlive \/ CallFails \/ StartRound \/ CallTool \/ EndBatch
           \/ ReplyEmpty \/ ReplyText \/ ReplyNudged \/ ReplyCalls
    PROVE  OrderInv'
<1>1. inbox' = inbox /\ UNCHANGED <<pending, suspended, events>>
  BY DEF AskKeepAlive, CallFails, StartRound, CallTool, EndBatch, ReplyEmpty, ReplyText,
         ReplyNudged, ReplyCalls, Reply, inputs
<1>2. msgs \in Seq(Messages)
  BY DEF Inv, TypeOK
<1> DEFINE Quietly(t) == t \in Seq(Messages) /\ \A i \in DOMAIN t : ~ IsEvent(t[i])
<1>3. /\ Quietly(<<>>)
      /\ \A kind \in {"say", "result", "summary", "reminder"} : Quietly(<<Entry(kind, 0)>>)
      /\ \A n \in 1 .. MaxBatch : Quietly(<<Entry("calls", n)>>)
  BY EntriesTyped, EntryKinds
<1>4. ASSUME NEW t, NEW u, Quietly(t), Quietly(u)
      PROVE  Quietly(t \o u)
  BY <1>4
<1>5. ASSUME NEW t, Quietly(t), msgs' = msgs \o t
      PROVE  Quiet(msgs, msgs')
  BY <1>2, <1>5 DEF Quiet
<1>6. \A wanted : Quietly(Reminder(wanted))
  BY <1>3 DEF Reminder
<1> HIDE DEF Quietly
<1>7. \A m \in Messages : Append(msgs, m) = msgs \o <<m>>
  BY <1>2, AppendIsConcat
<1>8. \A kind \in {"say", "result", "summary", "reminder"} :
         Append(msgs, Entry(kind, 0)) = msgs \o <<Entry(kind, 0)>>
  BY <1>7, EntriesTyped
<1>9. CASE AskKeepAlive \/ CallFails
  <2>1. msgs' = msgs
    BY <1>9 DEF AskKeepAlive, CallFails
  <2> QED
    BY <1>1, <1>2, <2>1, SameQuiet, MessagesOrder
<1>10. CASE StartRound
  <2>1. msgs' = msgs \/ msgs' = Append(msgs, Entry("reminder", 0))
    BY <1>10, Zenon DEF StartRound, CompactNudge
  <2>2. msgs' = msgs \/ msgs' = msgs \o <<Entry("reminder", 0)>>
    BY <1>8, <2>1
  <2> QED
    BY <1>1, <1>2, <1>3, <1>5, <2>2, SameQuiet, MessagesOrder
<1>11. CASE CallTool \/ ReplyText
  <2>1. \E kind \in {"result", "say"} : msgs' = msgs \o <<Entry(kind, 0)>>
    BY <1>8, <1>11 DEF CallTool, ReplyText
  <2> QED
    BY <1>1, <1>3, <1>5, <2>1, MessagesOrder
<1>12. CASE EndBatch
  <2> DEFINE t == IF summary THEN <<Entry("summary", 0)>> ELSE <<>>
  <2>1. msgs' = (msgs \o t) \o Reminder(mention)
    BY <1>12 DEF EndBatch
  <2>2. Quietly(t)
    BY <1>3
  <2>3. Quiet(msgs, msgs')
    <3> HIDE DEF t
    <3>1. t \in Seq(Messages) /\ Reminder(mention) \in Seq(Messages)
      BY <1>6, <2>2 DEF Quietly
    <3>2. msgs' = msgs \o (t \o Reminder(mention))
      BY <1>2, <2>1, <3>1, ConcatAssociative
    <3> QED
      BY <1>4, <1>5, <1>6, <2>2, <3>2
  <2> QED
    BY <1>1, <2>3, MessagesOrder
<1>13. CASE ReplyEmpty
  <2>1. \/ msgs' = Append(msgs, Entry("say", 0))
        \/ msgs' = msgs \o <<Entry("say", 0), Entry("reminder", 0)>>
    BY <1>13, Zenon DEF ReplyEmpty
  <2>2. <<Entry("say", 0), Entry("reminder", 0)>> = <<Entry("say", 0)>> \o <<Entry("reminder", 0)>>
    OBVIOUS
  <2>3. Quietly(<<Entry("say", 0), Entry("reminder", 0)>>)
    BY <1>3, <1>4, <2>2
  <2> QED
    BY <1>1, <1>3, <1>5, <1>8, <2>1, <2>3, MessagesOrder
<1>14. CASE ReplyNudged
  <2>1. PICK why : msgs' = (Append(msgs, Entry("say", 0)) \o Reminder("mention" \in why))
                              \o Reminder("promise" \in why)
    BY <1>14 DEF ReplyNudged
  <2> DEFINE s0 == <<Entry("say", 0)>>
             r1 == Reminder("mention" \in why)
             r2 == Reminder("promise" \in why)
  <2>2. msgs' = ((msgs \o s0) \o r1) \o r2
    BY <1>8, <2>1
  <2>3. Quietly(s0) /\ Quietly(r1) /\ Quietly(r2)
    BY <1>3, <1>6
  <2> HIDE DEF s0, r1, r2
  <2>4. s0 \in Seq(Messages) /\ r1 \in Seq(Messages) /\ r2 \in Seq(Messages)
    BY <2>3 DEF Quietly
  <2>5. (msgs \o s0) \o r1 = msgs \o (s0 \o r1)
    BY <1>2, <2>4, ConcatAssociative
  <2>6. Quietly(s0 \o r1) /\ s0 \o r1 \in Seq(Messages)
    BY <1>4, <2>3 DEF Quietly
  <2>7. (msgs \o (s0 \o r1)) \o r2 = msgs \o ((s0 \o r1) \o r2)
    <3> DEFINE t == s0 \o r1
    <3>1. t \in Seq(Messages)
      BY <2>6
    <3> HIDE DEF t
    <3>2. (msgs \o t) \o r2 = msgs \o (t \o r2)
      BY <1>2, <2>4, <3>1, ConcatAssociative
    <3> QED
      BY <3>2 DEF t
  <2>8. Quietly((s0 \o r1) \o r2)
    BY <1>4, <2>3, <2>6
  <2>9. msgs' = msgs \o ((s0 \o r1) \o r2)
    BY <2>2, <2>5, <2>7, Zenon
  <2> QED
    BY <1>1, <1>5, <2>8, <2>9, MessagesOrder
<1>15. CASE ReplyCalls
  <2>1. PICK calls \in Batches : msgs' = Append(msgs, Entry("calls", Len(calls)))
    BY <1>15 DEF ReplyCalls
  <2>2. Len(calls) \in 1 .. MaxBatch
    BY BatchTyped
  <2>3. msgs' = msgs \o <<Entry("calls", Len(calls))>>
    BY <1>7, <2>1, <2>2, EntriesTyped
  <2> QED
    BY <1>1, <1>3, <1>5, <2>2, <2>3, MessagesOrder
<1> QED
  BY <1>9, <1>10, <1>11, <1>12, <1>13, <1>14, <1>15

\* No action moves an event out of its place.
LEMMA OrderStep == Inv /\ Inv' /\ OrderInv /\ [Next]_vars => OrderInv'
<1> SUFFICES ASSUME Inv, Inv', OrderInv, [Next]_vars PROVE OrderInv'
  OBVIOUS
<1>1. CASE UNCHANGED vars
  <2>1. inbox' = inbox /\ msgs' = msgs /\ UNCHANGED <<pending, suspended, events>>
    BY <1>1 DEF vars
  <2>2. Quiet(msgs, msgs)
    BY SameQuiet DEF Inv, TypeOK
  <2> QED
    BY <2>1, <2>2, MessagesOrder
<1>2. CASE SendEvent \/ Replay \/ Receive \/ Fold
  BY <1>2, SendOrder, ReplayOrder, ReceiveOrder, FoldOrder
<1>3. CASE SendControl \/ IdleGrace \/ StreamBreaks
  BY <1>3, StreamOrder
<1>4. CASE \/ AskKeepAlive \/ CallFails \/ StartRound \/ CallTool \/ EndBatch
           \/ ReplyEmpty \/ ReplyText \/ ReplyNudged \/ ReplyCalls
  BY <1>4, TurnOrder
<1>5. ASSUME NEW j \in Jobs, JobEnds(j) \/ FoldNote(j) \/ Wake(j)
      PROVE  OrderInv'
  BY <1>5, NoteOrder
<1> QED
  BY <1>1, <1>2, <1>3, <1>4, <1>5 DEF Next, LoopStep

\* What the concatenation of the places holds, and when it is in order.
LEMMA ConcatEvents ==
    ASSUME NEW S, NEW s \in Seq(S), NEW t \in Seq(S)
    PROVE  /\ s \o t \in Seq(S)
           /\ Numbers(s \o t) = Numbers(s) \cup Numbers(t)
           /\ Rising(s) /\ Rising(t) /\ Below(Numbers(s), Numbers(t)) => Rising(s \o t)
<1> DEFINE u == s \o t
<1>1. /\ u \in Seq(S) /\ Len(u) = Len(s) + Len(t) /\ Len(s) \in Nat /\ Len(t) \in Nat
      /\ \A i \in 1 .. Len(s) + Len(t) : u[i] = IF i <= Len(s) THEN s[i] ELSE t[i - Len(s)]
  BY ConcatProperties
<1>2. \A i \in DOMAIN u : \/ i \in DOMAIN s /\ u[i] = s[i]
                          \/ i > Len(s) /\ i - Len(s) \in DOMAIN t /\ u[i] = t[i - Len(s)]
  BY <1>1
<1>3. \A i \in DOMAIN s : i \in DOMAIN u /\ u[i] = s[i] /\ i <= Len(s)
  BY <1>1
<1>4. \A i \in DOMAIN t : i + Len(s) \in DOMAIN u /\ u[i + Len(s)] = t[i]
  BY <1>1
<1>5. DOMAIN u \subseteq Nat
  BY <1>1
<1> HIDE DEF u
<1>6. Numbers(u) = Numbers(s) \cup Numbers(t)
  BY <1>2, <1>3, <1>4 DEF Numbers
<1>7. ASSUME Rising(s), Rising(t), Below(Numbers(s), Numbers(t)),
             NEW i \in DOMAIN u, NEW k \in DOMAIN u, i < k, IsEvent(u[i]), IsEvent(u[k])
      PROVE  u[i].n < u[k].n
  <2>1. CASE i \in DOMAIN s /\ k \in DOMAIN s
    BY <1>3, <1>7, <2>1 DEF Rising
  <2>2. CASE i \in DOMAIN s /\ k \notin DOMAIN s
    <3>1. u[i].n \in Numbers(s)
      BY <1>3, <1>7, <2>2 DEF Numbers
    <3>2. u[k].n \in Numbers(t)
      BY <1>2, <1>7, <2>2 DEF Numbers
    <3> QED
      BY <1>7, <3>1, <3>2 DEF Below
  <2>3. CASE i \notin DOMAIN s
    <3>1. i > Len(s) /\ i - Len(s) \in DOMAIN t /\ u[i] = t[i - Len(s)]
      BY <1>2, <2>3
    <3>2. k > Len(s) /\ k - Len(s) \in DOMAIN t /\ u[k] = t[k - Len(s)]
      BY <1>1, <1>2, <1>3, <1>5, <1>7, <3>1
    <3>3. i - Len(s) < k - Len(s)
      BY <1>1, <1>5, <1>7
    <3> QED
      BY <1>7, <3>1, <3>2, <3>3 DEF Rising
  <2> QED
    BY <2>1, <2>2, <2>3
<1>8. Rising(s) /\ Rising(t) /\ Below(Numbers(s), Numbers(t)) => Rising(u)
  BY <1>7 DEF Rising
<1> QED
  BY <1>1, <1>6, <1>8 DEF u

\* In place, the events are those that were sent, in their order.
LEMMA PlacesSuffice == TypeOK /\ OrderInv => NothingForgotten
<1> SUFFICES ASSUME TypeOK, OrderInv PROVE NothingForgotten
  OBVIOUS
<1> DEFINE S   == Items \cup Messages
           all == msgs \o pending \o inbox
<1>1. msgs \in Seq(S) /\ pending \in Seq(S) /\ inbox \in Seq(S)
  <2>1. msgs \in Seq(Messages) /\ pending \in Seq(Items) /\ inbox \in Seq(Items)
    BY DEF TypeOK
  <2> QED
    BY <2>1, SeqMonotonic
<1>2. /\ Rising(msgs) /\ Rising(pending) /\ Rising(inbox)
      /\ Below(Numbers(msgs), Numbers(pending))
      /\ Below(Numbers(msgs) \cup Numbers(pending), Numbers(inbox))
      /\ Numbers(msgs) \cup Numbers(pending) \cup Numbers(inbox) = 1 .. events
  BY DEF OrderInv, InPlace, Below
<1> HIDE DEF S
<1>3. /\ msgs \o pending \in Seq(S) /\ Rising(msgs \o pending)
      /\ Numbers(msgs \o pending) = Numbers(msgs) \cup Numbers(pending)
  BY <1>1, <1>2, ConcatEvents
<1>4. /\ all \in Seq(S) /\ Rising(all)
      /\ Numbers(all) = 1 .. events
  <2> DEFINE front == msgs \o pending
  <2>1. front \in Seq(S) /\ Rising(front) /\ Below(Numbers(front), Numbers(inbox))
        /\ Numbers(front) \cup Numbers(inbox) = 1 .. events
    BY <1>2, <1>3
  <2> HIDE DEF front
  <2>2. /\ front \o inbox \in Seq(S) /\ Rising(front \o inbox)
        /\ Numbers(front \o inbox) = 1 .. events
    BY <1>1, <1>2, <2>1, ConcatEvents
  <2> QED
    BY <2>2 DEF front
<1> HIDE DEF all
<1>5. ASSUME NEW k \in 1 .. events
      PROVE  \E i \in DOMAIN all : all[i] = Entry("event", k)
  <2>1. PICK i \in DOMAIN all : IsEvent(all[i]) /\ all[i].n = k
    BY <1>4 DEF Numbers
  <2>2. all[i] \in S
    BY <1>4
  <2>3. all[i] \in [kind : {"event"}, n : 1 .. MaxEvents]
    BY <2>1, <2>2, ControlsAssumption DEF S, Items, Messages, IsEvent
  <2>4. all[i] = Entry("event", k)
    BY <2>1, <2>3 DEF Entry
  <2> QED
    BY <2>4
<1>6. \A i, k \in DOMAIN all :
         i < k /\ IsEvent(all[i]) /\ IsEvent(all[k]) => all[i].n < all[k].n
  BY <1>4 DEF Rising
<1> QED
  BY <1>5, <1>6 DEF NothingForgotten, all

\* Run, handleFrame, applyInboxItem: from the stream to the conversation no
\* event is lost, doubled or overtaken, suspended or not.
THEOREM EventsKept == Spec => []NothingForgotten
<1>1. Init => OrderInv
  BY OrderInit
<1>2. Inv /\ Inv' /\ OrderInv /\ [Next]_vars => OrderInv'
  BY OrderStep
<1>3. Inv /\ OrderInv => NothingForgotten
  BY PlacesSuffice DEF Inv
<1> QED
  BY <1>1, <1>2, <1>3, Invariance, PTL DEF Spec

----------------------------------------------------------------------------
(* The messages with tool calls and their results.                          *)

Plain(m) == m.kind \notin {"calls", "result"}

\* A message with calls is followed by their results without a gap, of which
\* the last `owed' of the conversation may still be missing; each result
\* belongs to such a message.
Answered(ms, owed) ==
    \A i \in DOMAIN ms : ms[i].kind = "calls" =>
        /\ i + ms[i].n <= Len(ms) + owed
        /\ \A d \in 1 .. ms[i].n : i + d <= Len(ms) => ms[i + d].kind = "result"
Called(ms) ==
    \A i \in DOMAIN ms : ms[i].kind = "result" =>
        \E d \in 1 .. MaxBatch :
            i - d \in DOMAIN ms /\ ms[i - d].kind = "calls" /\ ms[i - d].n >= d
Owing(ms, owed) ==
    owed > 0 => \E c \in DOMAIN ms : ms[c].kind = "calls" /\ c + ms[c].n = Len(ms) + owed
Whole(ms, owed) == Answered(ms, owed) /\ Called(ms) /\ Owing(ms, owed)

\* The part of the conversation that was sent ends with all results in it.
RequestWhole ==
    stage = "call" =>
        /\ seen <= Len(msgs)
        /\ \A i \in 1 .. seen : msgs[i].kind = "calls" => i + msgs[i].n <= seen

CallInv ==
    /\ Whole(msgs, Len(todo))
    /\ stage # "tools" => todo = <<>>
    /\ RequestWhole

LEMMA EmptyWhole == Whole(<<>>, 0)
  BY DEF Whole, Answered, Called, Owing

\* The number of calls in a message.
LEMMA CallCount ==
    ASSUME NEW m \in Messages, m.kind = "calls"
    PROVE  m.n \in 1 .. MaxBatch
  BY DEF Messages

LEMMA PlainWhole ==
    ASSUME NEW ms \in Seq(Messages), Whole(ms, 0), NEW m \in Messages, Plain(m)
    PROVE  Whole(Append(ms, m), 0)
<1> DEFINE t == Append(ms, m)
<1>1. Len(t) = Len(ms) + 1 /\ t[Len(ms) + 1] = m /\ \A i \in DOMAIN ms : t[i] = ms[i]
  OBVIOUS
<1>2. DOMAIN t = 1 .. Len(ms) + 1 /\ DOMAIN ms = 1 .. Len(ms) /\ Len(ms) \in Nat
  OBVIOUS
<1> HIDE DEF t
<1>3. \A i \in DOMAIN ms : ms[i].kind = "calls" => ms[i].n \in 1 .. MaxBatch
  BY CallCount
<1>4. Answered(t, 0)
  BY <1>1, <1>2, <1>3, BoundsAssumption DEF Whole, Answered, Plain
<1>5. Called(t)
  <2> SUFFICES ASSUME NEW i \in DOMAIN ms, ms[i].kind = "result"
               PROVE  \E d \in 1 .. MaxBatch :
                         i - d \in DOMAIN t /\ t[i - d].kind = "calls" /\ t[i - d].n >= d
    BY <1>1, <1>2 DEF Called, Plain
  <2>1. PICK d \in 1 .. MaxBatch :
            i - d \in DOMAIN ms /\ ms[i - d].kind = "calls" /\ ms[i - d].n >= d
    BY DEF Whole, Called
  <2> QED
    BY <1>1, <1>2, <2>1
<1> QED
  BY <1>4, <1>5 DEF t, Whole, Owing

LEMMA CallsWhole ==
    ASSUME NEW ms \in Seq(Messages), Whole(ms, 0), NEW n \in 1 .. MaxBatch
    PROVE  Whole(Append(ms, Entry("calls", n)), n)
<1> DEFINE m == Entry("calls", n)
           t == Append(ms, m)
<1>0. m \in Messages /\ m.kind = "calls" /\ m.n = n
  BY EntriesTyped DEF Entry
<1> HIDE DEF m
<1>1. Len(t) = Len(ms) + 1 /\ t[Len(ms) + 1] = m /\ \A i \in DOMAIN ms : t[i] = ms[i]
  BY <1>0
<1>2. DOMAIN t = 1 .. Len(ms) + 1 /\ DOMAIN ms = 1 .. Len(ms) /\ Len(ms) \in Nat
  BY <1>0
<1> HIDE DEF t
<1>3. \A i \in DOMAIN ms : ms[i].kind = "calls" => ms[i].n \in 1 .. MaxBatch
  BY CallCount
<1>4. Answered(t, n)
  BY <1>0, <1>1, <1>2, <1>3, BoundsAssumption DEF Whole, Answered
<1>5. Called(t)
  <2> SUFFICES ASSUME NEW i \in DOMAIN ms, ms[i].kind = "result"
               PROVE  \E d \in 1 .. MaxBatch :
                         i - d \in DOMAIN t /\ t[i - d].kind = "calls" /\ t[i - d].n >= d
    BY <1>0, <1>1, <1>2 DEF Called
  <2>1. PICK d \in 1 .. MaxBatch :
            i - d \in DOMAIN ms /\ ms[i - d].kind = "calls" /\ ms[i - d].n >= d
    BY DEF Whole, Called
  <2> QED
    BY <1>1, <1>2, <2>1
<1>6. Owing(t, n)
  BY <1>0, <1>1, <1>2 DEF Owing
<1> QED
  BY <1>4, <1>5, <1>6 DEF t, m, Whole

LEMMA ResultWhole ==
    ASSUME NEW ms \in Seq(Messages), NEW owed \in Nat, Whole(ms, owed + 1)
    PROVE  Whole(Append(ms, Entry("result", 0)), owed)
<1> DEFINE m == Entry("result", 0)
           t == Append(ms, m)
<1>0. m \in Messages /\ m.kind = "result"
  BY EntriesTyped DEF Entry
<1> HIDE DEF m
<1>1. Len(t) = Len(ms) + 1 /\ t[Len(ms) + 1] = m /\ \A i \in DOMAIN ms : t[i] = ms[i]
  BY <1>0
<1>2. DOMAIN t = 1 .. Len(ms) + 1 /\ DOMAIN ms = 1 .. Len(ms) /\ Len(ms) \in Nat
  BY <1>0
<1> HIDE DEF t
<1>3. \A i \in DOMAIN ms : ms[i].kind = "calls" => ms[i].n \in 1 .. MaxBatch
  BY CallCount
<1>4. Answered(t, owed)
  BY <1>0, <1>1, <1>2, <1>3, BoundsAssumption DEF Whole, Answered
<1>5. PICK c \in DOMAIN ms : ms[c].kind = "calls" /\ c + ms[c].n = Len(ms) + owed + 1
  BY DEF Whole, Owing
<1>6. Called(t)
  <2>1. ASSUME NEW i \in DOMAIN ms, ms[i].kind = "result"
        PROVE  \E d \in 1 .. MaxBatch :
                  i - d \in DOMAIN t /\ t[i - d].kind = "calls" /\ t[i - d].n >= d
    <3>1. PICK d \in 1 .. MaxBatch :
              i - d \in DOMAIN ms /\ ms[i - d].kind = "calls" /\ ms[i - d].n >= d
      BY <2>1 DEF Whole, Called
    <3> QED
      BY <1>1, <1>2, <3>1
  <2>2. \E d \in 1 .. MaxBatch :
           Len(t) - d \in DOMAIN t /\ t[Len(t) - d].kind = "calls" /\ t[Len(t) - d].n >= d
    <3> DEFINE d == Len(t) - c
    <3>1. d \in 1 .. MaxBatch /\ ms[c].n >= d
      BY <1>1, <1>2, <1>3, <1>5, BoundsAssumption
    <3>2. Len(t) - d = c /\ c \in DOMAIN t /\ t[c] = ms[c]
      BY <1>1, <1>2
    <3> QED
      BY <1>5, <3>1, <3>2
  <2> QED
    BY <1>1, <1>2, <2>1, <2>2 DEF Called
<1>7. Owing(t, owed)
  BY <1>1, <1>2, <1>5 DEF Owing
<1> QED
  BY <1>4, <1>6, <1>7 DEF t, m, Whole

\* A reminder, or none, behind a conversation that owes no result.
LEMMA ReminderWhole ==
    ASSUME NEW ms \in Seq(Messages), Whole(ms, 0), NEW wanted
    PROVE  ms \o Reminder(wanted) \in Seq(Messages) /\ Whole(ms \o Reminder(wanted), 0)
<1>1. Entry("reminder", 0) \in Messages /\ Plain(Entry("reminder", 0))
  BY EntriesTyped DEF Plain, Entry
<1>2. CASE wanted
  <2> DEFINE m == Entry("reminder", 0)
  <2>1. Append(ms, m) \in Seq(Messages) /\ Whole(Append(ms, m), 0)
    BY <1>1, PlainWhole
  <2>2. ms \o Reminder(wanted) = Append(ms, m)
    BY <1>1, <1>2, AppendIsConcat DEF Reminder
  <2> QED
    BY <2>1, <2>2, Zenon
<1>3. CASE ~ wanted
  BY <1>3, ConcatEmptySeq DEF Reminder
<1> QED
  BY <1>2, <1>3

----------------------------------------------------------------------------
LEMMA CallInit == Init => CallInv
  BY EmptyWhole DEF Init, CallInv, RequestWhole

\* Entries other than calls and results, behind a conversation that owes none
\* and outside a request.
LEMMA CallKept ==
    ASSUME Inv, CallInv, stage # "tools", todo' = todo, stage' # "call",
           msgs' = msgs \/ \E m \in Messages : Plain(m) /\ msgs' = Append(msgs, m)
    PROVE  CallInv'
<1>1. todo = <<>> /\ Whole(msgs, 0) /\ msgs \in Seq(Messages)
  BY DEF CallInv, Inv, TypeOK
<1>2. Whole(msgs', 0)
  BY <1>1, PlainWhole
<1> QED
  BY <1>1, <1>2 DEF CallInv, RequestWhole

\* While a request is under way the conversation grows behind what was sent.
LEMMA CallGrows ==
    ASSUME Inv, CallInv, stage \in {"round", "call"}, UNCHANGED <<stage, seen, todo>>,
           msgs' = msgs \/ \E m \in Messages : Plain(m) /\ msgs' = Append(msgs, m)
    PROVE  CallInv'
<1>1. todo = <<>> /\ Whole(msgs, 0) /\ msgs \in Seq(Messages)
  BY DEF CallInv, Inv, TypeOK
<1>2. Whole(msgs', 0)
  BY <1>1, PlainWhole
<1>3. Len(msgs) <= Len(msgs') /\ \A i \in 1 .. Len(msgs) : msgs'[i] = msgs[i]
  <2>1. ASSUME NEW m \in Messages, msgs' = Append(msgs, m)
        PROVE  Len(msgs) <= Len(msgs') /\ \A i \in 1 .. Len(msgs) : msgs'[i] = msgs[i]
    BY <1>1, <2>1
  <2> QED
    BY <1>1, <2>1
<1>4. RequestWhole'
  <2> SUFFICES ASSUME stage = "call"
               PROVE  /\ seen <= Len(msgs')
                      /\ \A i \in 1 .. seen : msgs'[i].kind = "calls" => i + msgs'[i].n <= seen
    BY DEF RequestWhole
  <2>1. seen <= Len(msgs) /\ \A i \in 1 .. seen : msgs[i].kind = "calls" => i + msgs[i].n <= seen
    BY DEF CallInv, RequestWhole
  <2>2. seen \in Nat /\ Len(msgs) \in Nat /\ Len(msgs') \in Nat
    BY <1>1, PlainWhole DEF Inv, TypeOK
  <2>3. seen <= Len(msgs') /\ \A i \in 1 .. seen : msgs'[i] = msgs[i]
    BY <1>3, <2>1, <2>2
  <2> QED
    BY <2>1, <2>3
<1> QED
  BY <1>1, <1>2, <1>4 DEF CallInv

\* Nothing of it changes.
LEMMA CallSame ==
    ASSUME CallInv, UNCHANGED <<stage, seen, todo, msgs>>
    PROVE  CallInv'
  BY DEF CallInv, RequestWhole

\* No action puts anything between calls and their results, and a request
\* begins when none is owed.
LEMMA CallStep == Inv /\ CallInv /\ [Next]_vars => CallInv'
<1> SUFFICES ASSUME Inv, CallInv, [Next]_vars PROVE CallInv'
  OBVIOUS
<1>0. msgs \in Seq(Messages) /\ seen \in Nat /\ todo \in Seq(Tools)
  BY DEF Inv, TypeOK
<1>00. /\ \A kind \in {"say", "summary", "reminder"} :
              Entry(kind, 0) \in Messages /\ Plain(Entry(kind, 0))
       /\ \A j \in Jobs : Entry("note", j) \in Messages /\ Plain(Entry("note", j))
  BY EntriesTyped DEF Plain, Entry
<1>000. \A item \in Items : IsEvent(item) => item \in Messages /\ Plain(item)
  BY ItemKinds DEF IsEvent, Plain
<1>1. CASE \/ SendEvent \/ SendControl \/ AskKeepAlive \/ IdleGrace \/ StreamBreaks
           \/ UNCHANGED vars
  BY <1>1, CallSame
  DEF SendEvent, SendControl, AskKeepAlive, IdleGrace, StreamBreaks, StreamEnds, turnVars,
      batching, vars
<1>2. CASE Replay \/ Receive
  <2>1. ASSUME NEW item \in Items, NEW rest, Handle(item, rest), stage = "idle"
        PROVE  /\ stage' # "call"
               /\ msgs' = msgs \/ \E m \in Messages : Plain(m) /\ msgs' = Append(msgs, m)
    <3>1. CASE HandleEvent(item, rest)
      BY <1>000, <2>1, <3>1 DEF HandleEvent, BeginTurn
    <3>2. CASE HandleControl(item, rest)
      BY <2>1, <3>2 DEF HandleControl
    <3> QED
      BY <2>1, <3>1, <3>2 DEF Handle
  <2>2. CASE Replay
    <3>1. Head(pending) \in Items
      BY <2>2 DEF Replay, Inv, TypeOK
    <3> QED
      BY <2>1, <2>2, <3>1, CallKept DEF Replay, batching
  <2>3. CASE Receive
    <3>1. Head(inbox) \in Items
      BY <2>3 DEF Receive, Inv, TypeOK
    <3> QED
      BY <2>1, <2>3, <3>1, CallKept DEF Receive, batching
  <2> QED
    BY <1>2, <2>2, <2>3
<1>3. CASE StartRound
  <2>1. stage = "round" /\ stage' = "call" /\ todo' = todo /\ seen' = Len(msgs')
    BY <1>3 DEF StartRound, batching
  <2>2. todo = <<>> /\ Whole(msgs, 0)
    BY <2>1 DEF CallInv
  <2>3. msgs' = msgs \/ msgs' = Append(msgs, Entry("reminder", 0))
    BY <1>3, Zenon DEF StartRound, CompactNudge
  <2>4. Whole(msgs', 0) /\ msgs' \in Seq(Messages)
    <3> DEFINE m == Entry("reminder", 0)
    <3>1. Append(msgs, m) \in Seq(Messages) /\ Whole(Append(msgs, m), 0)
      BY <1>0, <1>00, <2>2, PlainWhole
    <3> QED
      BY <1>0, <2>2, <2>3, <3>1, Zenon
  <2>5. RequestWhole'
    BY <2>1, <2>4 DEF RequestWhole, Whole, Answered
  <2> QED
    BY <2>1, <2>2, <2>4, <2>5 DEF CallInv
<1>4. CASE Fold
  <2>1. Head(inbox) \in Items
    BY <1>4 DEF Fold, Inv, TypeOK
  <2>2. msgs' = msgs \/ \E m \in Messages : Plain(m) /\ msgs' = Append(msgs, m)
    <3>1. CASE Takes(Head(inbox))
      BY <1>0, <1>000, <1>4, <2>1, <3>1, AppendIsConcat DEF Fold, Folded, Takes
    <3>2. CASE ~ Takes(Head(inbox))
      BY <1>0, <1>4, <3>2, ConcatEmptySeq DEF Fold, Folded
    <3> QED
      BY <3>1, <3>2
  <2> QED
    BY <1>4, <2>2, CallGrows DEF Fold, turnVars, batching
<1>5. CASE CallFails
  BY <1>5, CallKept DEF CallFails, turnVars, batching
<1>6. CASE ReplyEmpty
  <2>1. todo = <<>> /\ Whole(msgs, 0) /\ todo' = todo /\ stage' # "call"
    BY <1>6 DEF ReplyEmpty, Reply, batching, CallInv
  <2>2. \/ msgs' = Append(msgs, Entry("say", 0))
        \/ msgs' = msgs \o <<Entry("say", 0), Entry("reminder", 0)>>
    BY <1>6, Zenon DEF ReplyEmpty
  <2>3. msgs \o <<Entry("say", 0), Entry("reminder", 0)>>
           = Append(Append(msgs, Entry("say", 0)), Entry("reminder", 0))
    BY <1>0, <1>00
  <2>4. Append(msgs, Entry("say", 0)) \in Seq(Messages) /\ Whole(Append(msgs, Entry("say", 0)), 0)
    BY <1>0, <1>00, <2>1, PlainWhole
  <2>5. Whole(msgs', 0)
    BY <1>00, <2>2, <2>3, <2>4, PlainWhole
  <2> QED
    BY <2>1, <2>5 DEF CallInv, RequestWhole
<1>7. CASE ReplyText
  BY <1>00, <1>7, CallKept DEF ReplyText, Reply, batching
<1>8. CASE ReplyNudged
  <2>1. todo = <<>> /\ Whole(msgs, 0) /\ todo' = todo /\ stage' = "round"
    BY <1>8 DEF ReplyNudged, Reply, batching, CallInv
  <2>2. PICK why : msgs' = (Append(msgs, Entry("say", 0)) \o Reminder("mention" \in why))
                              \o Reminder("promise" \in why)
    BY <1>8 DEF ReplyNudged
  <2>3. Append(msgs, Entry("say", 0)) \in Seq(Messages) /\ Whole(Append(msgs, Entry("say", 0)), 0)
    BY <1>0, <1>00, <2>1, PlainWhole
  <2>4. Whole(msgs', 0)
    BY <2>2, <2>3, ReminderWhole
  <2> QED
    BY <2>1, <2>4 DEF CallInv, RequestWhole
<1>9. CASE ReplyCalls
  <2>1. PICK calls \in Batches :
           todo' = calls /\ stage' = "tools" /\ msgs' = Append(msgs, Entry("calls", Len(calls)))
    BY <1>9 DEF ReplyCalls
  <2>2. todo = <<>> /\ Whole(msgs, 0)
    BY <1>9 DEF ReplyCalls, Reply, CallInv
  <2>3. Whole(msgs', Len(todo'))
    BY <1>0, <2>1, <2>2, BatchTyped, CallsWhole
  <2> QED
    BY <2>1, <2>3 DEF CallInv, RequestWhole
<1>10. CASE CallTool
  <2>1. /\ stage = "tools" /\ stage' = stage /\ todo # <<>> /\ todo' = Tail(todo)
        /\ msgs' = Append(msgs, Entry("result", 0))
    BY <1>10 DEF CallTool
  <2>2. Len(todo') \in Nat /\ Len(todo) = Len(todo') + 1
    BY <1>0, <2>1
  <2>3. Whole(msgs', Len(todo'))
    BY <1>0, <2>1, <2>2, ResultWhole DEF CallInv
  <2> QED
    BY <2>1, <2>3 DEF CallInv, RequestWhole
<1>11. CASE EndBatch
  <2> DEFINE t == msgs \o (IF summary THEN <<Entry("summary", 0)>> ELSE <<>>)
  <2>1. todo = <<>> /\ todo' = todo /\ stage' # "call" /\ msgs' = t \o Reminder(mention)
    BY <1>11 DEF EndBatch
  <2>2. Whole(msgs, 0)
    BY <2>1 DEF CallInv
  <2>3. t \in Seq(Messages) /\ Whole(t, 0)
    <3>1. CASE summary
      <4> DEFINE m == Entry("summary", 0)
      <4>1. Append(msgs, m) \in Seq(Messages) /\ Whole(Append(msgs, m), 0)
        BY <1>0, <1>00, <2>2, PlainWhole
      <4>2. t = Append(msgs, m)
        BY <1>0, <1>00, <3>1, AppendIsConcat
      <4> QED
        BY <4>1, <4>2, Zenon
    <3>2. CASE ~ summary
      BY <1>0, <2>2, <3>2, ConcatEmptySeq
    <3> QED
      BY <3>1, <3>2
  <2> HIDE DEF t
  <2>4. Whole(msgs', 0)
    BY <2>1, <2>3, ReminderWhole
  <2> QED
    BY <2>1, <2>4 DEF CallInv, RequestWhole
<1>12. ASSUME NEW j \in Jobs, JobEnds(j)
       PROVE  CallInv'
  BY <1>12, CallSame DEF JobEnds, turnVars, batching
<1>13. ASSUME NEW j \in Jobs, FoldNote(j)
       PROVE  CallInv'
  <2>1. msgs' = msgs \/ msgs' = Append(msgs, Entry("note", j))
    BY <1>13, Zenon DEF FoldNote
  <2>2. stage = "call" /\ UNCHANGED <<stage, seen, todo>>
    BY <1>13 DEF FoldNote, turnVars, batching
  <2> QED
    BY <1>00, <2>1, <2>2, CallGrows
<1>14. ASSUME NEW j \in Jobs, Wake(j)
       PROVE  CallInv'
  <2>1. msgs' = msgs \/ msgs' = Append(msgs, Entry("note", j))
    BY <1>14, Zenon DEF Wake
  <2>2. stage = "idle" /\ stage' # "call" /\ todo' = todo
    BY <1>14 DEF Wake, BeginTurn, batching
  <2> QED
    BY <1>00, <2>1, <2>2, CallKept
<1> QED
  BY <1>1, <1>2, <1>3, <1>4, <1>5, <1>6, <1>7, <1>8, <1>9, <1>10, <1>11, <1>12, <1>13, <1>14
  DEF Next, LoopStep

\* What was sent is a stretch of the conversation up to `seen', without a
\* summary behind its first message.
LEMMA SentWhole == Inv /\ CallInv => RequestWellFormed
<1> SUFFICES ASSUME Inv, CallInv, stage = "call"
             PROVE  LET sent == Window(SubSeq(msgs, 1, seen)) IN
                    \A i \in sent :
                       /\ msgs[i].kind = "calls" =>
                            \A d \in 1 .. msgs[i].n : i + d \in sent /\ msgs[i + d].kind = "result"
                       /\ msgs[i].kind = "result" =>
                            \E d \in 1 .. MaxBatch :
                               /\ i - d \in sent
                               /\ msgs[i - d].kind = "calls" /\ msgs[i - d].n >= d
  BY DEF RequestWellFormed
<1> DEFINE sub  == SubSeq(msgs, 1, seen)
           sent == Window(sub)
<1>1. msgs \in Seq(Messages) /\ seen \in Nat /\ seen <= Len(msgs) /\ Whole(msgs, Len(todo))
  BY DEF Inv, TypeOK, CallInv, RequestWhole
<1>2. todo = <<>> /\ Len(msgs) \in Nat /\ DOMAIN msgs = 1 .. Len(msgs)
  BY <1>1 DEF CallInv
<1>3. DOMAIN sub = 1 .. seen /\ \A i \in 1 .. seen : sub[i] = msgs[i]
  BY <1>1, SubSeqProperties
<1> HIDE DEF sub
<1>4. \A i : i \in sent <=> i \in 1 .. seen /\ \A k \in 1 .. seen : k > i => msgs[k].kind # "summary"
  BY <1>3 DEF Window, IsSummary
<1> HIDE DEF sent
<1>5. \A i \in 1 .. seen : msgs[i].kind = "calls" => msgs[i].n \in 1 .. MaxBatch
  BY <1>1, <1>2, CallCount
<1>6. ASSUME NEW i \in sent, msgs[i].kind = "calls", NEW d \in 1 .. msgs[i].n
      PROVE  i + d \in sent /\ msgs[i + d].kind = "result"
  <2>1. i \in 1 .. seen /\ i + msgs[i].n <= seen /\ msgs[i].n \in 1 .. MaxBatch
    BY <1>4, <1>5, <1>6 DEF CallInv, RequestWhole
  <2>2. i + d \in 1 .. seen
    BY <1>1, <2>1, BoundsAssumption
  <2>3. msgs[i + d].kind = "result"
    BY <1>1, <1>2, <1>6, <2>1, <2>2 DEF Whole, Answered
  <2>4. \A k \in 1 .. seen : k > i + d => k > i
    BY <1>1, <2>1, BoundsAssumption
  <2> QED
    BY <1>4, <2>2, <2>3, <2>4
<1>7. ASSUME NEW i \in sent, msgs[i].kind = "result"
      PROVE  \E d \in 1 .. MaxBatch :
                i - d \in sent /\ msgs[i - d].kind = "calls" /\ msgs[i - d].n >= d
  <2>1. i \in 1 .. seen
    BY <1>4
  <2>2. PICK d \in 1 .. MaxBatch :
           i - d \in DOMAIN msgs /\ msgs[i - d].kind = "calls" /\ msgs[i - d].n >= d
    BY <1>1, <1>2, <1>7, <2>1 DEF Whole, Called
  <2>3. i - d \in 1 .. seen
    BY <1>1, <1>2, <2>1, <2>2, BoundsAssumption
  <2>4. ASSUME NEW k \in 1 .. seen, k > i - d
        PROVE  msgs[k].kind # "summary"
    <3>1. CASE k > i
      BY <1>4, <3>1
    <3>2. CASE k <= i
      <4> DEFINE f == k - (i - d)
      <4>1. f \in 1 .. msgs[i - d].n /\ (i - d) + f = k /\ k <= Len(msgs)
        BY <1>1, <1>2, <1>5, <2>1, <2>2, <2>3, <2>4, <3>2, BoundsAssumption
      <4>2. \A e \in 1 .. msgs[i - d].n :
               (i - d) + e <= Len(msgs) => msgs[(i - d) + e].kind = "result"
        BY <1>1, <2>2 DEF Whole, Answered
      <4> HIDE DEF f
      <4>3. msgs[k].kind = "result"
        BY <4>1, <4>2
      <4> QED
        BY <4>3
    <3> QED
      BY <2>1, <3>1, <3>2
  <2> QED
    BY <1>4, <2>2, <2>3, <2>4
<1> QED
  BY <1>6, <1>7 DEF sent, sub

\* driveOneTurnWithID, Context.Snapshot: every request has the results of all
\* calls in it and no result without its call, whatever was folded into the
\* turn and wherever the conversation was compacted.
THEOREM RequestsWhole == Spec => []RequestWellFormed
<1>1. Init => CallInv
  BY CallInit
<1>2. Inv /\ CallInv /\ [Next]_vars => CallInv'
  BY CallStep
<1>3. Inv /\ CallInv => RequestWellFormed
  BY SentWhole
<1> QED
  BY <1>1, <1>2, <1>3, Invariance, PTL DEF Spec
=============================================================================
