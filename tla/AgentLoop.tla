----------------------------- MODULE AgentLoop -----------------------------
(***************************************************************************)
(* The agent process from its first stream to its exit: the loop that      *)
(* turns events into requests to the language model and carries out the    *)
(* tool calls of its replies, with what reaches it meanwhile: frames of    *)
(* the input stream and notifications of background work.                  *)
(*                                                                         *)
(* Three goroutines matter: the pump that moves frames from the transport  *)
(* to the inbox, the loop, and the background jobs.  Only the loop touches *)
(* the conversation.  The frame queue, the pump's hand and the inbox are   *)
(* one sequence here: what the pump had not moved when the stream ended is *)
(* a frame that was not sent.                                              *)
(***************************************************************************)
EXTENDS Integers, Sequences, SequencesExt

CONSTANTS
    Tools,          \* kinds of tools the model calls
    Controls,       \* control frames the server sends
    Jobs,           \* background jobs and timers the tools may start
    MaxEvents,      \* bound: event frames
    MaxControls,    \* bound: control frames
    MaxReplies,     \* bound: replies other than plain text
    MaxBatch,       \* bound: tool calls of one reply
    MaxEmpty,       \* maxEmptyResponseRetries
    Threshold,      \* compactTokenThreshold is set
    MaxFaults       \* bound: broken streams, failed requests

ASSUME ToolsAssumption == Tools \subseteq {"work", "sleep", "ask", "compact"}
ASSUME ControlsAssumption == Controls \subseteq {"shutdown", "suspend", "resume"}
ASSUME BoundsAssumption ==
    /\ MaxEvents \in Nat /\ MaxControls \in Nat /\ MaxReplies \in Nat
    /\ MaxBatch \in Nat /\ MaxEmpty \in Nat /\ MaxFaults \in Nat
    /\ Threshold \in BOOLEAN

VARIABLES
    streaming,  \* the pump is reading frames
    holding,    \* what keepAlive said when StreamFrame last asked it
    inbox,      \* frames and the end of the stream, as the pump put them
    pending,    \* pendingItems: what a turn left to the outer loop
    suspended,
    msgs,       \* the messages of Context
    stage,      \* where the loop stands
    seen,       \* preCallLen: the conversation's length at the last request
    shown,      \* inputs that were part of some request
    batch,      \* tool calls of the current reply
    todo,       \* those still to be carried out
    mention,    \* the current reply's text asks for the @-mention reminder
    summary,    \* pendingSummary is set
    nudged,     \* one-shot reminders given in this turn, or until compacted
    empties,    \* emptyResponseRetries
    job,        \* state of each background job
    events, controls, replies, faults

vars == <<streaming, holding, inbox, pending, suspended, msgs, stage, seen, shown, batch, todo,
          mention, summary, nudged, empties, job, events, controls, replies, faults>>
inputs  == <<streaming, holding, inbox, events, controls>>
batching == <<batch, todo, mention, summary>>
turnVars == <<seen, shown, batching, nudged, empties, replies>>

Entry(kind, n) == [kind |-> kind, n |-> n]
IsEvent(e)     == e.kind = "event"
IsInput(m)     == m.kind \in {"event", "note"}

Final == {"ended", "failed"}
Turn  == {"round", "call", "tools"}

Background   == {"running", "asked"}
KeepAlive    == \E j \in Jobs : job[j] \in Background \cup {"finished"}
AsyncTools   == {"sleep", "ask"}
Batches      == UNION {[1 .. n -> Tools] : n \in 1 .. MaxBatch}

Init ==
    /\ streaming = TRUE
    /\ holding = "unasked"
    /\ inbox = <<>>
    /\ pending = <<>>
    /\ suspended = FALSE
    /\ msgs = <<>>
    /\ stage = "idle"
    /\ seen = 0
    /\ shown = {}
    /\ batch = <<>> /\ todo = <<>> /\ mention = FALSE /\ summary = FALSE
    /\ nudged = {}
    /\ empties = 0
    /\ job = [j \in Jobs |-> "none"]
    /\ events = 0 /\ controls = 0 /\ replies = 0 /\ faults = 0

----------------------------------------------------------------------------
(* The stream, as the pump sees it.                                         *)

Streaming == streaming /\ stage \notin Final

SendEvent ==
    /\ Streaming
    /\ events < MaxEvents
    /\ events' = events + 1
    /\ inbox' = Append(inbox, Entry("event", events + 1))
    /\ holding' = "unasked"
    /\ UNCHANGED <<streaming, pending, suspended, msgs, stage, turnVars, job, controls, faults>>

SendControl ==
    /\ Streaming
    /\ controls < MaxControls
    /\ controls' = controls + 1
    /\ \E op \in Controls : inbox' = Append(inbox, Entry(op, 0))
    /\ holding' = "unasked"
    /\ UNCHANGED <<streaming, pending, suspended, msgs, stage, turnVars, job, events, faults>>

StreamEnds(kind) ==
    /\ Streaming
    /\ streaming' = FALSE
    /\ holding' = "unasked"
    /\ inbox' = Append(inbox, Entry(kind, 0))
    /\ UNCHANGED <<pending, suspended, msgs, stage, turnVars, job, events, controls>>

\* StreamFrame asks when it is called, after each frame, and goes on asking
\* every 30 seconds only as long as the answer is yes.
AskKeepAlive ==
    /\ Streaming
    /\ holding \in {"unasked", "yes"}
    /\ holding' = IF KeepAlive THEN "yes" ELSE "no"
    /\ UNCHANGED <<streaming, inbox, events, controls, pending, suspended, msgs, stage,
                   turnVars, job, faults>>

\* Five minutes since the last frame or yes, whatever the loop is doing.
IdleGrace ==
    /\ holding = "no"
    /\ StreamEnds("eof")
    /\ UNCHANGED faults

StreamBreaks ==
    /\ faults < MaxFaults
    /\ faults' = faults + 1
    /\ \E kind \in {"eof", "error"} : StreamEnds(kind)

\* A command or a sleep is done: its notification is on the channel.  What
\* ask_question schedules is infinite and only held until an event answers.
JobEnds(j) ==
    /\ stage \notin Final
    /\ job[j] = "running"
    /\ job' = [job EXCEPT ![j] = "finished"]
    /\ UNCHANGED <<inputs, pending, suspended, msgs, stage, turnVars, faults>>

----------------------------------------------------------------------------
(* What an input does to the conversation and to the jobs.                  *)

Takes(item) == IsEvent(item) /\ ~ suspended

Folded(item) == IF Takes(item) THEN <<item>> ELSE <<>>

\* Mutant: a control frame that arrives in a turn is dropped.
DeferredDropped(item) == <<>>

Deferred(item) == IF Takes(item) THEN <<>> ELSE <<item>>

\* An event that answers or closes a questionnaire ends the wait for it.
TouchesJobs(item) ==
    \/ UNCHANGED job
    \/ /\ Takes(item)
       /\ \E j \in Jobs :
             job[j] = "asked" /\ job' = [job EXCEPT ![j] = "cancelled"]

BeginTurn ==
    /\ stage' = "round"
    /\ nudged' = nudged \cap {"compact"}
    /\ empties' = 0

----------------------------------------------------------------------------
(* Run and handleFrame: the loop between two turns.                         *)

\* Mutant: an event is dropped while suspended.
HandleEventDropped(item, rest) ==
    /\ IsEvent(item)
    /\ pending' = rest
    /\ IF suspended
       THEN UNCHANGED <<msgs, stage, nudged, empties, job>>
       ELSE msgs' = Append(msgs, item) /\ BeginTurn /\ TouchesJobs(item)
    /\ UNCHANGED suspended

HandleEvent(item, rest) ==
    /\ IsEvent(item)
    /\ IF suspended
       THEN /\ pending' = Append(rest, item)
            /\ UNCHANGED <<msgs, stage, nudged, empties, job>>
       ELSE /\ pending' = rest
            /\ msgs' = Append(msgs, item)
            /\ BeginTurn
            /\ TouchesJobs(item)
    /\ UNCHANGED suspended

HandleControl(item, rest) ==
    /\ pending' = rest
    /\ \/ /\ item.kind = "shutdown"
          /\ stage' = "ended"
          /\ job' = [j \in Jobs |-> IF job[j] \in Background THEN "cancelled" ELSE job[j]]
          /\ UNCHANGED suspended
       \/ /\ item.kind \in {"suspend", "resume"}
          /\ suspended' = (item.kind = "suspend")
          /\ UNCHANGED <<stage, job>>
       \/ /\ item.kind \in {"eof", "error"}
          /\ stage' = IF item.kind = "eof" THEN "ended" ELSE "failed"
          /\ UNCHANGED <<suspended, job>>
    /\ UNCHANGED <<msgs, nudged, empties>>

Handle(item, rest) == HandleEvent(item, rest) \/ HandleControl(item, rest)

Replay ==
    /\ stage = "idle"
    /\ pending # <<>>
    /\ Handle(Head(pending), Tail(pending))
    /\ UNCHANGED <<inputs, seen, shown, batching, replies, faults>>

Receive ==
    /\ stage = "idle"
    /\ pending = <<>>
    /\ inbox # <<>>
    /\ Handle(Head(inbox), <<>>)
    /\ inbox' = Tail(inbox)
    /\ UNCHANGED <<streaming, holding, events, controls, seen, shown, batching, replies, faults>>

\* Mutant: the notification is noted without a turn.
WakeSilently(j) ==
    /\ stage = "idle"
    /\ pending = <<>>
    /\ job[j] = "finished"
    /\ job' = [job EXCEPT ![j] = "told"]
    /\ msgs' = IF suspended THEN msgs ELSE Append(msgs, Entry("note", j))
    /\ UNCHANGED <<inputs, pending, suspended, stage, turnVars, faults>>

Wake(j) ==
    /\ stage = "idle"
    /\ pending = <<>>
    /\ job[j] = "finished"
    /\ job' = [job EXCEPT ![j] = "told"]
    /\ IF suspended
       THEN UNCHANGED <<msgs, stage, nudged, empties>>
       ELSE msgs' = Append(msgs, Entry("note", j)) /\ BeginTurn
    /\ UNCHANGED <<inputs, pending, suspended, seen, shown, batching, replies, faults>>

----------------------------------------------------------------------------
(* driveOneTurnWithID: a round drains the inbox (Fold) and sends a request  *)
(* ...                                                                      *)

IsSummary(m) == m.kind = "summary"

\* Context.Snapshot: the positions from the most recent summary on.
Window(ms) ==
    {i \in DOMAIN ms : \A k \in DOMAIN ms : k > i => ~ IsSummary(ms[k])}

\* maybeNudgeCompact: the last request was above the threshold.
CompactNudge ==
    \/ UNCHANGED <<nudged, msgs>>
    \/ /\ Threshold /\ seen > 0 /\ "compact" \notin nudged
       /\ nudged' = nudged \cup {"compact"}
       /\ msgs' = Append(msgs, Entry("reminder", 0))

StartRound ==
    /\ stage = "round"
    /\ inbox = <<>>
    /\ stage' = "call"
    /\ CompactNudge
    /\ seen' = Len(msgs')
    /\ shown' = shown \cup {m \in {msgs'[i] : i \in Window(msgs')} : IsInput(m)}
    /\ UNCHANGED <<inputs, pending, suspended, batching, empties, job, replies, faults>>

----------------------------------------------------------------------------
(* ... takes in what arrives while it waits for the reply ...               *)

\* applyInboxItem, called by drainPending until the inbox is empty and by the
\* wait for the reply.
Fold ==
    /\ stage \in {"round", "call"}
    /\ inbox # <<>>
    /\ msgs' = msgs \o Folded(Head(inbox))
    /\ pending' = pending \o Deferred(Head(inbox))
    /\ TouchesJobs(Head(inbox))
    /\ inbox' = Tail(inbox)
    /\ UNCHANGED <<streaming, holding, suspended, stage, turnVars, events, controls, faults>>

FoldNote(j) ==
    /\ stage = "call"
    /\ job[j] = "finished"
    /\ job' = [job EXCEPT ![j] = "told"]
    /\ msgs' = IF suspended THEN msgs ELSE Append(msgs, Entry("note", j))
    /\ UNCHANGED <<inputs, pending, suspended, stage, turnVars, faults>>

\* The request fails after its retries, those for a reasoning timeout too.
CallFails ==
    /\ stage = "call"
    /\ faults < MaxFaults
    /\ faults' = faults + 1
    /\ stage' = "failed"
    /\ UNCHANGED <<inputs, pending, suspended, msgs, turnVars, job>>

----------------------------------------------------------------------------
(* ... and acts on the reply, the inbox drained once more.                  *)

Reply ==
    /\ stage = "call"
    /\ inbox = <<>>
    /\ UNCHANGED <<inputs, pending, suspended, seen, shown, job, faults>>

Prolongs ==
    /\ replies < MaxReplies
    /\ replies' = replies + 1

ReplyEmpty ==
    /\ Reply
    /\ Prolongs
    /\ empties' = empties + 1
    /\ IF empties >= MaxEmpty
       THEN /\ stage' = "failed"
            /\ msgs' = Append(msgs, Entry("say", 0))
       ELSE /\ stage' = "round"
            /\ msgs' = msgs \o <<Entry("say", 0), Entry("reminder", 0)>>
    /\ UNCHANGED <<batching, nudged>>

\* Mutant: text always ends the turn.
ReplyTextEnds ==
    /\ Reply
    /\ stage' = "idle"
    /\ msgs' = Append(msgs, Entry("say", 0))
    /\ empties' = 0
    /\ UNCHANGED <<batching, nudged, replies>>

\* Text without tool calls ends the turn, unless something arrived since the
\* request was made.
ReplyText ==
    /\ Reply
    /\ stage' = IF Len(msgs) > seen THEN "round" ELSE "idle"
    /\ msgs' = Append(msgs, Entry("say", 0))
    /\ empties' = 0
    /\ UNCHANGED <<batching, nudged, replies>>

Reminder(wanted) == IF wanted THEN <<Entry("reminder", 0)>> ELSE <<>>

\* The text mentions a role or promises to act: reminded once a turn each.
ReplyNudged ==
    /\ Reply
    /\ Prolongs
    /\ \E why \in {{"mention"}, {"promise"}, {"mention", "promise"}} :
          /\ why \subseteq {"mention", "promise"} \ nudged
          /\ nudged' = nudged \cup why
          /\ msgs' = Append(msgs, Entry("say", 0)) \o Reminder("mention" \in why)
                                                  \o Reminder("promise" \in why)
    /\ stage' = "round"
    /\ empties' = 0
    /\ UNCHANGED batching

ReplyCalls ==
    /\ Reply
    /\ Prolongs
    /\ \E calls \in Batches :
          /\ batch' = calls
          /\ todo' = calls
          /\ msgs' = Append(msgs, Entry("calls", Len(calls)))
    /\ mention' \in {FALSE, "mention" \notin nudged}
    /\ summary' = FALSE
    /\ stage' = "tools"
    /\ empties' = 0
    /\ UNCHANGED nudged

\* A call batched with sleep or ask_question is refused.
Gated(tool) == ToSet(batch) \cap AsyncTools # {} /\ tool \notin AsyncTools

Starts(as) ==
    \E j \in Jobs : job[j] = "none" /\ job' = [job EXCEPT ![j] = as]

\* Mutant: the summary is written as soon as it is there.
CallToolSummary ==
    /\ stage = "tools"
    /\ todo # <<>>
    /\ todo' = Tail(todo)
    /\ msgs' = msgs \o (IF Head(todo) = "compact" THEN <<Entry("summary", 0)>> ELSE <<>>)
                    \o <<Entry("result", 0)>>
    /\ UNCHANGED <<inputs, pending, suspended, stage, seen, shown, batch, mention, summary,
                   nudged, empties, job, replies, faults>>

CallTool ==
    /\ stage = "tools"
    /\ todo # <<>>
    /\ todo' = Tail(todo)
    /\ msgs' = Append(msgs, Entry("result", 0))
    /\ LET tool == Head(todo) IN
       \/ UNCHANGED <<job, summary>>
       \/ tool \in {"work", "sleep"} /\ ~ Gated(tool) /\ Starts("running") /\ UNCHANGED summary
       \/ tool = "ask" /\ Starts("asked") /\ UNCHANGED summary
       \/ tool = "compact" /\ ~ Gated(tool) /\ summary' = TRUE /\ UNCHANGED job
    /\ UNCHANGED <<inputs, pending, suspended, stage, seen, shown, batch, mention,
                   nudged, empties, replies, faults>>

\* The summary goes behind the results, the reminder behind the summary.
EndBatch ==
    /\ stage = "tools"
    /\ todo = <<>>
    /\ msgs' = msgs \o (IF summary THEN <<Entry("summary", 0)>> ELSE <<>>)
                    \o Reminder(mention)
    /\ nudged' = (nudged \ (IF summary THEN {"compact"} ELSE {}))
                    \cup (IF mention THEN {"mention"} ELSE {})
    /\ stage' = IF "sleep" \in ToSet(batch) /\ "ask" \notin ToSet(batch)
                THEN "idle" ELSE "round"
    /\ batch' = <<>> /\ mention' = FALSE /\ summary' = FALSE
    /\ UNCHANGED <<inputs, pending, suspended, seen, shown, todo, empties, job,
                   replies, faults>>

----------------------------------------------------------------------------
LoopStep ==
    \/ Replay \/ Receive \/ StartRound
    \/ Fold \/ ReplyText
    \/ CallTool \/ EndBatch
    \/ \E j \in Jobs : Wake(j)

Next ==
    \/ SendEvent \/ SendControl \/ AskKeepAlive \/ IdleGrace \/ StreamBreaks
    \/ CallFails
    \/ ReplyEmpty \/ ReplyNudged \/ ReplyCalls
    \/ LoopStep
    \/ \E j \in Jobs : JobEnds(j) \/ FoldNote(j)

Spec == Init /\ [][Next]_vars

\* The loop never stops by itself, the model's provider answers (and ends the
\* turn with plain text when its replies run out), and jobs end: sleeps are
\* over, commands have a timeout.  The idle grace need never fire.
Fairness ==
    /\ WF_vars(LoopStep)
    /\ \A j \in Jobs : WF_vars(JobEnds(j))

FairSpec == Spec /\ Fairness

----------------------------------------------------------------------------
Items    == [kind : {"event"}, n : 1 .. MaxEvents]
                \cup [kind : Controls \cup {"eof", "error"}, n : {0}]
Messages == [kind : {"event"}, n : 1 .. MaxEvents] \cup [kind : {"note"}, n : Jobs]
                \cup [kind : {"say", "result", "summary", "reminder"}, n : {0}]
                \cup [kind : {"calls"}, n : 1 .. MaxBatch]

TypeOK ==
    /\ streaming \in BOOLEAN /\ holding \in {"unasked", "yes", "no"} /\ suspended \in BOOLEAN
    /\ inbox \in Seq(Items)
    /\ pending \in Seq(Items)
    /\ msgs \in Seq(Messages)
    /\ stage \in {"idle"} \cup Turn \cup Final
    /\ seen \in Nat
    /\ shown \subseteq Messages
    /\ batch \in Seq(Tools) /\ todo \in Seq(Tools)
    /\ mention \in BOOLEAN /\ summary \in BOOLEAN
    /\ nudged \subseteq {"compact", "mention", "promise"}
    /\ empties \in 0 .. MaxEmpty + 1
    /\ job \in [Jobs -> Background \cup {"none", "finished", "told", "cancelled"}]
    /\ events \in Nat /\ controls \in Nat /\ replies \in Nat /\ faults \in Nat

\* No event is lost, doubled or overtaken on its way from the stream through
\* the inbox and pendingItems into the conversation, in turns and between
\* them, suspended or not.
NothingForgotten ==
    LET all == msgs \o pending \o inbox IN
    /\ \A k \in 1 .. events : \E i \in DOMAIN all : all[i] = Entry("event", k)
    /\ \A i, j \in DOMAIN all : i < j /\ IsEvent(all[i]) /\ IsEvent(all[j]) => all[i].n < all[j].n

\* A suspended agent makes no request and calls no tool: a suspend frame that
\* comes in the middle of a turn waits for its end.
NoTurnWhileSuspended == suspended => stage \notin Turn

\* What is sent to the provider is acceptable to it: each message with tool
\* calls is followed by all its results, and no result lacks its call, also
\* when reminders, folded events and a compaction happen in the same round.
RequestWellFormed ==
    stage = "call" =>
        LET sent == Window(SubSeq(msgs, 1, seen)) IN
        \A i \in sent :
            /\ msgs[i].kind = "calls" =>
                 \A d \in 1 .. msgs[i].n : i + d \in sent /\ msgs[i + d].kind = "result"
            /\ msgs[i].kind = "result" =>
                 \E d \in 1 .. MaxBatch :
                    /\ i - d \in sent
                    /\ msgs[i - d].kind = "calls" /\ msgs[i - d].n >= d

\* A reply only ends a turn when it was given in sight of every event and
\* notification that has reached the conversation.
SeenBeforeEnd ==
    [][stage = "call" /\ stage' = "idle" =>
          \A i \in DOMAIN msgs' : IsInput(msgs'[i]) => i <= seen]_stage

\* An event that reached the agent, and the end of what a tool started in the
\* background, become part of a request, unless the process ends.
InputsAnswered ==
    /\ \A k \in 1 .. MaxEvents :
          Entry("event", k) \in ToSet(inbox) ~> Entry("event", k) \in shown \/ stage \in Final
    /\ \A j \in Jobs :
          job[j] = "running" ~> Entry("note", j) \in shown \/ stage \in Final

\* A shutdown frame ends the process, after the turn it may find.
ShutdownHonoured ==
    (\E e \in ToSet(inbox) : e.kind = "shutdown") ~> stage \in Final
=============================================================================
