--------------------------- MODULE SessionHistory ---------------------------
(***************************************************************************)
(* The message log of one agent session and what FetchHistory makes of it  *)
(* for the next agent: the calls that wake the session log their event,    *)
(* the agent logs its replies and tool results one RPC at a time and       *)
(* ignores the RPCs that fail, it may die between any two of them, and the *)
(* agent of the next wake starts from the repaired log.                    *)
(*                                                                         *)
(* Rows that FetchHistory drops (status, log, done, system) are left out,  *)
(* and so are the reminders and notifications an agent only keeps in       *)
(* memory.  OnTrigger calls come one at a time; AgentSession is about      *)
(* calls that overlap, AgentLoop about the turn of one agent.              *)
(***************************************************************************)
EXTENDS Integers, Sequences, FiniteSets, SequencesExt, History

CONSTANTS
    Tools,          \* kinds of tools the model may call
    MaxBatch,       \* bound: tool calls in one reply
    MaxEvents,      \* bound: OnTrigger calls
    MaxWakes,       \* bound: agents dispatched
    MaxReplies,     \* bound: replies of the provider
    MaxHalts,       \* bound: Stop requests
    MaxLosses,      \* bound: AppendMessage RPCs and LLM calls that fail
    MaxDeaths       \* bound: agents that die

ASSUME HistoryAssumption ==
    /\ Tools \subseteq {"work", "compact", "sleep"} /\ MaxBatch \in Nat
    /\ MaxEvents \in Nat /\ MaxWakes \in Nat \ {0} /\ MaxReplies \in Nat
    /\ MaxHalts \in Nat /\ MaxLosses \in Nat /\ MaxDeaths \in Nat

VARIABLES
    standing,   \* agent_sessions.status: "running", "idle" or "failed"
    log,        \* agent_session_messages by seq
    inputs,     \* unconsumed agent_session_inputs: events, or the shutdown
    call,       \* where the OnTrigger call that rewakes the session stands
    stage,      \* where each agent stands
    conv,       \* its in-memory conversation (Context.messages)
    inbox,      \* frames it has claimed and not handled
    stopping,   \* it has put off a shutdown frame to the end of its turn
    seen,       \* length of conv when its current request was made
    todo,       \* calls of its current batch without a result
    batch,      \* the names in that batch
    events, wakes, replies, halts, losses, deaths,
    overlap     \* a session was woken while an agent of it was alive

historyVars == <<standing, log, inputs, call, stage, conv, inbox, stopping, seen, todo,
                 batch, events, wakes, replies, halts, losses, deaths, overlap>>
agentLocals == <<stage, conv, inbox, stopping, seen, todo, batch>>
counters  == <<events, wakes, replies, halts, losses, deaths, overlap>>

Agents   == 1 .. MaxWakes
StopFrame == 0
Batches  == UNION {[1 .. n -> Tools] : n \in 0 .. MaxBatch}
Alive(a) == stage[a] \notin {"none", "gone"}

----------------------------------------------------------------------------
\* spawnRole has created the row, queued and logged the first event and
\* dispatched the first agent.
HistoryInit ==
    /\ standing = "running"
    /\ log = <<Event(1)>>
    /\ inputs = <<1>>
    /\ call = "none"
    /\ stage = [a \in Agents |-> IF a = 1 THEN "boot" ELSE "none"]
    /\ conv = [a \in Agents |-> <<>>]
    /\ inbox = [a \in Agents |-> <<>>]
    /\ stopping = [a \in Agents |-> FALSE]
    /\ seen = [a \in Agents |-> 0]
    /\ todo = [a \in Agents |-> <<>>]
    /\ batch = [a \in Agents |-> <<>>]
    /\ events = 1 /\ wakes = 1 /\ replies = 0 /\ halts = 0 /\ losses = 0 /\ deaths = 0
    /\ overlap = FALSE

Lost == losses < MaxLosses /\ losses' = losses + 1

\* An AppendMessage whose error is ignored: the row is written, or it is not
\* (a failed RPC, a failed insert, three lost races for the next seq).
AppendMessage(r) ==
    \/ log' = Append(log, r) /\ UNCHANGED losses
    \/ Lost /\ UNCHANGED log

----------------------------------------------------------------------------
(* OnTrigger and Stop.                                                      *)

\* The event of a live session is queued and not logged.
QueuesOntoLive ==
    /\ call = "none" /\ events < MaxEvents /\ standing = "running"
    /\ events' = events + 1
    /\ inputs' = Append(inputs, events + 1)
    /\ UNCHANGED <<standing, log, call, agentLocals, wakes, replies, halts, losses, deaths, overlap>>

RewakeQueues ==
    /\ call = "none" /\ events < MaxEvents /\ wakes < MaxWakes /\ standing # "running"
    /\ events' = events + 1
    /\ inputs' = Append(inputs, events + 1)
    /\ call' = "log"
    /\ overlap' = (overlap \/ \E a \in Agents : Alive(a))
    /\ UNCHANGED <<standing, log, agentLocals, wakes, replies, halts, losses, deaths>>

RewakeLogs ==
    /\ call = "log"
    /\ AppendMessage(Event(events))
    /\ call' = "dispatch"
    /\ UNCHANGED <<standing, inputs, agentLocals, events, wakes, replies, halts, deaths, overlap>>

\* ResumeSession, then the workflow run that boots the agent.
RewakeDispatches ==
    /\ call = "dispatch"
    /\ standing' = "running"
    /\ wakes' = wakes + 1
    /\ stage' = [stage EXCEPT ![wakes + 1] = "boot"]
    /\ call' = "none"
    /\ UNCHANGED <<log, inputs, conv, inbox, stopping, seen, todo, batch,
                   events, replies, halts, losses, deaths, overlap>>

\* Stop only refuses failed sessions; its frame stays for whoever reads.
Stop ==
    /\ halts < MaxHalts
    /\ standing # "failed"
    /\ halts' = halts + 1
    /\ inputs' = Append(inputs, StopFrame)
    /\ standing' = "failed"
    /\ UNCHANGED <<log, call, agentLocals, events, wakes, replies, losses, deaths, overlap>>

----------------------------------------------------------------------------
(* The agent.                                                               *)

\* MarkIdle at its end, which only a running session accepts.
Leave(a) ==
    /\ stage' = [stage EXCEPT ![a] = "gone"]
    /\ standing' = IF standing = "running" THEN "idle" ELSE standing
    /\ conv' = [conv EXCEPT ![a] = <<>>]
    /\ inbox' = [inbox EXCEPT ![a] = <<>>]
    /\ seen' = [seen EXCEPT ![a] = 0]
    /\ todo' = [todo EXCEPT ![a] = <<>>]
    /\ batch' = [batch EXCEPT ![a] = <<>>]
    /\ stopping' = [stopping EXCEPT ![a] = FALSE]

LoadsHistory(a) ==
    /\ stage[a] = "boot"
    /\ conv' = [conv EXCEPT ![a] = TrimDanglingToolCalls(FetchHistory(log))]
    /\ stage' = [stage EXCEPT ![a] = "ready"]
    /\ UNCHANGED <<standing, log, inputs, call, inbox, stopping, seen, todo, batch, counters>>

ReadsInputs(a) ==
    /\ stage[a] \in {"ready", "call", "tools"}
    /\ inputs # <<>>
    /\ inbox' = [inbox EXCEPT ![a] = @ \o inputs]
    /\ inputs' = <<>>
    /\ UNCHANGED <<standing, log, call, stage, conv, stopping, seen, todo, batch, counters>>

\* An event begins a turn.
HandleEvent(a) ==
    /\ stage[a] = "ready" /\ ~stopping[a]
    /\ inbox[a] # <<>> /\ Head(inbox[a]) # StopFrame
    /\ conv' = [conv EXCEPT ![a] = Append(@, Event(Head(inbox[a])))]
    /\ inbox' = [inbox EXCEPT ![a] = Tail(@)]
    /\ stage' = [stage EXCEPT ![a] = "call"]
    /\ seen' = [seen EXCEPT ![a] = Len(conv[a]) + 1]
    /\ UNCHANGED <<standing, log, inputs, call, stopping, todo, batch, counters>>

\* A shutdown frame between turns, one put off, or the idle grace.
Exit(a) ==
    /\ stage[a] = "ready"
    /\ stopping[a] \/ (inbox[a] # <<>> => Head(inbox[a]) = StopFrame)
    /\ Leave(a)
    /\ UNCHANGED <<log, inputs, call, counters>>

\* drainPending, while a request is out.
Fold(a) ==
    /\ stage[a] = "call" /\ inbox[a] # <<>>
    /\ IF Head(inbox[a]) = StopFrame
       THEN stopping' = [stopping EXCEPT ![a] = TRUE] /\ UNCHANGED conv
       ELSE conv' = [conv EXCEPT ![a] = Append(@, Event(Head(inbox[a])))] /\ UNCHANGED stopping
    /\ inbox' = [inbox EXCEPT ![a] = Tail(@)]
    /\ UNCHANGED <<standing, log, inputs, call, stage, seen, todo, batch, counters>>

Request(a) == Snapshot(SubSeq(conv[a], 1, seen[a]))

\* The provider refuses what is not well formed, or fails; the agent ends.
CallFails(a) ==
    /\ stage[a] = "call"
    /\ \/ ~WellFormed(Request(a)) /\ UNCHANGED losses
       \/ Lost
    /\ Leave(a)
    /\ UNCHANGED <<log, inputs, call, events, wakes, replies, halts, deaths, overlap>>

Reply(a) ==
    /\ stage[a] = "call" /\ WellFormed(Request(a))
    /\ replies < MaxReplies
    /\ replies' = replies + 1
    /\ \E b \in Batches :
          LET m    == Message(CallsOf(replies + 1, b))
              more == Len(conv[a]) > seen[a]
          IN
          /\ conv' = [conv EXCEPT ![a] = Append(@, m)]
          /\ AppendMessage(m)
          /\ batch' = [batch EXCEPT ![a] = b]
          /\ todo' = [todo EXCEPT ![a] = [i \in DOMAIN b |-> <<replies + 1, i>>]]
          /\ stage' = [stage EXCEPT ![a] =
                         IF b # <<>> THEN "tools" ELSE IF more THEN "call" ELSE "ready"]
          /\ seen' = [seen EXCEPT ![a] = Len(conv[a]) + 1]
    /\ UNCHANGED <<standing, inputs, call, inbox, stopping, events, wakes, halts, deaths, overlap>>

\* Each result is kept and logged in turn.  The summary of compact_session
\* follows the last result of its batch; a batch with a sleep only runs the
\* sleep, refuses the rest and ends the turn.
CallTool(a) ==
    /\ stage[a] = "tools"
    /\ LET c     == Head(todo[a])
           slept == "sleep" \in ToSet(batch[a])
           done  == Len(todo[a]) = 1
           marks == done /\ ~slept /\ "compact" \in ToSet(batch[a])
       IN
       /\ conv' = [conv EXCEPT ![a] = Append(@, Tool(c)) \o (IF marks THEN <<Summary>> ELSE <<>>)]
       /\ AppendMessage(ToolRow(c, batch[a][c[2]]))
       /\ todo' = [todo EXCEPT ![a] = Tail(@)]
       /\ stage' = [stage EXCEPT ![a] = IF ~done THEN "tools" ELSE IF slept THEN "ready" ELSE "call"]
       /\ seen' = [seen EXCEPT ![a] = Len(conv'[a])]
    /\ UNCHANGED <<standing, inputs, call, inbox, stopping, batch, events, wakes, replies, halts, deaths, overlap>>

\* The container is gone; the row stays as it is.
Dies(a) ==
    /\ Alive(a)
    /\ deaths < MaxDeaths /\ deaths' = deaths + 1
    /\ stage' = [stage EXCEPT ![a] = "gone"]
    /\ conv' = [conv EXCEPT ![a] = <<>>]
    /\ inbox' = [inbox EXCEPT ![a] = <<>>]
    /\ seen' = [seen EXCEPT ![a] = 0]
    /\ todo' = [todo EXCEPT ![a] = <<>>]
    /\ batch' = [batch EXCEPT ![a] = <<>>]
    /\ stopping' = [stopping EXCEPT ![a] = FALSE]
    /\ UNCHANGED <<standing, log, inputs, call, events, wakes, replies, halts, losses, overlap>>

----------------------------------------------------------------------------
HistoryNext ==
    \/ QueuesOntoLive \/ RewakeQueues \/ RewakeLogs \/ RewakeDispatches \/ Stop
    \/ \E a \in Agents :
          \/ LoadsHistory(a) \/ ReadsInputs(a) \/ HandleEvent(a) \/ Exit(a) \/ Fold(a)
          \/ CallFails(a) \/ Reply(a) \/ CallTool(a) \/ Dies(a)

HistorySpec == HistoryInit /\ [][HistoryNext]_historyVars

----------------------------------------------------------------------------
RowsOf(kind) == {i \in DOMAIN log : log[i].kind = kind}
AnsweredIn(i) == {c \in log[i].calls : \E j \in RowsOf("tool_call") : log[j].call = c}

\* The log an agent that is alone leaves: the results of a message come
\* before the next message, all of them unless it is the last and has none;
\* and compact_session has no call behind it in its batch.
Orderly ==
    /\ \A i \in RowsOf("message") :
         \/ AnsweredIn(i) = log[i].calls
         \/ AnsweredIn(i) = {} /\ \A j \in RowsOf("message") : j <= i
    /\ \A i \in RowsOf("tool_call") :
         \E j \in RowsOf("message") :
            /\ j < i /\ log[i].call \in log[j].calls
            /\ \A k \in RowsOf("message") : ~(j < k /\ k < i)
    /\ \A i, j \in RowsOf("tool_call") :
         log[i].name = "compact" /\ log[i].call[1] = log[j].call[1]
            => log[j].call[2] <= log[i].call[2]

\* What an agent that boots will send is accepted by the provider, also
\* after a death that left the last message without a result, and with an
\* event logged among the results (FetchHistory's repairs).
HistoryIsValid ==
    [][\A a \in Agents : LoadsHistory(a) /\ Orderly => WellFormed(Snapshot(conv'[a]))]_historyVars

\* The repairs never cost a message whose calls were all answered, whatever
\* agents overlapped and whatever was lost.
AnsweredIsKept ==
    [][\A a \in Agents : LoadsHistory(a) =>
          \A i \in RowsOf("message") :
             AnsweredIn(i) = log[i].calls => log[i] \in ToSet(conv'[a])]_historyVars

\* While agents do not overlap, no agent is shown an event twice, once from
\* the log and once from the queue (trimTrailingEventItems).
EventsOnce ==
    ~overlap => \A a \in Agents : \A i, j \in DOMAIN conv[a] :
        conv[a][i].kind = "event" /\ conv[a][i] = conv[a][j] => i = j
=============================================================================
