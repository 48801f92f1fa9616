---------------------------- MODULE AgentSession ----------------------------
(***************************************************************************)
(* The agent sessions of one role on one issue: Spawner.OnTrigger calls    *)
(* that create, wake or feed session rows, the agent processes these       *)
(* calls dispatch, the user's Stop, Reset and Delete, and the archiving of *)
(* a closed issue.                                                         *)
(*                                                                         *)
(* No call holds a lock or a transaction across its statements, so each    *)
(* database statement is a step.  Roles and issues share no row (a session *)
(* row belongs to one role of one issue), hence one of each.               *)
(*                                                                         *)
(* A call is numbered, and so is the one agent process it may dispatch and *)
(* the one event frame it may put on a row's inputs queue.                 *)
(***************************************************************************)
EXTENDS Integers, Sequences, FiniteSets, SequencesExt

CONSTANTS
    Causes,         \* ids of the upstream events (cause_kind and cause_id)
    MaxCalls,       \* bound: OnTrigger calls
    MaxAtOnce,      \* bound: OnTrigger calls running at the same time
    MaxStops,       \* bound: Stop and Reset requests
    MaxDeletes,     \* bound: Delete requests
    MaxFaults,      \* bound: failed statements, crashes, server restarts
    SilenceReads,   \* answers the repo_silence gate may give
    MayClose        \* whether the issue may be closed or merged

ASSUME BoundsAssumption ==
    /\ MaxCalls \in Nat /\ MaxAtOnce \in Nat /\ MaxStops \in Nat
    /\ MaxDeletes \in Nat /\ MaxFaults \in Nat
    /\ SilenceReads \subseteq BOOLEAN /\ MayClose \in BOOLEAN

VARIABLES
    issue,      \* "open", "closing" (archiver not called yet) or "closed"
    status,     \* agent_sessions.status by row id
    cause,      \* agent_sessions.cause_kind and cause_id by row id
    queue,      \* unconsumed agent_session_inputs by row id
    pc,         \* where each OnTrigger call stands
    event,      \* the cause each call was made for
    row,        \* the row each call works on
    agent,      \* the process dispatched by each call
    stream,     \* the server's StreamInputs handler for it is running
    handled,    \* events an agent has read from its stream
    lost,       \* events consumed from a queue and read by nobody
    user,       \* the Stop, Reset or Delete request being served
    stops, deletes, faults

vars == <<issue, status, cause, queue, pc, event, row, agent, stream,
          handled, lost, user, stops, deletes, faults>>
callVars  == <<pc, event, row>>
agentVars == <<agent, stream, handled, lost>>
userVars  == <<user, stops, deletes>>

Calls     == 1 .. MaxCalls
Rows      == 1 .. MaxCalls      \* a call creates at most one row
NoRow     == 0
CauseIds  == Causes \cup {<<"reset", r>> : r \in Rows}
NoCause   == <<"none", NoRow>>
Shutdown  == 0                  \* the control:shutdown frame
Frames    == Calls \cup {Shutdown}

\* Mutant: a pending row is not taken for live.
LiveOnlyRunning == {"running"}

Live      == {"pending", "running"}
Resumable == {"idle", "failed"}
Terminal  == {"failed", "archived"}
Status    == {"none", "deleted", "archived"} \cup Live \cup Resumable
Exists(r) == status[r] \notin {"none", "deleted"}

CallStage == {"idle", "gate", "list", "enqueue", "rewake", "resume", "create",
              "seed", "dispatch", "markRunning", "fail", "done"}
Running(t)   == pc[t] \notin {"idle", "done"}
AgentStage   == {"none", "queued", "up", "leaving", "gone"}
Attached(t)  == agent[t] \in {"queued", "up", "leaving"}
UserStage    == {"stopEnqueue", "stopMark", "resetEnqueue", "resetMark",
                 "resetArchive", "resetTrigger", "delete"}

Goto(t, stage) == pc' = [pc EXCEPT ![t] = stage]

Init ==
    /\ issue = "open"
    /\ status = [r \in Rows |-> "none"]
    /\ cause = [r \in Rows |-> NoCause]
    /\ queue = [r \in Rows |-> <<>>]
    /\ pc = [t \in Calls |-> "idle"]
    /\ event = [t \in Calls |-> NoCause]
    /\ row = [t \in Calls |-> NoRow]
    /\ agent = [t \in Calls |-> "none"]
    /\ stream = [t \in Calls |-> FALSE]
    /\ handled = {}
    /\ lost = {}
    /\ user = [stage |-> "none", row |-> NoRow]
    /\ stops = 0 /\ deletes = 0 /\ faults = 0

----------------------------------------------------------------------------
(* The guarded statements of runner/infra/queries.sql.                      *)

MarkSessionRunning(r) ==
    status' = IF status[r] \in Live THEN [status EXCEPT ![r] = "running"]
                                    ELSE status

\* Mutant: archived is missing from the guard.
MarkSessionTerminalUnguarded(r) ==
    status' = IF Exists(r) /\ status[r] # "failed"
              THEN [status EXCEPT ![r] = "failed"] ELSE status

MarkSessionTerminal(r) ==
    status' = IF status[r] \in {"pending", "running", "idle"}
              THEN [status EXCEPT ![r] = "failed"] ELSE status

MarkSessionIdle(r) ==
    status' = IF status[r] = "running" THEN [status EXCEPT ![r] = "idle"]
                                       ELSE status

ArchiveSessionByID(r) ==
    status' = IF Exists(r) THEN [status EXCEPT ![r] = "archived"] ELSE status

\* A frame can only be added to a row that is still there (foreign key).
EnqueueInput(r, f) ==
    queue' = IF Exists(r) THEN [queue EXCEPT ![r] = Append(@, f)] ELSE queue

----------------------------------------------------------------------------
(* OnTrigger: the gates, the list read and the choice it makes.             *)

StartCall(t, c) ==
    /\ pc[t] = "idle"
    /\ \A u \in Calls : u < t => pc[u] # "idle"
    /\ Cardinality({u \in Calls : Running(u)}) < MaxAtOnce
    /\ event' = [event EXCEPT ![t] = c]
    /\ Goto(t, "gate")

Trigger(t) ==
    /\ \E c \in Causes : StartCall(t, c)
    /\ UNCHANGED <<issue, status, cause, queue, row, agentVars, userVars, faults>>

CheckIssue(t) ==
    /\ pc[t] = "gate"
    /\ Goto(t, IF issue = "open" THEN "list" ELSE "done")
    /\ UNCHANGED <<issue, status, cause, queue, event, row, agentVars,
                   userVars, faults>>

\* existingByRole: the role's most recent row.
IsLatest(r) == Exists(r) /\ \A q \in Rows : q > r => ~ Exists(q)

\* Mutant: only live rows are looked at.
AlreadyForLiveCause(c) == \E r \in Rows : status[r] \in Live /\ cause[r] = c

\* alreadyForCause: an event opened a row that is not archived.
AlreadyForCause(c) ==
    \E r \in Rows : Exists(r) /\ status[r] # "archived" /\ cause[r] = c

Choice(st, silent) ==
    CASE st \in Live -> "enqueue"
      [] st \in Resumable -> IF silent THEN "done" ELSE "rewake"
      [] OTHER -> IF silent THEN "done" ELSE "create"

ListSessionsByIssue(t) ==
    /\ pc[t] = "list"
    /\ \/ /\ AlreadyForCause(event[t])
          /\ Goto(t, "done")
          /\ UNCHANGED row
       \/ /\ ~ AlreadyForCause(event[t])
          /\ \E silent \in SilenceReads :
             \/ \E r \in Rows :
                   /\ IsLatest(r)
                   /\ row' = [row EXCEPT ![t] =
                                IF Choice(status[r], silent) \in {"enqueue", "rewake"}
                                THEN r ELSE NoRow]
                   /\ Goto(t, Choice(status[r], silent))
             \/ /\ \A r \in Rows : ~ Exists(r)
                /\ Goto(t, Choice("none", silent))
                /\ UNCHANGED row
    /\ UNCHANGED <<issue, status, cause, queue, event, agentVars, userVars, faults>>

EnqueueOntoLive(t) ==
    /\ pc[t] = "enqueue"
    /\ EnqueueInput(row[t], t)
    /\ Goto(t, "done")
    /\ UNCHANGED <<issue, status, cause, event, row, agentVars, userVars, faults>>

----------------------------------------------------------------------------
(* rewakeRole and spawnRole: queue the event, make the row live, dispatch.  *)

RewakeEnqueues(t) ==
    /\ pc[t] = "rewake"
    /\ EnqueueInput(row[t], t)
    /\ Goto(t, IF Exists(row[t]) THEN "resume" ELSE "done")
    /\ UNCHANGED <<issue, status, cause, event, row, agentVars, userVars, faults>>

ResumeSession(t) ==
    /\ pc[t] = "resume"
    /\ IF status[row[t]] \in Resumable
       THEN status' = [status EXCEPT ![row[t]] = "pending"] /\ Goto(t, "dispatch")
       ELSE UNCHANGED status /\ Goto(t, "fail")
    /\ UNCHANGED <<issue, cause, queue, event, row, agentVars, userVars, faults>>

CreateSession(t) ==
    /\ pc[t] = "create"
    /\ \E r \in Rows :
          /\ status[r] = "none"
          /\ \A q \in Rows : q < r => status[q] # "none"
          /\ status' = [status EXCEPT ![r] = "pending"]
          /\ cause' = [cause EXCEPT ![r] = event[t]]
          /\ row' = [row EXCEPT ![t] = r]
    /\ Goto(t, "seed")
    /\ UNCHANGED <<issue, queue, event, agentVars, userVars, faults>>

SpawnEnqueues(t) ==
    /\ pc[t] = "seed"
    /\ EnqueueInput(row[t], t)
    /\ Goto(t, IF Exists(row[t]) THEN "dispatch" ELSE "done")
    /\ UNCHANGED <<issue, status, cause, event, row, agentVars, userVars, faults>>

\* Mutant: the row is left pending for a runner to claim.
DispatchLeavesPending(t) ==
    /\ pc[t] = "dispatch"
    /\ agent' = [agent EXCEPT ![t] = "queued"]
    /\ Goto(t, "done")
    /\ UNCHANGED <<issue, status, cause, queue, event, row, stream, handled,
                   lost, userVars, faults>>

\* CreateAgentRun: a workflow run whose one job will boot the agent.
DispatchAgentRun(t) ==
    /\ pc[t] = "dispatch"
    /\ agent' = [agent EXCEPT ![t] = "queued"]
    /\ Goto(t, "markRunning")
    /\ UNCHANGED <<issue, status, cause, queue, event, row, stream, handled,
                   lost, userVars, faults>>

\* The snapshot cannot be resolved, or CreateAgentRun fails.
DispatchFails(t) ==
    /\ pc[t] = "dispatch"
    /\ faults < MaxFaults
    /\ faults' = faults + 1
    /\ Goto(t, "fail")
    /\ UNCHANGED <<issue, status, cause, queue, event, row, agentVars, userVars>>

MarkRunning(t) ==
    /\ pc[t] = "markRunning"
    /\ MarkSessionRunning(row[t])
    /\ Goto(t, "done")
    /\ UNCHANGED <<issue, cause, queue, event, row, agentVars, userVars, faults>>

MarkFailed(t) ==
    /\ pc[t] = "fail"
    /\ MarkSessionTerminal(row[t])
    /\ Goto(t, "done")
    /\ UNCHANGED <<issue, cause, queue, event, row, agentVars, userVars, faults>>

\* A statement fails with an error the code only logs or returns, or the
\* server stops: what was done so far stays.
CallDies(t) ==
    /\ Running(t)
    /\ faults < MaxFaults
    /\ faults' = faults + 1
    /\ Goto(t, "done")
    /\ UNCHANGED <<issue, status, cause, queue, event, row, agentVars, userVars>>

----------------------------------------------------------------------------
(* The agent process and the server's end of its input stream.  The token   *)
(* is checked when a call or a stream begins, not while a stream lasts.     *)

Boot(t) ==
    /\ agent[t] = "queued"
    /\ IF Exists(row[t]) /\ status[row[t]] \notin Terminal
       THEN /\ agent' = [agent EXCEPT ![t] = "up"]
            /\ stream' = [stream EXCEPT ![t] = TRUE]
       ELSE /\ agent' = [agent EXCEPT ![t] = "gone"]
            /\ UNCHANGED stream
    /\ UNCHANGED <<issue, status, cause, queue, callVars, handled, lost, userVars, faults>>

\* ClaimPendingInputs marks all waiting frames consumed, then sends them.
\* An agent reads them up to a shutdown frame; one that has closed its
\* stream reads none.
Before(q) == {q[i] : i \in {i \in DOMAIN q : \A j \in 1 .. i : q[j] # Shutdown}}
HasShutdown(q) == Shutdown \in ToSet(q)

\* Mutant: the session is marked idle after each turn.
StreamInputsIdle(t) ==
    LET q == queue[row[t]] IN
    /\ stream[t]
    /\ q # <<>>
    /\ queue' = [queue EXCEPT ![row[t]] = <<>>]
    /\ handled' = handled \cup Before(q)
    /\ MarkSessionIdle(row[t])
    /\ UNCHANGED <<issue, cause, callVars, agent, stream, lost, userVars, faults>>

StreamInputs(t) ==
    LET q   == queue[row[t]]
        got == IF agent[t] = "up" THEN Before(q) ELSE {}
    IN
    /\ stream[t]
    /\ q # <<>>
    /\ queue' = [queue EXCEPT ![row[t]] = <<>>]
    /\ handled' = handled \cup got
    /\ lost' = lost \cup (ToSet(q) \ (got \cup {Shutdown}))
    /\ agent' = IF agent[t] = "up" /\ HasShutdown(q)
                THEN [agent EXCEPT ![t] = "leaving"] ELSE agent
    /\ UNCHANGED <<issue, status, cause, callVars, stream, userVars, faults>>

\* Five minutes without a frame.  The grace is far longer than the rest of
\* the call that dispatched this agent, hence the first guard.
IdleGrace(t) ==
    /\ pc[t] = "done"
    /\ agent[t] = "up"
    /\ agent' = [agent EXCEPT ![t] = "leaving"]
    /\ UNCHANGED <<issue, status, cause, queue, callVars, stream, handled, lost,
                   userVars, faults>>

\* Mutant: the process exits without calling MarkIdle.
LeaveUnmarked(t) ==
    /\ agent[t] = "leaving"
    /\ agent' = [agent EXCEPT ![t] = "gone"]
    /\ UNCHANGED <<issue, status, cause, queue, callVars, stream, handled, lost,
                   userVars, faults>>

\* Shutdown: the stream is cancelled, then MarkIdle is called.
MarkIdle(t) ==
    /\ agent[t] = "leaving"
    /\ agent' = [agent EXCEPT ![t] = "gone"]
    /\ MarkSessionIdle(row[t])
    /\ UNCHANGED <<issue, cause, queue, callVars, stream, handled, lost, userVars, faults>>

\* The server's handler notices that its client is gone.
StreamCloses(t) ==
    /\ stream[t]
    /\ agent[t] \in {"leaving", "gone"}
    /\ stream' = [stream EXCEPT ![t] = FALSE]
    /\ UNCHANGED <<issue, status, cause, queue, callVars, agent, handled, lost,
                   userVars, faults>>

\* The runner loses the job, or the process or its MarkIdle call is lost.
AgentDies(t) ==
    /\ Attached(t)
    /\ faults < MaxFaults
    /\ faults' = faults + 1
    /\ agent' = [agent EXCEPT ![t] = "gone"]
    /\ UNCHANGED <<issue, status, cause, queue, callVars, stream, handled, lost, userVars>>

----------------------------------------------------------------------------
(* The user's requests and the end of the issue.                            *)

UserStep(stage, r) == user' = [stage |-> stage, row |-> r]

StopReads ==
    /\ user.stage = "none"
    /\ stops < MaxStops
    /\ \E r \in Rows :
          /\ Exists(r) /\ status[r] \notin Terminal
          /\ UserStep("stopEnqueue", r)
    /\ stops' = stops + 1
    /\ UNCHANGED <<issue, status, cause, queue, callVars, agentVars, deletes, faults>>

\* Pending rows are refused; a running one is shut down before the archive.
ResetReads ==
    /\ user.stage = "none"
    /\ stops < MaxStops
    /\ \E r \in Rows :
          /\ Exists(r) /\ status[r] \notin {"archived", "pending"}
          /\ UserStep(IF status[r] = "running" THEN "resetEnqueue" ELSE "resetArchive", r)
    /\ stops' = stops + 1
    /\ UNCHANGED <<issue, status, cause, queue, callVars, agentVars, deletes, faults>>

ShutdownEnqueues ==
    /\ user.stage \in {"stopEnqueue", "resetEnqueue"}
    /\ EnqueueInput(user.row, Shutdown)
    /\ UserStep(IF user.stage = "stopEnqueue" THEN "stopMark" ELSE "resetMark", user.row)
    /\ UNCHANGED <<issue, status, cause, callVars, agentVars, stops, deletes, faults>>

ShutdownMarks ==
    /\ user.stage \in {"stopMark", "resetMark"}
    /\ MarkSessionTerminal(user.row)
    /\ IF user.stage = "stopMark" THEN UserStep("none", NoRow)
                                  ELSE UserStep("resetArchive", user.row)
    /\ UNCHANGED <<issue, cause, queue, callVars, agentVars, stops, deletes, faults>>

ResetArchives ==
    /\ user.stage = "resetArchive"
    /\ ArchiveSessionByID(user.row)
    /\ UserStep("resetTrigger", user.row)
    /\ UNCHANGED <<issue, cause, queue, callVars, agentVars, stops, deletes, faults>>

ResetTriggers(t) ==
    /\ user.stage = "resetTrigger"
    /\ StartCall(t, <<"reset", user.row>>)
    /\ UserStep("none", NoRow)
    /\ UNCHANGED <<issue, status, cause, queue, row, agentVars, stops,
                   deletes, faults>>

DeleteReads ==
    /\ user.stage = "none"
    /\ deletes < MaxDeletes
    /\ \E r \in Rows :
          /\ Exists(r) /\ status[r] \notin Live
          /\ UserStep("delete", r)
    /\ deletes' = deletes + 1
    /\ UNCHANGED <<issue, status, cause, queue, callVars, agentVars, stops, faults>>

\* No row has a container id any more, so the row is deleted, and its
\* inputs with it, whatever its status has become.
DeleteSession ==
    /\ user.stage = "delete"
    /\ status' = [status EXCEPT ![user.row] = "deleted"]
    /\ queue' = [queue EXCEPT ![user.row] = <<>>]
    /\ UserStep("none", NoRow)
    /\ UNCHANGED <<issue, cause, callVars, agentVars, stops, deletes, faults>>

CloseIssue ==
    /\ MayClose
    /\ issue = "open"
    /\ issue' = "closing"
    /\ UNCHANGED <<status, cause, queue, callVars, agentVars, userVars, faults>>

OnIssueClosed ==
    /\ issue = "closing"
    /\ issue' = "closed"
    /\ status' = [r \in Rows |-> IF Exists(r) THEN "archived" ELSE status[r]]
    /\ UNCHANGED <<cause, queue, callVars, agentVars, userVars, faults>>

----------------------------------------------------------------------------
CallStep(t) ==
    \/ CheckIssue(t) \/ ListSessionsByIssue(t) \/ EnqueueOntoLive(t)
    \/ RewakeEnqueues(t) \/ ResumeSession(t)
    \/ CreateSession(t) \/ SpawnEnqueues(t)
    \/ DispatchAgentRun(t) \/ MarkRunning(t) \/ MarkFailed(t)

AgentStep(t) == Boot(t) \/ IdleGrace(t) \/ MarkIdle(t)

UserServed ==
    \/ ShutdownEnqueues \/ ShutdownMarks \/ ResetArchives \/ DeleteSession
    \/ \E t \in Calls : ResetTriggers(t)

Next ==
    \/ \E t \in Calls :
          \/ Trigger(t) \/ CallStep(t) \/ DispatchFails(t) \/ CallDies(t)
          \/ AgentStep(t) \/ StreamInputs(t) \/ StreamCloses(t) \/ AgentDies(t)
    \/ StopReads \/ ResetReads \/ DeleteReads \/ UserServed
    \/ CloseIssue \/ OnIssueClosed

Spec == Init /\ [][Next]_vars

\* Handlers run to their end, runners boot what is queued, a stream is
\* polled while it lasts, and a quiet agent leaves.  Nothing has to be
\* triggered, stopped or closed.
Fairness ==
    /\ \A t \in Calls :
          /\ WF_vars(CallStep(t))
          /\ WF_vars(AgentStep(t))
          /\ WF_vars(StreamInputs(t))
          /\ WF_vars(StreamCloses(t))
    /\ WF_vars(UserServed)
    /\ WF_vars(OnIssueClosed)

FairSpec == Spec /\ Fairness

----------------------------------------------------------------------------
TypeOK ==
    /\ issue \in {"open", "closing", "closed"}
    /\ status \in [Rows -> Status]
    /\ cause \in [Rows -> CauseIds \cup {NoCause}]
    /\ queue \in [Rows -> Seq(Frames)]
    /\ pc \in [Calls -> CallStage]
    /\ event \in [Calls -> CauseIds \cup {NoCause}]
    /\ row \in [Calls -> Rows \cup {NoRow}]
    /\ agent \in [Calls -> AgentStage]
    /\ stream \in [Calls -> BOOLEAN]
    /\ handled \in SUBSET Calls
    /\ lost \in SUBSET Calls
    /\ user \in [stage : {"none"}, row : {NoRow}] \cup [stage : UserStage, row : Rows]
    /\ stops \in Nat /\ deletes \in Nat /\ faults \in Nat

Open(r) == Exists(r) /\ status[r] # "archived"

\* Calls are made one at a time.
Serial == MaxAtOnce = 1

\* An event was put on the queue of the call's row.
Queued(t)  == \E r \in Rows : t \in ToSet(queue[r])
Enqueued(t) == Queued(t) \/ t \in handled \cup lost

\* An archived session is never brought back or relabelled, whichever
\* handler was under way when its issue was closed or it was reset; only a
\* user may still delete it (the guards of MarkSessionTerminal, -Idle,
\* -Running and ResumeSession).
ArchivedIsFinal ==
    [][\A r \in Rows : status[r] = "archived" => status'[r] \in {"archived", "deleted"}]_status

\* The event that opened a row is queued on it once, however often and
\* however concurrently it is delivered again (alreadyForCause).
OpeningCauseOnce ==
    \A r \in Rows : \A t, u \in Calls :
        /\ row[t] = r /\ event[t] = cause[r] /\ Enqueued(t)
        /\ row[u] = r /\ event[u] = cause[r] /\ Enqueued(u)
        => t = u

\* With calls made one at a time and nobody stopping a session, a row has at
\* most one agent, whatever fails or dies.
OneAgentPerRow ==
    Serial /\ stops = 0 =>
        \A t, u \in Calls :
            Attached(t) /\ Attached(u) /\ row[t] = row[u] => t = u

\* With calls made one at a time, a role has at most one session that is not
\* archived.
OneOpenRow ==
    Serial => \A r, q \in Rows : Open(r) /\ Open(q) => r = q

\* The statements keep the promise of SessionLife: a role's rows are its
\* sessions, its agents those that have booted and not left, and the frames of
\* a queue its events.
State(r) ==
    CASE status[r] = "none"      -> "unborn"
      [] status[r] \in Live      -> "awake"
      [] status[r] \in Resumable -> "asleep"
      [] status[r] = "archived"  -> "archived"
      [] OTHER                   -> "removed"
AtWork(r) == {t \in Calls : row[t] = r /\ agent[t] \in {"up", "leaving"}}
Waiting(r) == ToSet(queue[r]) \ {Shutdown}
New == {t \in Calls : pc[t] \notin {"resume", "dispatch", "markRunning", "fail", "done"}}
Life == INSTANCE SessionLife WITH
            Session <- Rows, Agent <- Calls, Event <- Calls, OneByOne <- Serial,
            state <- [r \in Rows |-> State(r)], team <- [r \in Rows |-> AtWork(r)],
            waiting <- [r \in Rows |-> Waiting(r)], new <- New, told <- handled,
            meddled <- (stops > 0)
KeepsLife == Life!Spec

\* While nothing fails, a row never stays pending (the call that made it
\* pending moves it on, unless someone else does), and an event queued on a
\* session is read, or lost with a closing stream, or its session comes to
\* rest so that the next event can wake it.
SessionMovesOn ==
    \A r \in Rows :
        /\ status[r] = "pending" ~> status[r] # "pending"
        /\ \A t \in Calls :
              t \in ToSet(queue[r]) ~> t \notin ToSet(queue[r]) \/ status[r] \notin Live
=============================================================================
