--------------------------- MODULE Session_proofs ---------------------------
(***************************************************************************)
(* Safety of the sessions of a role, for every number of calls, requests   *)
(* and faults.                                                             *)
(*                                                                         *)
(* The first part is about AgentSession.  AimInv holds whatever runs       *)
(* concurrently and gives the deduplication of a row's opening event.      *)
(* SerialInv adds what holds when calls are made one at a time and nobody  *)
(* stops a session, and gives the uniqueness of a row's agent: a row that  *)
(* may be woken has no agent, and neither has a row a call is about to     *)
(* dispatch one for.  OpenInv is about how many rows are open, and with    *)
(* SerialInv gives that every step is one of SessionLife.                  *)
(*                                                                         *)
(* The second part is about SessionHistory: first what the functions of    *)
(* FetchHistory keep of any message log, then what that gives an agent     *)
(* that boots from one: it is shown no event twice, an answered batch      *)
(* stays answered, and the provider accepts its conversation.              *)
(***************************************************************************)
EXTENDS AgentSession, SessionHistory, FiniteSetTheorems, SequenceTheorems,
        WellFoundedInduction, TLAPS

\* A call that has not listed the rows works on none.
UnlistedHasNoRow ==
    \A t \in Calls : pc[t] \in {"idle", "gate", "list"} => row[t] = NoRow

\* A call works on a row that was created.
RowWasCreated == \A t \in Calls : row[t] # NoRow => status[row[t]] # "none"

\* Past the list read, a call works on a row unless it is to create one.
ListedHasRow ==
    \A t \in Calls :
        pc[t] \in {"enqueue", "rewake", "resume", "seed", "dispatch", "markRunning", "fail"}
        => row[t] # NoRow

\* Of the calls that work on a row, only the one that created it was made
\* for the event that opened it.
OneOpener ==
    \A r \in Rows : \A t, u \in Calls :
        /\ row[t] = r /\ event[t] = cause[r]
        /\ row[u] = r /\ event[u] = cause[r]
        => t = u

\* A call that creates a row has none yet.
CreatingHasNoRow == \A t \in Calls : pc[t] = "create" => row[t] = NoRow

\* A process belongs to a call that has dispatched it, for a row.
AgentHasRow ==
    \A t \in Calls :
        agent[t] # "none" => pc[t] \in {"markRunning", "done"} /\ row[t] # NoRow

\* The server only serves streams of processes that were dispatched.
StreamHasAgent == \A t \in Calls : stream[t] => agent[t] # "none"

AimInv ==
    /\ TypeOK
    /\ UnlistedHasNoRow
    /\ RowWasCreated
    /\ ListedHasRow
    /\ CreatingHasNoRow
    /\ OneOpener
    /\ AgentHasRow
    /\ StreamHasAgent

\* The calls do not overlap.
OneCall == Serial => \A t, u \in Calls : Running(t) /\ Running(u) => t = u

\* Without a request, no Stop or Reset is being served.
NoStopServed == stops = 0 => user.stage \in {"none", "delete"}

\* No process is attached to a row that may be woken.
RestingHasNoAgent ==
    Serial /\ stops = 0 =>
        \A t \in Calls : Attached(t) => status[row[t]] \notin Resumable

\* No process is attached to a row a call is still to dispatch one for, or
\* is about to mark failed.
BeingWokenHasNoAgent ==
    Serial /\ stops = 0 =>
        \A t, u \in Calls :
            /\ pc[u] \in {"rewake", "resume", "seed", "dispatch", "fail"}
            /\ Attached(t)
            => row[t] # row[u]

\* The row a call is about to dispatch an agent for is not at rest.
DispatchedIsAwake ==
    Serial /\ stops = 0 =>
        \A t \in Calls :
            pc[t] \in {"seed", "dispatch"} => status[row[t]] \notin Resumable

SerialInv ==
    /\ AimInv
    /\ OneCall
    /\ NoStopServed
    /\ RestingHasNoAgent
    /\ BeingWokenHasNoAgent
    /\ DispatchedIsAwake
    /\ OneAgentPerRow

----------------------------------------------------------------------------
\* Adding a frame to a row's queue keeps the queues' type.
LEMMA EnqueueType ==
    ASSUME queue \in [Rows -> Seq(Frames)], NEW r, NEW f \in Frames, EnqueueInput(r, f)
    PROVE  queue' \in [Rows -> Seq(Frames)]
<1>1. CASE r \in Rows
  <2>1. Append(queue[r], f) \in Seq(Frames)
    BY <1>1
  <2>2. QED
    BY <1>1, <2>1 DEF EnqueueInput
<1>2. CASE r \notin Rows
  BY <1>2 DEF EnqueueInput
<1>3. QED
  BY <1>1, <1>2

\* The stages the list read leads to.
LEMMA ChoiceStage ==
    ASSUME NEW st, NEW silent
    PROVE  Choice(st, silent) \in {"enqueue", "rewake", "create", "done"}
  BY DEF Choice

\* What comes before a shutdown frame is events.
LEMMA BeforeIsCalls ==
    ASSUME NEW q \in Seq(Frames)
    PROVE  Before(q) \subseteq Calls
<1>1. ASSUME NEW i \in DOMAIN q, \A j \in 1 .. i : q[j] # Shutdown
      PROVE  q[i] \in Calls
  <2>1. i \in 1 .. i /\ q[i] \in Frames
    OBVIOUS
  <2>2. QED
    BY <1>1, <2>1 DEF Frames
<1>2. QED
  BY <1>1 DEF Before

----------------------------------------------------------------------------
LEMMA TypeStep == AimInv /\ [Next]_vars => TypeOK'
<1> SUFFICES ASSUME AimInv, [Next]_vars PROVE TypeOK'
  OBVIOUS
<1>0. TypeOK
  BY DEF AimInv
<1> USE <1>0
<1> USE DEF TypeOK, callVars, agentVars, userVars, Goto
<1>1. ASSUME NEW t \in Calls, Trigger(t) PROVE TypeOK'
  BY <1>1 DEF Trigger, StartCall, CauseIds, CallStage
<1>2. ASSUME NEW t \in Calls, CheckIssue(t) PROVE TypeOK'
  BY <1>2 DEF CheckIssue, CallStage
<1>3. ASSUME NEW t \in Calls, ListSessionsByIssue(t) PROVE TypeOK'
  <2>1. CASE AlreadyForCause(event[t])
    BY <1>3, <2>1 DEF ListSessionsByIssue, CallStage
  <2>2. CASE \E silent \in SilenceReads, r \in Rows :
                /\ row' = [row EXCEPT ![t] =
                              IF Choice(status[r], silent) \in {"enqueue", "rewake"}
                              THEN r ELSE NoRow]
                /\ Goto(t, Choice(status[r], silent))
    BY <1>3, <2>2, ChoiceStage DEF ListSessionsByIssue, CallStage
  <2>3. CASE \E silent \in SilenceReads :
                Goto(t, Choice("none", silent)) /\ UNCHANGED row
    BY <1>3, <2>3, ChoiceStage DEF ListSessionsByIssue, CallStage
  <2>4. QED
    BY <1>3, <2>1, <2>2, <2>3 DEF ListSessionsByIssue
<1>4. ASSUME NEW t \in Calls, EnqueueOntoLive(t) PROVE TypeOK'
  <2>1. queue' \in [Rows -> Seq(Frames)]
    BY <1>4, EnqueueType DEF EnqueueOntoLive, Frames
  <2>2. QED
    BY <1>4, <2>1 DEF EnqueueOntoLive, CallStage
<1>5. ASSUME NEW t \in Calls, RewakeEnqueues(t) PROVE TypeOK'
  <2>1. queue' \in [Rows -> Seq(Frames)]
    BY <1>5, EnqueueType DEF RewakeEnqueues, Frames
  <2>2. QED
    BY <1>5, <2>1 DEF RewakeEnqueues, CallStage
<1>6. ASSUME NEW t \in Calls, ResumeSession(t) PROVE TypeOK'
  <2>1. status' \in [Rows -> Status]
    BY <1>6 DEF ResumeSession, Status, Live
  <2>2. pc' \in [Calls -> CallStage]
    BY <1>6 DEF ResumeSession, CallStage
  <2>3. QED
    BY <1>6, <2>1, <2>2 DEF ResumeSession
<1>7. ASSUME NEW t \in Calls, CreateSession(t) PROVE TypeOK'
  BY <1>7 DEF CreateSession, CallStage, Status, Live
<1>8. ASSUME NEW t \in Calls, SpawnEnqueues(t) PROVE TypeOK'
  <2>1. queue' \in [Rows -> Seq(Frames)]
    BY <1>8, EnqueueType DEF SpawnEnqueues, Frames
  <2>2. QED
    BY <1>8, <2>1 DEF SpawnEnqueues, CallStage
<1>9. ASSUME NEW t \in Calls, DispatchAgentRun(t) PROVE TypeOK'
  BY <1>9 DEF DispatchAgentRun, AgentStage, CallStage
<1>10. ASSUME NEW t \in Calls, DispatchFails(t) PROVE TypeOK'
  BY <1>10 DEF DispatchFails, CallStage
<1>11. ASSUME NEW t \in Calls, MarkRunning(t) PROVE TypeOK'
  BY <1>11 DEF MarkRunning, MarkSessionRunning, CallStage, Status, Live
<1>12. ASSUME NEW t \in Calls, MarkFailed(t) PROVE TypeOK'
  BY <1>12 DEF MarkFailed, MarkSessionTerminal, CallStage, Status, Resumable
<1>13. ASSUME NEW t \in Calls, CallDies(t) PROVE TypeOK'
  BY <1>13 DEF CallDies, CallStage
<1>14. ASSUME NEW t \in Calls, Boot(t) PROVE TypeOK'
  BY <1>14 DEF Boot, AgentStage
<1>15. ASSUME NEW t \in Calls, StreamInputs(t) PROVE TypeOK'
  <2>1. row[t] \in Rows
    <3>1. stream[t]
      BY <1>15 DEF StreamInputs
    <3>2. QED
      BY <3>1 DEF AimInv, AgentHasRow, StreamHasAgent
  <2>2. QED
    <3>1. <<>> \in Seq(Frames) /\ queue[row[t]] \in Seq(Frames)
      BY <2>1
    <3>2. queue' \in [Rows -> Seq(Frames)]
      BY <1>15, <2>1, <3>1 DEF StreamInputs
    <3>3. Before(queue[row[t]]) \subseteq Calls
      BY <3>1, BeforeIsCalls
    <3>4. ToSet(queue[row[t]]) \subseteq Frames
      BY <3>1 DEF ToSet
    <3>5. handled' \in SUBSET Calls /\ lost' \in SUBSET Calls
      BY <1>15, <3>3, <3>4 DEF StreamInputs, Frames
    <3>6. agent' \in [Calls -> AgentStage]
      BY <1>15 DEF StreamInputs, AgentStage
    <3>7. QED
      BY <1>15, <3>2, <3>5, <3>6 DEF StreamInputs
<1>16. ASSUME NEW t \in Calls, IdleGrace(t) PROVE TypeOK'
  BY <1>16 DEF IdleGrace, AgentStage
<1>17. ASSUME NEW t \in Calls, MarkIdle(t) PROVE TypeOK'
  BY <1>17 DEF MarkIdle, MarkSessionIdle, AgentStage, Status, Resumable
<1>18. ASSUME NEW t \in Calls, StreamCloses(t) PROVE TypeOK'
  BY <1>18 DEF StreamCloses
<1>19. ASSUME NEW t \in Calls, AgentDies(t) PROVE TypeOK'
  BY <1>19 DEF AgentDies, AgentStage
<1>20. ASSUME NEW t \in Calls, ResetTriggers(t) PROVE TypeOK'
  <2>1. <<"reset", user.row>> \in CauseIds
    BY <1>20 DEF ResetTriggers, CauseIds
  <2>2. QED
    BY <1>20, <2>1 DEF ResetTriggers, StartCall, CallStage, UserStep
<1>21. CASE StopReads
  BY <1>21 DEF StopReads, UserStage, UserStep
<1>22. CASE ResetReads
  BY <1>22 DEF ResetReads, UserStage, UserStep
<1>23. CASE ShutdownEnqueues
  <2>1. queue' \in [Rows -> Seq(Frames)]
    BY <1>23, EnqueueType DEF ShutdownEnqueues, Frames
  <2>2. QED
    BY <1>23, <2>1 DEF ShutdownEnqueues, UserStage, UserStep
<1>24. CASE ShutdownMarks
  <2>1. status' \in [Rows -> Status]
    BY <1>24 DEF ShutdownMarks, MarkSessionTerminal, Status, Resumable
  <2>2. user' \in [stage : {"none"}, row : {NoRow}] \cup [stage : UserStage, row : Rows]
    BY <1>24 DEF ShutdownMarks, UserStage, UserStep
  <2>3. QED
    BY <1>24, <2>1, <2>2 DEF ShutdownMarks
<1>25. CASE ResetArchives
  BY <1>25 DEF ResetArchives, ArchiveSessionByID, UserStage, UserStep, Status
<1>26. CASE DeleteReads
  BY <1>26 DEF DeleteReads, UserStage, UserStep
<1>27. CASE DeleteSession
  <2>1. <<>> \in Seq(Frames)
    OBVIOUS
  <2>2. QED
    BY <1>27, <2>1 DEF DeleteSession, UserStep, UserStage, Status
<1>28. CASE CloseIssue
  BY <1>28 DEF CloseIssue
<1>29. CASE OnIssueClosed
  BY <1>29 DEF OnIssueClosed, Status
<1>30. CASE UNCHANGED vars
  BY <1>30 DEF vars
<1>31. QED
  BY <1>1, <1>2, <1>3, <1>4, <1>5, <1>6, <1>7, <1>8, <1>9, <1>10, <1>11, <1>12,
     <1>13, <1>14, <1>15, <1>16, <1>17, <1>18, <1>19, <1>20, <1>21, <1>22, <1>23,
     <1>24, <1>25, <1>26, <1>27, <1>28, <1>29, <1>30 DEF Next, CallStep, AgentStep,
     UserServed

----------------------------------------------------------------------------
LEMMA AimStep == AimInv /\ [Next]_vars => AimInv'
<1> SUFFICES ASSUME AimInv, [Next]_vars PROVE AimInv'
  OBVIOUS
<1>0. TypeOK'
  BY TypeStep
<1> USE <1>0
<1> USE DEF AimInv, UnlistedHasNoRow, RowWasCreated, ListedHasRow, CreatingHasNoRow,
        OneOpener, AgentHasRow, StreamHasAgent, TypeOK, NoRow, Rows, Live, Resumable,
        Exists, callVars, agentVars, userVars, Goto, UserStep
<1>1. ASSUME NEW t \in Calls, Trigger(t) PROVE AimInv'
  BY <1>1 DEF Trigger, StartCall
<1>2. ASSUME NEW t \in Calls, CheckIssue(t) PROVE AimInv'
  BY <1>2 DEF CheckIssue
<1>3. ASSUME NEW t \in Calls, ListSessionsByIssue(t) PROVE AimInv'
  <2>1. UnlistedHasNoRow'
    BY <1>3 DEF ListSessionsByIssue, IsLatest, AlreadyForCause, Choice
  <2>2. RowWasCreated'
    <3>1. \A u \in Calls : row'[u] \in {row[u], NoRow} \/ Exists(row'[u])
      BY <1>3 DEF ListSessionsByIssue, IsLatest
    <3>2. UNCHANGED status
      BY <1>3 DEF ListSessionsByIssue
    <3>3. QED
      BY <3>1, <3>2
  <2>3. ListedHasRow'
    BY <1>3 DEF ListSessionsByIssue, IsLatest, AlreadyForCause, Choice
  <2>4. CreatingHasNoRow'
    BY <1>3 DEF ListSessionsByIssue, IsLatest, AlreadyForCause, Choice
  <2>5. OneOpener'
    BY <1>3 DEF ListSessionsByIssue, IsLatest, AlreadyForCause, Choice
  <2>6. AgentHasRow'
    BY <1>3 DEF ListSessionsByIssue, IsLatest, AlreadyForCause, Choice
  <2>7. StreamHasAgent'
    BY <1>3 DEF ListSessionsByIssue, IsLatest, AlreadyForCause, Choice
  <2>8. QED
    BY <2>1, <2>2, <2>3, <2>4, <2>5, <2>6, <2>7
<1>4. ASSUME NEW t \in Calls, EnqueueOntoLive(t) PROVE AimInv'
  BY <1>4 DEF EnqueueOntoLive, EnqueueInput
<1>5. ASSUME NEW t \in Calls, RewakeEnqueues(t) PROVE AimInv'
  BY <1>5 DEF RewakeEnqueues, EnqueueInput
<1>6. ASSUME NEW t \in Calls, ResumeSession(t) PROVE AimInv'
  <2>1. UnlistedHasNoRow'
    BY <1>6 DEF ResumeSession
  <2>2. RowWasCreated'
    BY <1>6 DEF ResumeSession
  <2>3. ListedHasRow'
    BY <1>6 DEF ResumeSession
  <2>4. CreatingHasNoRow'
    BY <1>6 DEF ResumeSession
  <2>5. OneOpener'
    BY <1>6 DEF ResumeSession
  <2>6. AgentHasRow'
    BY <1>6 DEF ResumeSession
  <2>7. StreamHasAgent'
    BY <1>6 DEF ResumeSession
  <2>8. QED
    BY <2>1, <2>2, <2>3, <2>4, <2>5, <2>6, <2>7
<1>7. ASSUME NEW t \in Calls, CreateSession(t) PROVE AimInv'
  BY <1>7 DEF CreateSession
<1>8. ASSUME NEW t \in Calls, SpawnEnqueues(t) PROVE AimInv'
  BY <1>8 DEF SpawnEnqueues, EnqueueInput
<1>9. ASSUME NEW t \in Calls, DispatchAgentRun(t) PROVE AimInv'
  BY <1>9 DEF DispatchAgentRun
<1>10. ASSUME NEW t \in Calls, DispatchFails(t) PROVE AimInv'
  BY <1>10 DEF DispatchFails
<1>11. ASSUME NEW t \in Calls, MarkRunning(t) PROVE AimInv'
  BY <1>11 DEF MarkRunning, MarkSessionRunning
<1>12. ASSUME NEW t \in Calls, MarkFailed(t) PROVE AimInv'
  BY <1>12 DEF MarkFailed, MarkSessionTerminal
<1>13. ASSUME NEW t \in Calls, CallDies(t) PROVE AimInv'
  BY <1>13 DEF CallDies
<1>14. ASSUME NEW t \in Calls, Boot(t) PROVE AimInv'
  BY <1>14 DEF Boot
<1>15. ASSUME NEW t \in Calls, StreamInputs(t) PROVE AimInv'
  BY <1>15 DEF StreamInputs, Before, HasShutdown, ToSet
<1>16. ASSUME NEW t \in Calls, IdleGrace(t) PROVE AimInv'
  BY <1>16 DEF IdleGrace
<1>17. ASSUME NEW t \in Calls, MarkIdle(t) PROVE AimInv'
  BY <1>17 DEF MarkIdle, MarkSessionIdle
<1>18. ASSUME NEW t \in Calls, StreamCloses(t) PROVE AimInv'
  BY <1>18 DEF StreamCloses
<1>19. ASSUME NEW t \in Calls, AgentDies(t) PROVE AimInv'
  BY <1>19 DEF AgentDies, Attached
<1>20. ASSUME NEW t \in Calls, ResetTriggers(t) PROVE AimInv'
  BY <1>20 DEF ResetTriggers, StartCall
<1>21. CASE StopReads
  BY <1>21 DEF StopReads
<1>22. CASE ResetReads
  BY <1>22 DEF ResetReads
<1>23. CASE ShutdownEnqueues
  BY <1>23 DEF ShutdownEnqueues, EnqueueInput
<1>24. CASE ShutdownMarks
  BY <1>24 DEF ShutdownMarks, MarkSessionTerminal
<1>25. CASE ResetArchives
  BY <1>25 DEF ResetArchives, ArchiveSessionByID
<1>26. CASE DeleteReads
  BY <1>26 DEF DeleteReads
<1>27. CASE DeleteSession
  BY <1>27 DEF DeleteSession
<1>28. CASE CloseIssue
  BY <1>28 DEF CloseIssue
<1>29. CASE OnIssueClosed
  BY <1>29 DEF OnIssueClosed
<1>30. CASE UNCHANGED vars
  BY <1>30 DEF vars
<1>31. QED
  BY <1>1, <1>2, <1>3, <1>4, <1>5, <1>6, <1>7, <1>8, <1>9, <1>10, <1>11, <1>12,
     <1>13, <1>14, <1>15, <1>16, <1>17, <1>18, <1>19, <1>20, <1>21, <1>22, <1>23,
     <1>24, <1>25, <1>26, <1>27, <1>28, <1>29, <1>30 DEF Next, CallStep, AgentStep,
     UserServed

----------------------------------------------------------------------------
\* When calls are made one at a time, one only starts when none is running.
LEMMA StartsAlone ==
    ASSUME Serial, Cardinality({u \in Calls : Running(u)}) < MaxAtOnce
    PROVE  \A u \in Calls : ~ Running(u)
<1> DEFINE S == {u \in Calls : Running(u)}
<1>1. IsFiniteSet(Calls)
  BY FS_Interval, BoundsAssumption DEF Calls
<1>2. IsFiniteSet(S)
  BY <1>1, FS_Subset
<1>3. Cardinality(S) \in Nat
  BY <1>2, FS_CardinalityType
<1>4. Cardinality(S) = 0
  BY <1>3 DEF Serial
<1>5. S = {}
  BY <1>2, <1>4, FS_EmptySet
<1>6. QED
  BY <1>5

----------------------------------------------------------------------------
LEMMA SerialStep == SerialInv /\ [Next]_vars => SerialInv'
<1> SUFFICES ASSUME SerialInv, [Next]_vars PROVE SerialInv'
  OBVIOUS
<1>0. AimInv'
  BY AimStep DEF SerialInv
<1> USE <1>0
<1> USE DEF SerialInv, AimInv, UnlistedHasNoRow, RowWasCreated, ListedHasRow,
        CreatingHasNoRow, OneOpener, AgentHasRow, StreamHasAgent, OneCall,
        NoStopServed, RestingHasNoAgent, BeingWokenHasNoAgent, DispatchedIsAwake,
        OneAgentPerRow, TypeOK, Running, Attached, NoRow, Rows, Live, Resumable,
        Exists, callVars, agentVars, userVars, Goto, UserStep
<1>1. ASSUME NEW t \in Calls, Trigger(t) PROVE SerialInv'
  <2>1. OneCall'
    <3>1. Serial => \A u \in Calls : ~ Running(u)
      BY <1>1, StartsAlone DEF Trigger, StartCall
    <3>2. QED
      BY <1>1, <3>1 DEF Trigger, StartCall
  <2>2. NoStopServed'
    BY <1>1 DEF Trigger, StartCall
  <2>3. RestingHasNoAgent'
    BY <1>1 DEF Trigger, StartCall
  <2>4. BeingWokenHasNoAgent'
    BY <1>1 DEF Trigger, StartCall
  <2>5. DispatchedIsAwake'
    BY <1>1 DEF Trigger, StartCall
  <2>6. OneAgentPerRow'
    BY <1>1 DEF Trigger, StartCall
  <2>7. QED
    BY <2>1, <2>2, <2>3, <2>4, <2>5, <2>6
<1>2. ASSUME NEW t \in Calls, CheckIssue(t) PROVE SerialInv'
  BY <1>2 DEF CheckIssue
<1>3. ASSUME NEW t \in Calls, ListSessionsByIssue(t) PROVE SerialInv'
  <2>1. OneCall'
    BY <1>3 DEF ListSessionsByIssue, IsLatest, AlreadyForCause, Choice
  <2>2. NoStopServed'
    BY <1>3 DEF ListSessionsByIssue, IsLatest, AlreadyForCause, Choice
  <2>3. RestingHasNoAgent'
    <3>1. agent[t] = "none"
      BY <1>3 DEF ListSessionsByIssue
    <3>2. \A u \in Calls : u # t => row'[u] = row[u]
      BY <1>3 DEF ListSessionsByIssue
    <3>3. UNCHANGED <<status, agent, stops>>
      BY <1>3 DEF ListSessionsByIssue
    <3>4. QED
      BY <3>1, <3>2, <3>3
  <2>4. BeingWokenHasNoAgent'
    BY <1>3 DEF ListSessionsByIssue, IsLatest, AlreadyForCause, Choice
  <2>5. DispatchedIsAwake'
    BY <1>3 DEF ListSessionsByIssue, IsLatest, AlreadyForCause, Choice
  <2>6. OneAgentPerRow'
    BY <1>3 DEF ListSessionsByIssue, IsLatest, AlreadyForCause, Choice
  <2>7. QED
    BY <2>1, <2>2, <2>3, <2>4, <2>5, <2>6
<1>4. ASSUME NEW t \in Calls, EnqueueOntoLive(t) PROVE SerialInv'
  BY <1>4 DEF EnqueueOntoLive, EnqueueInput
<1>5. ASSUME NEW t \in Calls, RewakeEnqueues(t) PROVE SerialInv'
  BY <1>5 DEF RewakeEnqueues, EnqueueInput
<1>6. ASSUME NEW t \in Calls, ResumeSession(t) PROVE SerialInv'
  <2>1. OneCall'
    BY <1>6 DEF ResumeSession
  <2>2. NoStopServed'
    BY <1>6 DEF ResumeSession
  <2>3. RestingHasNoAgent'
    BY <1>6 DEF ResumeSession
  <2>4. BeingWokenHasNoAgent'
    BY <1>6 DEF ResumeSession
  <2>5. DispatchedIsAwake'
    BY <1>6 DEF ResumeSession
  <2>6. OneAgentPerRow'
    BY <1>6 DEF ResumeSession
  <2>7. QED
    BY <2>1, <2>2, <2>3, <2>4, <2>5, <2>6
<1>7. ASSUME NEW t \in Calls, CreateSession(t) PROVE SerialInv'
  BY <1>7 DEF CreateSession
<1>8. ASSUME NEW t \in Calls, SpawnEnqueues(t) PROVE SerialInv'
  BY <1>8 DEF SpawnEnqueues, EnqueueInput
<1>9. ASSUME NEW t \in Calls, DispatchAgentRun(t) PROVE SerialInv'
  <2>1. OneCall'
    BY <1>9 DEF DispatchAgentRun
  <2>2. NoStopServed'
    BY <1>9 DEF DispatchAgentRun
  <2>3. RestingHasNoAgent'
    BY <1>9 DEF DispatchAgentRun
  <2>4. BeingWokenHasNoAgent'
    BY <1>9 DEF DispatchAgentRun
  <2>5. DispatchedIsAwake'
    BY <1>9 DEF DispatchAgentRun
  <2>6. OneAgentPerRow'
    <3>1. Serial /\ stops = 0 => \A u \in Calls : Attached(u) => row[u] # row[t]
      BY <1>9 DEF DispatchAgentRun
    <3>2. \A u \in Calls : u # t => (Attached(u)' <=> Attached(u))
      BY <1>9 DEF DispatchAgentRun
    <3>3. UNCHANGED <<row, stops>>
      BY <1>9 DEF DispatchAgentRun
    <3>4. QED
      BY <3>1, <3>2, <3>3
  <2>7. QED
    BY <2>1, <2>2, <2>3, <2>4, <2>5, <2>6
<1>10. ASSUME NEW t \in Calls, DispatchFails(t) PROVE SerialInv'
  BY <1>10 DEF DispatchFails
<1>11. ASSUME NEW t \in Calls, MarkRunning(t) PROVE SerialInv'
  BY <1>11 DEF MarkRunning, MarkSessionRunning
<1>12. ASSUME NEW t \in Calls, MarkFailed(t) PROVE SerialInv'
  <2>1. OneCall'
    BY <1>12 DEF MarkFailed, MarkSessionTerminal
  <2>2. NoStopServed'
    BY <1>12 DEF MarkFailed, MarkSessionTerminal
  <2>3. RestingHasNoAgent'
    BY <1>12 DEF MarkFailed, MarkSessionTerminal
  <2>4. BeingWokenHasNoAgent'
    BY <1>12 DEF MarkFailed, MarkSessionTerminal
  <2>5. DispatchedIsAwake'
    BY <1>12 DEF MarkFailed, MarkSessionTerminal
  <2>6. OneAgentPerRow'
    BY <1>12 DEF MarkFailed, MarkSessionTerminal
  <2>7. QED
    BY <2>1, <2>2, <2>3, <2>4, <2>5, <2>6
<1>13. ASSUME NEW t \in Calls, CallDies(t) PROVE SerialInv'
  BY <1>13 DEF CallDies
<1>14. ASSUME NEW t \in Calls, Boot(t) PROVE SerialInv'
  BY <1>14 DEF Boot
<1>15. ASSUME NEW t \in Calls, StreamInputs(t) PROVE SerialInv'
  <2>1. OneCall'
    BY <1>15 DEF StreamInputs, Before, HasShutdown, ToSet
  <2>2. NoStopServed'
    BY <1>15 DEF StreamInputs, Before, HasShutdown, ToSet
  <2>3. RestingHasNoAgent'
    BY <1>15 DEF StreamInputs, Before, HasShutdown, ToSet
  <2>4. BeingWokenHasNoAgent'
    BY <1>15 DEF StreamInputs, Before, HasShutdown, ToSet
  <2>5. DispatchedIsAwake'
    BY <1>15 DEF StreamInputs, Before, HasShutdown, ToSet
  <2>6. OneAgentPerRow'
    BY <1>15 DEF StreamInputs, Before, HasShutdown, ToSet
  <2>7. QED
    BY <2>1, <2>2, <2>3, <2>4, <2>5, <2>6
<1>16. ASSUME NEW t \in Calls, IdleGrace(t) PROVE SerialInv'
  BY <1>16 DEF IdleGrace
<1>17. ASSUME NEW t \in Calls, MarkIdle(t) PROVE SerialInv'
  <2>1. OneCall'
    BY <1>17 DEF MarkIdle, MarkSessionIdle
  <2>2. NoStopServed'
    BY <1>17 DEF MarkIdle, MarkSessionIdle
  <2>3. RestingHasNoAgent'
    <3>1. SUFFICES ASSUME Serial, stops = 0, NEW u \in Calls, Attached(u)'
                   PROVE  status'[row'[u]] \notin Resumable
      BY <1>17 DEF MarkIdle
    <3>2. u # t /\ Attached(u) /\ Attached(t)
      BY <1>17, <3>1 DEF MarkIdle
    <3>3. row[u] # row[t] /\ status[row[u]] \notin Resumable
      BY <3>1, <3>2
    <3>4. QED
      BY <1>17, <3>3 DEF MarkIdle, MarkSessionIdle
  <2>4. BeingWokenHasNoAgent'
    BY <1>17 DEF MarkIdle, MarkSessionIdle
  <2>5. DispatchedIsAwake'
    BY <1>17 DEF MarkIdle, MarkSessionIdle
  <2>6. OneAgentPerRow'
    BY <1>17 DEF MarkIdle, MarkSessionIdle
  <2>7. QED
    BY <2>1, <2>2, <2>3, <2>4, <2>5, <2>6
<1>18. ASSUME NEW t \in Calls, StreamCloses(t) PROVE SerialInv'
  BY <1>18 DEF StreamCloses
<1>19. ASSUME NEW t \in Calls, AgentDies(t) PROVE SerialInv'
  BY <1>19 DEF AgentDies, Attached
<1>20. ASSUME NEW t \in Calls, ResetTriggers(t) PROVE SerialInv'
  <2>1. OneCall'
    <3>1. Serial => \A u \in Calls : ~ Running(u)
      BY <1>20, StartsAlone DEF ResetTriggers, StartCall
    <3>2. QED
      BY <1>20, <3>1 DEF ResetTriggers, StartCall
  <2>2. NoStopServed'
    BY <1>20 DEF ResetTriggers, StartCall
  <2>3. RestingHasNoAgent'
    BY <1>20 DEF ResetTriggers, StartCall
  <2>4. BeingWokenHasNoAgent'
    BY <1>20 DEF ResetTriggers, StartCall
  <2>5. DispatchedIsAwake'
    BY <1>20 DEF ResetTriggers, StartCall
  <2>6. OneAgentPerRow'
    BY <1>20 DEF ResetTriggers, StartCall
  <2>7. QED
    BY <2>1, <2>2, <2>3, <2>4, <2>5, <2>6
<1>21. CASE StopReads
  BY <1>21 DEF StopReads
<1>22. CASE ResetReads
  BY <1>22 DEF ResetReads
<1>23. CASE ShutdownEnqueues
  BY <1>23 DEF ShutdownEnqueues, EnqueueInput
<1>24. CASE ShutdownMarks
  BY <1>24 DEF ShutdownMarks, MarkSessionTerminal
<1>25. CASE ResetArchives
  BY <1>25 DEF ResetArchives, ArchiveSessionByID
<1>26. CASE DeleteReads
  BY <1>26 DEF DeleteReads
<1>27. CASE DeleteSession
  BY <1>27 DEF DeleteSession
<1>28. CASE CloseIssue
  BY <1>28 DEF CloseIssue
<1>29. CASE OnIssueClosed
  BY <1>29 DEF OnIssueClosed
<1>30. CASE UNCHANGED vars
  BY <1>30 DEF vars
<1>31. QED
  BY <1>1, <1>2, <1>3, <1>4, <1>5, <1>6, <1>7, <1>8, <1>9, <1>10, <1>11, <1>12,
     <1>13, <1>14, <1>15, <1>16, <1>17, <1>18, <1>19, <1>20, <1>21, <1>22, <1>23,
     <1>24, <1>25, <1>26, <1>27, <1>28, <1>29, <1>30 DEF Next, CallStep, AgentStep,
     UserServed

----------------------------------------------------------------------------
LEMMA SerialInit == Init => SerialInv
<1> SUFFICES ASSUME Init PROVE SerialInv
  OBVIOUS
<1>1. TypeOK
  <2>1. queue \in [Rows -> Seq(Frames)]
    BY DEF Init
  <2>2. cause \in [Rows -> CauseIds \cup {NoCause}] /\ event \in [Calls -> CauseIds \cup {NoCause}]
    BY DEF Init
  <2>3. QED
    BY <2>1, <2>2 DEF Init, TypeOK, Status, CallStage, AgentStage
<1>2. AimInv
  BY <1>1 DEF Init, AimInv, UnlistedHasNoRow, RowWasCreated, ListedHasRow,
     CreatingHasNoRow, OneOpener, AgentHasRow, StreamHasAgent, Rows, NoRow
<1>3. QED
  BY <1>2 DEF Init, SerialInv, OneCall, NoStopServed, RestingHasNoAgent,
     BeingWokenHasNoAgent, DispatchedIsAwake, OneAgentPerRow, Running, Attached

\* The inductive invariant holds of every reachable state.
THEOREM Invariance == Spec => []SerialInv
  BY SerialInit, SerialStep, PTL DEF Spec

\* Every variable keeps its type, a queue only holds frames, and only events
\* are counted as read.
THEOREM TypeCorrect == Spec => []TypeOK
<1>1. SerialInv => TypeOK
  BY DEF SerialInv, AimInv
<1>2. QED
  BY <1>1, Invariance, PTL

\* However concurrently it is delivered, the event that opened a session is
\* queued on it once.
THEOREM OpenedOnce == Spec => []OpeningCauseOnce
<1>1. SerialInv => OpeningCauseOnce
  BY DEF SerialInv, AimInv, OneOpener, OpeningCauseOnce
<1>2. QED
  BY <1>1, Invariance, PTL

\* With calls made one at a time and nobody stopping a session, a session
\* never has two agents, whatever fails, dies, is deleted or is closed.
THEOREM SingleAgent == Spec => []OneAgentPerRow
<1>1. SerialInv => OneAgentPerRow
  BY DEF SerialInv
<1>2. QED
  BY <1>1, Invariance, PTL

----------------------------------------------------------------------------
\* Rows are created in the order of their numbers.
CreatedInOrder ==
    \A r, q \in Rows : r < q /\ status[r] = "none" => status[q] = "none"

\* Of a role's rows only the latest can be open.
OnlyLatestOpen == Serial => \A r \in Rows : Open(r) => IsLatest(r)

\* A call only creates a row where no row is open, and while it stands before
\* its INSERT no other call can open one.
CreatingSawNone ==
    Serial => \A t \in Calls, r \in Rows : pc[t] = "create" => ~ Open(r)

\* A request of a user is about a row that is there.
ServedIsThere == user.stage # "none" => Exists(user.row)

OpenInv == CreatedInOrder /\ OnlyLatestOpen /\ CreatingSawNone /\ ServedIsThere

\* What every statement but the INSERT does to the rows: none is created, and
\* none that is archived or deleted is opened again.
OpensNothing ==
    \A r \in Rows : /\ status'[r] = "none" <=> status[r] = "none"
                    /\ Exists(r)' => Exists(r)
                    /\ Open(r)' => Open(r)

\* Without a new row, OpenInv can only be broken by a call that decides to
\* create one.
LEMMA OpenKept ==
    ASSUME OpenInv, OpensNothing,
           \A t \in Calls : pc'[t] = "create" => pc[t] = "create",
           ServedIsThere'
    PROVE  OpenInv'
<1>1. CreatedInOrder'
  BY DEF OpenInv, CreatedInOrder, OpensNothing
<1>2. OnlyLatestOpen'
  <2> SUFFICES ASSUME Serial, NEW r \in Rows, Open(r)' PROVE IsLatest(r)'
    BY DEF OnlyLatestOpen
  <2>1. IsLatest(r) /\ Exists(r)'
    BY DEF OpenInv, OnlyLatestOpen, OpensNothing, Open
  <2>2. QED
    BY <2>1 DEF OpensNothing, IsLatest
<1>3. CreatingSawNone'
  BY DEF OpenInv, CreatingSawNone, OpensNothing
<1>4. QED
  BY <1>1, <1>2, <1>3 DEF OpenInv

LEMMA OpenStep == SerialInv /\ OpenInv /\ [Next]_vars => OpenInv'
<1> SUFFICES ASSUME SerialInv, OpenInv, [Next]_vars PROVE OpenInv'
  OBVIOUS
<1> DEFINE Stays == /\ \A t \in Calls : pc'[t] = "create" => pc[t] = "create"
                    /\ ServedIsThere'
<1>0. TypeOK /\ OneCall /\ ServedIsThere
  BY DEF SerialInv, AimInv, OpenInv
<1> USE <1>0
<1>00. SUFFICES (OpensNothing /\ Stays) \/ OpenInv'
  BY OpenKept
<1> USE DEF OpensNothing, ServedIsThere, Rows, TypeOK, Open, Exists, Live, Resumable, callVars, agentVars,
        userVars, Goto, UserStep
<1>1. ASSUME NEW t \in Calls, Trigger(t) PROVE OpensNothing /\ Stays
  BY <1>1 DEF Trigger, StartCall
<1>2. ASSUME NEW t \in Calls, CheckIssue(t) PROVE OpensNothing /\ Stays
  BY <1>2 DEF CheckIssue
<1>3. ASSUME NEW t \in Calls, ListSessionsByIssue(t) PROVE OpenInv'
  <2>1. OpensNothing /\ UNCHANGED status
    BY <1>3 DEF ListSessionsByIssue
  <2>2. CreatedInOrder' /\ OnlyLatestOpen'
    BY <2>1 DEF OpenInv, CreatedInOrder, OnlyLatestOpen, IsLatest
  <2>3. ASSUME Serial, pc'[t] = "create", NEW r \in Rows PROVE ~ Open(r)
    <3>1. CASE \E q \in Rows : IsLatest(q) /\ status[q] \notin Live \cup Resumable
      <4>1. PICK q \in Rows : IsLatest(q) /\ status[q] \notin Live \cup Resumable
        BY <3>1
      <4>2. ~ Open(q)
        BY <4>1 DEF Status
      <4>3. Open(r) => r = q
        BY <2>3, <4>1 DEF OpenInv, OnlyLatestOpen, IsLatest, Rows
      <4>4. QED
        BY <4>2, <4>3
    <3>2. CASE \A q \in Rows : ~ Exists(q)
      BY <3>2
    <3>3. QED
      BY <1>3, <2>3, <3>1, <3>2 DEF ListSessionsByIssue, Choice
  <2>4. ASSUME NEW u \in Calls, u # t PROVE pc'[u] = pc[u]
    BY <1>3, <2>4 DEF ListSessionsByIssue
  <2>5. CreatingSawNone'
    BY <2>1, <2>3, <2>4 DEF OpenInv, CreatingSawNone
  <2>6. ServedIsThere'
    BY <1>3 DEF ListSessionsByIssue
  <2>7. QED
    BY <2>2, <2>5, <2>6 DEF OpenInv
<1>4. ASSUME NEW t \in Calls, EnqueueOntoLive(t) PROVE OpensNothing /\ Stays
  BY <1>4 DEF EnqueueOntoLive, EnqueueInput
<1>5. ASSUME NEW t \in Calls, RewakeEnqueues(t) PROVE OpensNothing /\ Stays
  BY <1>5 DEF RewakeEnqueues, EnqueueInput
<1>6. ASSUME NEW t \in Calls, ResumeSession(t) PROVE OpensNothing /\ Stays
  BY <1>6 DEF ResumeSession
<1>7. ASSUME NEW t \in Calls, CreateSession(t) PROVE OpenInv'
  <2>1. PICK r \in Rows : /\ status[r] = "none"
                          /\ \A q \in Rows : q < r => status[q] # "none"
                          /\ status' = [status EXCEPT ![r] = "pending"]
    BY <1>7 DEF CreateSession
  <2>2. \A q \in Rows : q > r => status[q] = "none"
    BY <2>1 DEF OpenInv, CreatedInOrder
  <2>3. CreatedInOrder'
    BY <2>1, <2>2 DEF CreatedInOrder, Rows
  <2>4. Serial => \A q \in Rows : ~ Open(q)
    BY <1>7 DEF CreateSession, OpenInv, CreatingSawNone
  <2>5. OnlyLatestOpen'
    BY <2>1, <2>2, <2>4 DEF OnlyLatestOpen, IsLatest, Rows
  <2>6. Serial => \A u \in Calls : pc'[u] # "create"
    BY <1>7 DEF CreateSession, OneCall, Running
  <2>7. ServedIsThere'
    BY <1>7, <2>1 DEF CreateSession
  <2>8. QED
    BY <2>3, <2>5, <2>6, <2>7 DEF OpenInv, CreatingSawNone
<1>8. ASSUME NEW t \in Calls, SpawnEnqueues(t) PROVE OpensNothing /\ Stays
  BY <1>8 DEF SpawnEnqueues, EnqueueInput
<1>9. ASSUME NEW t \in Calls, DispatchAgentRun(t) PROVE OpensNothing /\ Stays
  BY <1>9 DEF DispatchAgentRun
<1>10. ASSUME NEW t \in Calls, DispatchFails(t) PROVE OpensNothing /\ Stays
  BY <1>10 DEF DispatchFails
<1>11. ASSUME NEW t \in Calls, MarkRunning(t) PROVE OpensNothing /\ Stays
  BY <1>11 DEF MarkRunning, MarkSessionRunning
<1>12. ASSUME NEW t \in Calls, MarkFailed(t) PROVE OpensNothing /\ Stays
  BY <1>12 DEF MarkFailed, MarkSessionTerminal
<1>13. ASSUME NEW t \in Calls, CallDies(t) PROVE OpensNothing /\ Stays
  BY <1>13 DEF CallDies
<1>14. ASSUME NEW t \in Calls, Boot(t) PROVE OpensNothing /\ Stays
  BY <1>14 DEF Boot
<1>15. ASSUME NEW t \in Calls, StreamInputs(t) PROVE OpensNothing /\ Stays
  BY <1>15 DEF StreamInputs
<1>16. ASSUME NEW t \in Calls, IdleGrace(t) PROVE OpensNothing /\ Stays
  BY <1>16 DEF IdleGrace
<1>17. ASSUME NEW t \in Calls, MarkIdle(t) PROVE OpensNothing /\ Stays
  BY <1>17 DEF MarkIdle, MarkSessionIdle
<1>18. ASSUME NEW t \in Calls, StreamCloses(t) PROVE OpensNothing /\ Stays
  BY <1>18 DEF StreamCloses
<1>19. ASSUME NEW t \in Calls, AgentDies(t) PROVE OpensNothing /\ Stays
  BY <1>19 DEF AgentDies
<1>20. ASSUME NEW t \in Calls, ResetTriggers(t) PROVE OpensNothing /\ Stays
  BY <1>20 DEF ResetTriggers, StartCall
<1>21. CASE StopReads
  BY <1>21 DEF StopReads
<1>22. CASE ResetReads
  BY <1>22 DEF ResetReads
<1>23. CASE ShutdownEnqueues
  BY <1>23 DEF ShutdownEnqueues, EnqueueInput
<1>24. CASE ShutdownMarks
  BY <1>24 DEF ShutdownMarks, MarkSessionTerminal
<1>25. CASE ResetArchives
  BY <1>25 DEF ResetArchives, ArchiveSessionByID
<1>26. CASE DeleteReads
  BY <1>26 DEF DeleteReads
<1>27. CASE DeleteSession
  BY <1>27 DEF DeleteSession
<1>28. CASE CloseIssue
  BY <1>28 DEF CloseIssue
<1>29. CASE OnIssueClosed
  BY <1>29 DEF OnIssueClosed
<1>30. CASE UNCHANGED vars
  BY <1>30 DEF vars
<1>31. QED
  BY <1>1, <1>2, <1>3, <1>4, <1>5, <1>6, <1>7, <1>8, <1>9, <1>10, <1>11, <1>12,
     <1>13, <1>14, <1>15, <1>16, <1>17, <1>18, <1>19, <1>20, <1>21, <1>22, <1>23,
     <1>24, <1>25, <1>26, <1>27, <1>28, <1>29, <1>30 DEF Next, CallStep, AgentStep,
     UserServed

\* With calls made one at a time, a role never has two open sessions, whatever
\* is stopped, reset, deleted, closed or fails in between.
THEOREM SingleOpenRow == Spec => []OneOpenRow
<1>1. Init => OpenInv
  BY DEF Init, OpenInv, CreatedInOrder, OnlyLatestOpen, CreatingSawNone,
     ServedIsThere, Open, Exists
<1>2. OpenInv => OneOpenRow
  <2> SUFFICES ASSUME OpenInv, Serial, NEW r \in Rows, NEW q \in Rows, Open(r), Open(q)
               PROVE  r = q
    BY DEF OneOpenRow
  <2>1. IsLatest(r) /\ IsLatest(q) /\ Exists(r) /\ Exists(q)
    BY DEF OpenInv, OnlyLatestOpen, Open
  <2>2. QED
    BY <2>1 DEF IsLatest, Rows
<1>3. QED
  BY <1>1, <1>2, OpenStep, Invariance, PTL DEF Spec

----------------------------------------------------------------------------
\* What a step does to archived rows.
KeepsArchived ==
    \A r \in Rows : status[r] = "archived" => status'[r] \in {"archived", "deleted"}

LEMMA ArchivedStep == AimInv /\ [Next]_vars => KeepsArchived
<1> SUFFICES ASSUME AimInv, [Next]_vars PROVE KeepsArchived
  OBVIOUS
<1> USE DEF KeepsArchived, AimInv, TypeOK, Exists, Live, Resumable, callVars, agentVars,
        userVars
<1>1. ASSUME NEW t \in Calls, Trigger(t) PROVE KeepsArchived
  BY <1>1 DEF Trigger, StartCall
<1>2. ASSUME NEW t \in Calls, CheckIssue(t) PROVE KeepsArchived
  BY <1>2 DEF CheckIssue
<1>3. ASSUME NEW t \in Calls, ListSessionsByIssue(t) PROVE KeepsArchived
  BY <1>3 DEF ListSessionsByIssue, IsLatest, AlreadyForCause, Choice
<1>4. ASSUME NEW t \in Calls, EnqueueOntoLive(t) PROVE KeepsArchived
  BY <1>4 DEF EnqueueOntoLive, EnqueueInput
<1>5. ASSUME NEW t \in Calls, RewakeEnqueues(t) PROVE KeepsArchived
  BY <1>5 DEF RewakeEnqueues, EnqueueInput
<1>6. ASSUME NEW t \in Calls, ResumeSession(t) PROVE KeepsArchived
  BY <1>6 DEF ResumeSession
<1>7. ASSUME NEW t \in Calls, CreateSession(t) PROVE KeepsArchived
  BY <1>7 DEF CreateSession
<1>8. ASSUME NEW t \in Calls, SpawnEnqueues(t) PROVE KeepsArchived
  BY <1>8 DEF SpawnEnqueues, EnqueueInput
<1>9. ASSUME NEW t \in Calls, DispatchAgentRun(t) PROVE KeepsArchived
  BY <1>9 DEF DispatchAgentRun
<1>10. ASSUME NEW t \in Calls, DispatchFails(t) PROVE KeepsArchived
  BY <1>10 DEF DispatchFails
<1>11. ASSUME NEW t \in Calls, MarkRunning(t) PROVE KeepsArchived
  BY <1>11 DEF MarkRunning, MarkSessionRunning
<1>12. ASSUME NEW t \in Calls, MarkFailed(t) PROVE KeepsArchived
  BY <1>12 DEF MarkFailed, MarkSessionTerminal
<1>13. ASSUME NEW t \in Calls, CallDies(t) PROVE KeepsArchived
  BY <1>13 DEF CallDies
<1>14. ASSUME NEW t \in Calls, Boot(t) PROVE KeepsArchived
  BY <1>14 DEF Boot
<1>15. ASSUME NEW t \in Calls, StreamInputs(t) PROVE KeepsArchived
  BY <1>15 DEF StreamInputs, Before, HasShutdown, ToSet
<1>16. ASSUME NEW t \in Calls, IdleGrace(t) PROVE KeepsArchived
  BY <1>16 DEF IdleGrace
<1>17. ASSUME NEW t \in Calls, MarkIdle(t) PROVE KeepsArchived
  BY <1>17 DEF MarkIdle, MarkSessionIdle
<1>18. ASSUME NEW t \in Calls, StreamCloses(t) PROVE KeepsArchived
  BY <1>18 DEF StreamCloses
<1>19. ASSUME NEW t \in Calls, AgentDies(t) PROVE KeepsArchived
  BY <1>19 DEF AgentDies, Attached
<1>20. ASSUME NEW t \in Calls, ResetTriggers(t) PROVE KeepsArchived
  BY <1>20 DEF ResetTriggers, StartCall
<1>21. CASE StopReads
  BY <1>21 DEF StopReads
<1>22. CASE ResetReads
  BY <1>22 DEF ResetReads
<1>23. CASE ShutdownEnqueues
  BY <1>23 DEF ShutdownEnqueues, EnqueueInput
<1>24. CASE ShutdownMarks
  BY <1>24 DEF ShutdownMarks, MarkSessionTerminal
<1>25. CASE ResetArchives
  BY <1>25 DEF ResetArchives, ArchiveSessionByID
<1>26. CASE DeleteReads
  BY <1>26 DEF DeleteReads
<1>27. CASE DeleteSession
  BY <1>27 DEF DeleteSession
<1>28. CASE CloseIssue
  BY <1>28 DEF CloseIssue
<1>29. CASE OnIssueClosed
  BY <1>29 DEF OnIssueClosed
<1>30. CASE UNCHANGED vars
  BY <1>30 DEF vars
<1>31. QED
  BY <1>1, <1>2, <1>3, <1>4, <1>5, <1>6, <1>7, <1>8, <1>9, <1>10, <1>11, <1>12,
     <1>13, <1>14, <1>15, <1>16, <1>17, <1>18, <1>19, <1>20, <1>21, <1>22, <1>23,
     <1>24, <1>25, <1>26, <1>27, <1>28, <1>29, <1>30 DEF Next, CallStep, AgentStep,
     UserServed

\* No handler brings an archived session back or relabels it, whenever its
\* statement runs.
THEOREM ArchiveHolds == Spec => ArchivedIsFinal
<1>1. SerialInv /\ [Next]_vars =>
        [\A r \in Rows : status[r] = "archived"
                        => status'[r] \in {"archived", "deleted"}]_status
  BY ArchivedStep DEF SerialInv, KeepsArchived
<1>2. QED
  BY <1>1, Invariance, PTL DEF Spec, ArchivedIsFinal

----------------------------------------------------------------------------
(* The statements keep the promise of SessionLife.  Its view of the rows,  *)
(* the agents and the queues, and what a statement may leave alone of it:  *)

SameStates == \A r \in Rows : State(r)' = State(r)
SameTeams  == \A r \in Rows : AtWork(r)' = AtWork(r)
SameQueues == \A r \in Rows : Waiting(r)' = Waiting(r)
SameEvents == New' = New /\ handled' = handled
OtherStates(r) == \A q \in Rows \ {r} : State(q)' = State(q)

LEMMA LifeInit == Init => Life!Init
<1> SUFFICES ASSUME Init PROVE Life!Init
  OBVIOUS
<1>1. ASSUME NEW r \in Rows PROVE State(r) = "unborn" /\ AtWork(r) = {}
  <2>1. status[r] = "none" /\ \A t \in Calls : agent[t] = "none"
    BY DEF Init
  <2>2. State(r) = "unborn"
    BY <2>1 DEF State, Live, Resumable
  <2>3. AtWork(r) = {}
    BY <2>1 DEF AtWork
  <2>4. QED
    BY <2>2, <2>3
<1>2. \A r \in Rows : Waiting(r) = {}
  BY DEF Init, Waiting, ToSet
<1>3. New = Calls /\ handled = {} /\ (stops > 0) = FALSE
  BY DEF Init, New
<1>4. QED
  BY <1>1, <1>2, <1>3 DEF Life!Init

LEMMA LifeStutters ==
    ASSUME SameStates, SameTeams, SameQueues, SameEvents, stops' = stops
    PROVE  UNCHANGED Life!vars
  BY DEF SameStates, SameTeams, SameQueues, SameEvents, Life!vars

\* One session changes its state.
LEMMA LifeOpens ==
    ASSUME NEW r \in Rows, State(r) = "unborn", State(r)' = "awake", OtherStates(r),
           \A q \in Rows : q < r => State(q) # "unborn",
           Serial => \A q \in Rows : State(q) \notin {"awake", "asleep"},
           SameTeams, SameQueues, SameEvents, stops' = stops
    PROVE  Life!Next
<1>1. Life!Opens(r)
  BY DEF OtherStates, SameTeams, SameQueues, SameEvents, Life!Opens, Life!Open
<1>2. QED
  BY <1>1 DEF Life!Next

LEMMA LifeWakes ==
    ASSUME NEW r \in Rows, State(r) = "asleep", State(r)' = "awake", OtherStates(r),
           Serial /\ ~(stops > 0) => AtWork(r) = {},
           SameTeams, SameQueues, SameEvents, stops' = stops
    PROVE  Life!Next
<1>1. Life!Wakes(r)
  BY DEF OtherStates, SameTeams, SameQueues, SameEvents, Life!Wakes, Life!Alone, Life!Quiet
<1>2. QED
  BY <1>1 DEF Life!Next

LEMMA LifeRests ==
    ASSUME NEW r \in Rows, State(r) = "awake", State(r)' = "asleep", OtherStates(r),
           Serial /\ ~(stops > 0) => AtWork(r) = {},
           SameTeams, SameQueues, SameEvents, stops' = stops
    PROVE  Life!Next
<1>1. Life!Rests(r)
  BY DEF OtherStates, SameTeams, SameQueues, SameEvents, Life!Rests, Life!Alone, Life!Quiet
<1>2. QED
  BY <1>1 DEF Life!Next

LEMMA LifeArchives ==
    ASSUME NEW S \in SUBSET Rows, \A r \in S : State(r) \in {"awake", "asleep"} /\ State(r)' = "archived",
           \A r \in Rows \ S : State(r)' = State(r),
           SameTeams, SameQueues, SameEvents, stops' = stops
    PROVE  Life!Next
<1>1. Life!Archives(S) /\ S \in SUBSET {r \in Rows : Life!Open(r)}
  BY DEF SameTeams, SameQueues, SameEvents, Life!Archives, Life!Open
<1>2. QED
  BY <1>1 DEF Life!Next

LEMMA LifeRemoves ==
    ASSUME NEW r \in Rows, State(r) \notin {"unborn", "removed"}, State(r)' = "removed",
           OtherStates(r), Waiting(r)' = {}, \A q \in Rows \ {r} : Waiting(q)' = Waiting(q),
           SameTeams, SameEvents, stops' = stops
    PROVE  Life!Next
<1>1. Life!Removes(r)
  BY DEF OtherStates, SameTeams, SameEvents, Life!Removes
<1>2. QED
  BY <1>1 DEF Life!Next

\* An agent comes or goes.
LEMMA LifeStarts ==
    ASSUME NEW r \in Rows, NEW t \in Calls, State(r) \in {"awake", "asleep"},
           Serial /\ ~(stops > 0) => AtWork(r) = {} /\ State(r) = "awake",
           \A q \in Rows : t \notin AtWork(q), AtWork(r)' = AtWork(r) \cup {t},
           \A q \in Rows \ {r} : AtWork(q)' = AtWork(q),
           SameStates, SameQueues, SameEvents, stops' = stops
    PROVE  Life!Next
<1>1. Life!Starts(r, t)
  BY DEF SameStates, SameQueues, SameEvents, Life!Starts, Life!Alone, Life!Quiet, Life!Open
<1>2. t \in Life!Idle
  BY DEF Life!Idle
<1>3. QED
  BY <1>1, <1>2 DEF Life!Next

LEMMA LifeLeaves ==
    ASSUME NEW r \in Rows, NEW t \in AtWork(r), AtWork(r)' = AtWork(r) \ {t},
           \A q \in Rows \ {r} : AtWork(q)' = AtWork(q),
           SameStates \/ (State(r) = "awake" /\ State(r)' = "asleep" /\ OtherStates(r)),
           SameQueues, SameEvents, stops' = stops
    PROVE  Life!Next
<1>1. CASE SameStates
  <2>1. Life!Leaves(r, t)
    BY <1>1 DEF SameStates, SameQueues, SameEvents, Life!Leaves
  <2>2. QED
    BY <2>1 DEF Life!Next
<1>2. CASE State(r) = "awake" /\ State(r)' = "asleep" /\ OtherStates(r)
  <2>1. Life!Leaves(r, t)
    BY <1>2 DEF OtherStates, SameQueues, SameEvents, Life!Leaves
  <2>2. QED
    BY <2>1 DEF Life!Next
<1>3. QED
  BY <1>1, <1>2

LEMMA LifeMeddles ==
    ASSUME SameStates, SameTeams, SameQueues, SameEvents, stops' > 0
    PROVE  Life!Next
<1>1. Life!Meddles
  BY DEF SameStates, SameTeams, SameQueues, SameEvents, Life!Meddles
<1>2. QED
  BY <1>1 DEF Life!Next

\* An event is queued, turned away, or taken from its queue.
LEMMA LifeQueues ==
    ASSUME NEW r \in Rows, NEW t \in New, State(r) \notin {"unborn", "removed"},
           Waiting(r)' = Waiting(r) \cup {t}, \A q \in Rows \ {r} : Waiting(q)' = Waiting(q),
           New' = New \ {t}, handled' = handled, SameStates, SameTeams, stops' = stops
    PROVE  Life!Next
<1>1. Life!Queues(r, t)
  BY DEF SameStates, SameTeams, Life!Queues
<1>2. QED
  BY <1>1 DEF Life!Next

LEMMA LifeTurnsAway ==
    ASSUME NEW t \in New, New' = New \ {t}, handled' = handled,
           SameStates, SameTeams, SameQueues, stops' = stops
    PROVE  Life!Next
<1>1. Life!TurnsAway(t)
  BY DEF SameStates, SameTeams, SameQueues, Life!TurnsAway
<1>2. QED
  BY <1>1 DEF Life!Next

LEMMA LifeReads ==
    ASSUME NEW r \in Rows, NEW E, E \subseteq Waiting(r), E # {} => AtWork(r) # {},
           Waiting(r)' = {}, \A q \in Rows \ {r} : Waiting(q)' = Waiting(q),
           handled' = handled \cup E, New' = New, SameStates, SameTeams, stops' = stops
    PROVE  Life!Next
<1>1. Life!Reads(r, E) /\ E \in SUBSET Waiting(r)
  BY DEF SameStates, SameTeams, Life!Reads
<1>2. QED
  BY <1>1 DEF Life!Next

----------------------------------------------------------------------------
\* How a statement's assignments show in that view.
LEMMA StateIs ==
    ASSUME TypeOK, NEW r \in Rows
    PROVE  /\ status[r] = "none" <=> State(r) = "unborn"
           /\ status[r] \in Live <=> State(r) = "awake"
           /\ status[r] \in Resumable <=> State(r) = "asleep"
           /\ status[r] = "archived" <=> State(r) = "archived"
           /\ status[r] = "deleted" <=> State(r) = "removed"
           /\ Exists(r) <=> State(r) \notin {"unborn", "removed"}
  BY DEF TypeOK, Status, State, Live, Resumable, Exists

LEMMA StateSet ==
    ASSUME TypeOK, NEW r \in Rows, NEW st, status' = [status EXCEPT ![r] = st]
    PROVE  /\ OtherStates(r)
           /\ st \in Live => State(r)' = "awake"
           /\ st \in Resumable => State(r)' = "asleep"
           /\ st = "archived" => State(r)' = "archived"
           /\ st = "deleted" => State(r)' = "removed"
<1>1. status'[r] = st /\ \A q \in Rows \ {r} : status'[q] = status[q]
  BY DEF TypeOK
<1>2. OtherStates(r)
  BY <1>1 DEF OtherStates, State
<1>3. QED
  BY <1>1, <1>2 DEF State, Live, Resumable

LEMMA StateKept == status' = status => SameStates
  BY DEF SameStates, State

LEMMA TeamKept ==
    ASSUME row' = row, agent' = agent
    PROVE  SameTeams
  BY DEF SameTeams, AtWork

\* A process is at work once it has booted and until it is gone.
LEMMA TeamSet ==
    ASSUME TypeOK, NEW t \in Calls, NEW st, agent' = [agent EXCEPT ![t] = st], row' = row
    PROVE  /\ \A q \in Rows : q # row[t] => AtWork(q)' = AtWork(q)
           /\ st \in {"up", "leaving"} =>
                \A q \in Rows : q = row[t] => AtWork(q)' = AtWork(q) \cup {t}
           /\ st \notin {"up", "leaving"} =>
                \A q \in Rows : q = row[t] => AtWork(q)' = AtWork(q) \ {t}
           /\ (agent[t] \in {"up", "leaving"} <=> st \in {"up", "leaving"}) => SameTeams
<1>1. agent'[t] = st /\ \A u \in Calls \ {t} : agent'[u] = agent[u]
  BY DEF TypeOK
<1>2. \A q \in Rows : q # row[t] => AtWork(q)' = AtWork(q)
  BY <1>1 DEF AtWork
<1>3. ASSUME st \in {"up", "leaving"}, NEW q \in Rows, q = row[t]
      PROVE  AtWork(q)' = AtWork(q) \cup {t}
  BY <1>1, <1>3 DEF AtWork
<1>4. ASSUME st \notin {"up", "leaving"}, NEW q \in Rows, q = row[t]
      PROVE  AtWork(q)' = AtWork(q) \ {t}
  BY <1>1, <1>4 DEF AtWork
<1>5. ASSUME agent[t] \in {"up", "leaving"} <=> st \in {"up", "leaving"}
      PROVE  SameTeams
  BY <1>1, <1>5 DEF SameTeams, AtWork
<1>6. QED
  BY <1>2, <1>3, <1>4, <1>5

\* An event is new until its call has queued it or is done.
LEMMA NewSet ==
    ASSUME TypeOK, NEW t \in Calls, NEW to, Goto(t, to)
    PROVE  /\ to \in {"resume", "dispatch", "markRunning", "fail", "done"} => New' = New \ {t}
           /\ (t \in New <=> to \notin {"resume", "dispatch", "markRunning", "fail", "done"})
              => New' = New
<1>1. pc'[t] = to /\ \A u \in Calls \ {t} : pc'[u] = pc[u]
  BY DEF TypeOK, Goto
<1>2. ASSUME to \in {"resume", "dispatch", "markRunning", "fail", "done"}
      PROVE  New' = New \ {t}
  BY <1>1, <1>2 DEF New
<1>3. ASSUME t \in New <=> to \notin {"resume", "dispatch", "markRunning", "fail", "done"}
      PROVE  New' = New
  BY <1>1, <1>3 DEF New
<1>4. QED
  BY <1>2, <1>3

LEMMA NewKept == pc' = pc => New' = New
  BY DEF New

LEMMA QueueKept == queue' = queue => SameQueues
  BY DEF SameQueues, Waiting

\* A frame is queued on a row that is there, or nowhere.
LEMMA QueueAdds ==
    ASSUME TypeOK, NEW r \in Rows, NEW f \in Frames, EnqueueInput(r, f)
    PROVE  /\ ~ Exists(r) \/ f = Shutdown => SameQueues
           /\ Exists(r) /\ f # Shutdown =>
                /\ Waiting(r)' = Waiting(r) \cup {f}
                /\ \A q \in Rows \ {r} : Waiting(q)' = Waiting(q)
<1>1. CASE ~ Exists(r)
  BY <1>1, QueueKept DEF EnqueueInput
<1>2. CASE Exists(r)
  <2>1. /\ queue'[r] = Append(queue[r], f) /\ queue[r] \in Seq(Frames)
        /\ \A q \in Rows \ {r} : queue'[q] = queue[q]
    BY <1>2 DEF EnqueueInput, TypeOK
  <2>2. ToSet(Append(queue[r], f)) = ToSet(queue[r]) \cup {f}
    <3> DEFINE q == queue[r]
    <3>1. Len(Append(q, f)) = Len(q) + 1 /\ Len(q) \in Nat /\ DOMAIN q = 1 .. Len(q)
          /\ DOMAIN Append(q, f) = 1 .. Len(q) + 1
      BY <2>1
    <3>2. \A i \in 1 .. Len(q) : Append(q, f)[i] = q[i]
      BY <2>1
    <3>3. Append(q, f)[Len(q) + 1] = f
      BY <2>1
    <3>4. QED
      BY <3>1, <3>2, <3>3 DEF ToSet
  <2>3. Waiting(r)' = (Waiting(r) \cup {f}) \ {Shutdown}
    BY <2>1, <2>2 DEF Waiting
  <2>4. \A q \in Rows \ {r} : Waiting(q)' = Waiting(q)
    BY <2>1 DEF Waiting
  <2>5. f = Shutdown => SameQueues
    BY <2>3, <2>4 DEF SameQueues, Waiting
  <2>6. f # Shutdown => Waiting(r)' = Waiting(r) \cup {f}
    BY <2>3 DEF Waiting
  <2>7. QED
    BY <1>2, <2>4, <2>5, <2>6
<1>3. QED
  BY <1>1, <1>2

----------------------------------------------------------------------------
\* What a call's own steps may leave alone.
LEMMA LifeCallStutters ==
    ASSUME TypeOK, NEW t \in Calls, NEW to, Goto(t, to),
           t \in New <=> to \notin {"resume", "dispatch", "markRunning", "fail", "done"},
           status' = status, row' = row, agent' = agent, queue' = queue,
           handled' = handled, stops' = stops
    PROVE  UNCHANGED Life!vars
<1>1. New' = New
  BY NewSet
<1>2. QED
  BY <1>1, StateKept, TeamKept, QueueKept, LifeStutters DEF SameEvents

\* A call whose event is turned away at one of its steps.
LEMMA LifeCallEnds ==
    ASSUME TypeOK, NEW t \in Calls, Goto(t, "done"),
           status' = status, SameTeams, queue' = queue,
           handled' = handled, stops' = stops
    PROVE  Life!Next \/ UNCHANGED Life!vars
<1>1. CASE t \in New
  <2>1. New' = New \ {t}
    BY NewSet
  <2>2. QED
    BY <1>1, <2>1, StateKept, QueueKept, LifeTurnsAway
<1>2. CASE t \notin New
  <2>1. New' = New
    BY <1>2, NewSet
  <2>2. QED
    BY <2>1, StateKept, QueueKept, LifeStutters DEF SameEvents
<1>3. QED
  BY <1>1, <1>2

\* A call queues its event on its row, or turns it away when the row is gone.
LEMMA LifeEnqueues ==
    ASSUME TypeOK, NEW t \in Calls, NEW to, row[t] \in Rows, t \in New,
           EnqueueInput(row[t], t), Goto(t, to),
           to \in {"resume", "dispatch", "markRunning", "fail", "done"},
           status' = status, row' = row, agent' = agent,
           handled' = handled, stops' = stops
    PROVE  Life!Next
<1>1. New' = New \ {t}
  BY NewSet
<1>2. SameStates /\ SameTeams
  BY StateKept, TeamKept
<1>3. t \in Frames /\ t # Shutdown
  BY DEF Frames, Shutdown, Calls
<1>4. CASE Exists(row[t])
  <2>1. State(row[t]) \notin {"unborn", "removed"}
    BY <1>4, StateIs
  <2>2. /\ Waiting(row[t])' = Waiting(row[t]) \cup {t}
        /\ \A q \in Rows \ {row[t]} : Waiting(q)' = Waiting(q)
    BY <1>3, <1>4, QueueAdds
  <2>3. QED
    BY <1>1, <1>2, <2>1, <2>2, LifeQueues
<1>5. CASE ~ Exists(row[t])
  <2>1. SameQueues
    BY <1>3, <1>5, QueueAdds
  <2>2. QED
    BY <1>1, <1>2, <2>1, LifeTurnsAway
<1>6. QED
  BY <1>4, <1>5

\* A statement on a row that concerns neither agents, queues nor events.
OnlyStates ==
    SameTeams /\ SameQueues /\ SameEvents /\ stops' = stops

\* MarkSessionTerminal puts a session to rest that is awake.
LEMMA LifeMarksTerminal ==
    ASSUME TypeOK, NEW r \in Rows, MarkSessionTerminal(r), OnlyStates,
           Serial /\ ~(stops > 0) => AtWork(r) = {}
    PROVE  Life!Next \/ UNCHANGED Life!vars
<1>1. CASE status[r] \in Live
  <2>1. status' = [status EXCEPT ![r] = "failed"]
    BY <1>1 DEF MarkSessionTerminal, Live
  <2>2. OtherStates(r) /\ State(r)' = "asleep" /\ State(r) = "awake"
    BY <1>1, <2>1, StateIs, StateSet DEF Resumable
  <2>3. QED
    BY <2>2, LifeRests DEF OnlyStates
<1>2. CASE status[r] \notin Live
  <2>1. CASE status[r] = "idle"
    <3>1. status' = [status EXCEPT ![r] = "failed"]
      BY <2>1 DEF MarkSessionTerminal
    <3>2. OtherStates(r) /\ State(r)' = "asleep" /\ State(r) = "asleep"
      BY <2>1, <3>1, StateIs, StateSet DEF Resumable
    <3>3. SameStates
      BY <3>2 DEF SameStates, OtherStates
    <3>4. QED
      BY <3>3, LifeStutters DEF OnlyStates
  <2>2. CASE status[r] # "idle"
    <3>1. status' = status
      BY <1>2, <2>2 DEF MarkSessionTerminal, Live
    <3>2. QED
      BY <3>1, StateKept, LifeStutters DEF OnlyStates
  <2>3. QED
    BY <2>1, <2>2
<1>3. QED
  BY <1>1, <1>2

LEMMA LifeStep == SerialInv /\ OpenInv /\ [Next]_vars => [Life!Next]_Life!vars
<1> SUFFICES ASSUME SerialInv, OpenInv, [Next]_vars PROVE [Life!Next]_Life!vars
  OBVIOUS
<1> DEFINE Kept == Life!Next \/ UNCHANGED Life!vars
<1>00. SUFFICES Kept
  OBVIOUS
<1>0. /\ TypeOK /\ AgentHasRow /\ ListedHasRow /\ StreamHasAgent
      /\ stops \in Nat
      /\ \A t \in Calls : row[t] # NoRow => row[t] \in Rows
      /\ user.stage # "none" => user.row \in Rows
  BY DEF SerialInv, AimInv, TypeOK
<1> USE <1>0 DEF callVars, agentVars, userVars
<1>1. ASSUME NEW t \in Calls, Trigger(t) PROVE Kept
  <2>1. Goto(t, "gate") /\ t \in New
    BY <1>1 DEF Trigger, StartCall, New
  <2>2. QED
    BY <1>1, <2>1, LifeCallStutters DEF Trigger
<1>2. ASSUME NEW t \in Calls, CheckIssue(t) PROVE Kept
  <2>1. CASE issue = "open"
    <3>1. Goto(t, "list") /\ t \in New
      BY <1>2, <2>1 DEF CheckIssue, New
    <3>2. QED
      BY <1>2, <3>1, LifeCallStutters DEF CheckIssue
  <2>2. CASE issue # "open"
    BY <1>2, <2>2, LifeCallEnds, TeamKept DEF CheckIssue
  <2>3. QED
    BY <2>1, <2>2
<1>3. ASSUME NEW t \in Calls, ListSessionsByIssue(t) PROVE Kept
  <2>1. PICK to \in {"enqueue", "rewake", "create", "done"} : Goto(t, to)
    BY <1>3, ChoiceStage DEF ListSessionsByIssue
  <2>2. /\ \A u \in Calls \ {t} : row'[u] = row[u]
        /\ agent[t] = "none" /\ agent' = agent
    BY <1>3 DEF ListSessionsByIssue, AgentHasRow, TypeOK
  <2>3. SameTeams
    BY <2>2 DEF SameTeams, AtWork
  <2>4. CASE to = "done"
    BY <1>3, <2>1, <2>3, <2>4, LifeCallEnds DEF ListSessionsByIssue
  <2>5. CASE to # "done"
    <3>1. New' = New
      BY <1>3, <2>1, <2>5, NewSet DEF ListSessionsByIssue, New
    <3>2. QED
      BY <1>3, <2>3, <3>1, StateKept, QueueKept, LifeStutters
      DEF ListSessionsByIssue, SameEvents
  <2>6. QED
    BY <2>4, <2>5
<1>4. ASSUME NEW t \in Calls, EnqueueOntoLive(t) PROVE Kept
  <2>1. row[t] \in Rows /\ t \in New
    BY <1>4 DEF EnqueueOntoLive, ListedHasRow, New
  <2>2. QED
    BY <1>4, <2>1, LifeEnqueues DEF EnqueueOntoLive
<1>5. ASSUME NEW t \in Calls, RewakeEnqueues(t) PROVE Kept
  <2>1. row[t] \in Rows /\ t \in New
    BY <1>5 DEF RewakeEnqueues, ListedHasRow, New
  <2>2. PICK to \in {"resume", "done"} : Goto(t, to)
    BY <1>5 DEF RewakeEnqueues
  <2>3. QED
    BY <1>5, <2>1, <2>2, LifeEnqueues DEF RewakeEnqueues
<1>6. ASSUME NEW t \in Calls, ResumeSession(t) PROVE Kept
  <2>1. row[t] \in Rows /\ t \notin New
    BY <1>6 DEF ResumeSession, ListedHasRow, New
  <2>0. PICK r \in Rows : r = row[t]
    BY <2>1
  <2>2. CASE status[r] \in Resumable
    <3>1. status' = [status EXCEPT ![r] = "pending"] /\ Goto(t, "dispatch")
      BY <1>6, <2>0, <2>2 DEF ResumeSession
    <3>2. /\ State(r) = "asleep" /\ State(r)' = "awake"
          /\ OtherStates(r)
      BY <2>2, <3>1, StateIs, StateSet DEF Live
    <3>3. Serial /\ ~(stops > 0) => AtWork(r) = {}
      BY <2>0, <2>2 DEF SerialInv, RestingHasNoAgent, Attached, AtWork
    <3>4. New' = New
      BY <2>1, <3>1, NewSet
    <3>5. SameTeams /\ SameQueues /\ SameEvents /\ stops' = stops
      BY <1>6, <3>4, TeamKept, QueueKept DEF ResumeSession, SameEvents
    <3>6. QED
      BY <3>2, <3>3, <3>5, LifeWakes
  <2>3. CASE status[r] \notin Resumable
    BY <1>6, <2>0, <2>1, <2>3, LifeCallStutters DEF ResumeSession
  <2>4. QED
    BY <2>2, <2>3
<1>7. ASSUME NEW t \in Calls, CreateSession(t) PROVE Kept
  <2>1. PICK r \in Rows : /\ status[r] = "none"
                          /\ \A q \in Rows : q < r => status[q] # "none"
                          /\ status' = [status EXCEPT ![r] = "pending"]
                          /\ row' = [row EXCEPT ![t] = r]
    BY <1>7 DEF CreateSession
  <2>2. State(r) = "unborn" /\ State(r)' = "awake" /\ OtherStates(r)
    BY <2>1, StateIs, StateSet DEF Live
  <2>3. \A q \in Rows : q < r => State(q) # "unborn"
    BY <2>1, StateIs
  <2>4. Serial => \A q \in Rows : State(q) \notin {"awake", "asleep"}
    BY <1>7, StateIs DEF CreateSession, OpenInv, CreatingSawNone, Open
  <2>5. agent[t] = "none" /\ agent' = agent
    BY <1>7 DEF CreateSession, AgentHasRow
  <2>6. SameTeams
    BY <2>1, <2>5 DEF SameTeams, AtWork, TypeOK
  <2>7. New' = New
    BY <1>7, NewSet DEF CreateSession, New
  <2>8. SameQueues /\ SameEvents /\ stops' = stops
    BY <1>7, <2>7, QueueKept DEF CreateSession, SameEvents
  <2>9. QED
    BY <2>2, <2>3, <2>4, <2>6, <2>8, LifeOpens
<1>8. ASSUME NEW t \in Calls, SpawnEnqueues(t) PROVE Kept
  <2>1. row[t] \in Rows /\ t \in New
    BY <1>8 DEF SpawnEnqueues, ListedHasRow, New
  <2>2. PICK to \in {"dispatch", "done"} : Goto(t, to)
    BY <1>8 DEF SpawnEnqueues
  <2>3. QED
    BY <1>8, <2>1, <2>2, LifeEnqueues DEF SpawnEnqueues
<1>9. ASSUME NEW t \in Calls, DispatchAgentRun(t) PROVE Kept
  <2>1. agent[t] = "none" /\ agent' = [agent EXCEPT ![t] = "queued"] /\ row' = row
    BY <1>9 DEF DispatchAgentRun, AgentHasRow
  <2>2. SameTeams
    <3>1. "queued" \notin {"up", "leaving"} /\ agent[t] \notin {"up", "leaving"}
      BY <2>1
    <3>2. QED
      BY <2>1, <3>1, TeamSet
  <2>3. New' = New
    BY <1>9, NewSet DEF DispatchAgentRun, New
  <2>4. QED
    BY <1>9, <2>2, <2>3, StateKept, QueueKept, LifeStutters
    DEF DispatchAgentRun, SameEvents
<1>10. ASSUME NEW t \in Calls, DispatchFails(t) PROVE Kept
  <2>1. t \notin New
    BY <1>10 DEF DispatchFails, New
  <2>2. QED
    BY <1>10, <2>1, LifeCallStutters DEF DispatchFails
<1>11. ASSUME NEW t \in Calls, MarkRunning(t) PROVE Kept
  <2>1. row[t] \in Rows /\ t \notin New
    BY <1>11 DEF MarkRunning, ListedHasRow, New
  <2>2. New' = New
    BY <1>11, <2>1, NewSet DEF MarkRunning
  <2>3. SameStates
    <3>0. PICK r \in Rows : r = row[t]
      BY <2>1
    <3>1. CASE status[r] \in Live
      <4>1. status' = [status EXCEPT ![r] = "running"]
        BY <1>11, <3>0, <3>1 DEF MarkRunning, MarkSessionRunning
      <4>2. State(r) = "awake" /\ State(r)' = "awake" /\ OtherStates(r)
        BY <3>1, <4>1, StateIs, StateSet DEF Live
      <4>3. QED
        BY <4>2 DEF SameStates, OtherStates
    <3>2. CASE status[r] \notin Live
      BY <1>11, <3>0, <3>2, StateKept DEF MarkRunning, MarkSessionRunning
    <3>3. QED
      BY <3>1, <3>2
  <2>4. QED
    BY <1>11, <2>2, <2>3, TeamKept, QueueKept, LifeStutters DEF MarkRunning, SameEvents
<1>12. ASSUME NEW t \in Calls, MarkFailed(t) PROVE Kept
  <2>1. row[t] \in Rows /\ t \notin New
    BY <1>12 DEF MarkFailed, ListedHasRow, New
  <2>2. New' = New
    BY <1>12, <2>1, NewSet DEF MarkFailed
  <2>3. Serial /\ ~(stops > 0) => AtWork(row[t]) = {}
    BY <1>12 DEF MarkFailed, SerialInv, BeingWokenHasNoAgent, Attached, AtWork
  <2>4. MarkSessionTerminal(row[t]) /\ OnlyStates
    BY <1>12, <2>2, TeamKept, QueueKept DEF MarkFailed, OnlyStates, SameEvents
  <2>5. QED
    BY <2>1, <2>3, <2>4, LifeMarksTerminal
<1>13. ASSUME NEW t \in Calls, CallDies(t) PROVE Kept
  BY <1>13, LifeCallEnds, TeamKept DEF CallDies
<1>14. ASSUME NEW t \in Calls, Boot(t) PROVE Kept
  <2>1. row[t] \in Rows /\ agent[t] = "queued" /\ Attached(t)
    BY <1>14 DEF Boot, AgentHasRow, Attached
  <2>2. SameStates /\ SameQueues /\ SameEvents /\ stops' = stops /\ row' = row
    BY <1>14, StateKept, QueueKept, NewKept DEF Boot, SameEvents
  <2>3. CASE Exists(row[t]) /\ status[row[t]] \notin Terminal
    <3>1. agent' = [agent EXCEPT ![t] = "up"]
      BY <1>14, <2>3 DEF Boot
    <3>2. /\ AtWork(row[t])' = AtWork(row[t]) \cup {t}
          /\ \A q \in Rows \ {row[t]} : AtWork(q)' = AtWork(q)
      BY <2>1, <2>2, <3>1, TeamSet
    <3>3. \A q \in Rows : t \notin AtWork(q)
      BY <2>1 DEF AtWork
    <3>4. State(row[t]) \in {"awake", "asleep"}
      BY <2>1, <2>3, StateIs DEF TypeOK, Status, Exists, Terminal
    <3>5. Serial /\ ~(stops > 0) => AtWork(row[t]) = {}
      BY <2>1, <3>3 DEF SerialInv, OneAgentPerRow, Attached, AtWork
    <3>6. Serial /\ ~(stops > 0) => State(row[t]) = "awake"
      BY <2>1, <3>4, StateIs DEF SerialInv, RestingHasNoAgent
    <3>7. QED
      BY <2>1, <2>2, <3>2, <3>3, <3>4, <3>5, <3>6, LifeStarts
  <2>4. CASE ~ (Exists(row[t]) /\ status[row[t]] \notin Terminal)
    <3>1. agent' = [agent EXCEPT ![t] = "gone"]
      BY <1>14, <2>4 DEF Boot
    <3>2. SameTeams
      BY <2>1, <2>2, <3>1, TeamSet
    <3>3. QED
      BY <2>2, <3>2, LifeStutters
  <2>5. QED
    BY <2>3, <2>4
<1>15. ASSUME NEW t \in Calls, StreamInputs(t) PROVE Kept
  <2>0. PICK r \in Rows : r = row[t]
    BY <1>15 DEF StreamInputs, StreamHasAgent, AgentHasRow
  <2> DEFINE q   == queue[r]
             got == IF agent[t] = "up" THEN Before(q) ELSE {}
  <2>2. got \subseteq Waiting(r)
    <3>1. \A i \in DOMAIN q : (\A j \in 1 .. i : q[j] # Shutdown) => q[i] # Shutdown
      <4>1. q \in Seq(Frames)
        BY DEF TypeOK
      <4>2. \A i \in DOMAIN q : i \in 1 .. i
        BY <4>1
      <4>3. QED
        BY <4>2
    <3>2. QED
      BY <3>1 DEF Before, Waiting, ToSet
  <2>3. got # {} => AtWork(r) # {}
    BY <2>0 DEF AtWork
  <2>4. SameTeams
    <3>1. row' = row
      BY <1>15 DEF StreamInputs
    <3>2. CASE agent' = agent
      BY <3>1, <3>2, TeamKept
    <3>3. CASE agent' # agent
      <4>1. agent[t] = "up" /\ agent' = [agent EXCEPT ![t] = "leaving"]
        BY <1>15, <3>3 DEF StreamInputs
      <4>2. QED
        BY <3>1, <4>1, TeamSet
    <3>4. QED
      BY <3>2, <3>3
  <2>5. Waiting(r)' = {} /\ \A p \in Rows \ {r} : Waiting(p)' = Waiting(p)
    <3>1. queue'[r] = <<>> /\ \A p \in Rows \ {r} : queue'[p] = queue[p]
      BY <1>15, <2>0 DEF StreamInputs, TypeOK
    <3>2. QED
      BY <3>1 DEF Waiting, ToSet
  <2>6. SameStates /\ handled' = handled \cup got /\ New' = New /\ stops' = stops
    BY <1>15, <2>0, StateKept, NewKept DEF StreamInputs
  <2> HIDE DEF got
  <2>7. QED
    BY <2>2, <2>3, <2>4, <2>5, <2>6, LifeReads
<1>16. ASSUME NEW t \in Calls, IdleGrace(t) PROVE Kept
  <2>1. agent[t] = "up" /\ agent' = [agent EXCEPT ![t] = "leaving"] /\ row' = row
    BY <1>16 DEF IdleGrace
  <2>2. SameTeams
    BY <2>1, TeamSet
  <2>3. QED
    BY <1>16, <2>2, StateKept, QueueKept, NewKept, LifeStutters DEF IdleGrace, SameEvents
<1>17. ASSUME NEW t \in Calls, MarkIdle(t) PROVE Kept
  <2>1. /\ row[t] \in Rows /\ agent[t] = "leaving" /\ row' = row
        /\ agent' = [agent EXCEPT ![t] = "gone"]
    BY <1>17 DEF MarkIdle, AgentHasRow
  <2>0. PICK r \in Rows : r = row[t]
    BY <2>1
  <2>2. t \in AtWork(r)
    BY <2>0, <2>1 DEF AtWork
  <2>3. /\ AtWork(r)' = AtWork(r) \ {t}
        /\ \A q \in Rows \ {r} : AtWork(q)' = AtWork(q)
    <3>1. "gone" \notin {"up", "leaving"}
      OBVIOUS
    <3>2. QED
      BY <2>0, <2>1, <3>1, TeamSet
  <2>4. \/ SameStates
        \/ State(r) = "awake" /\ State(r)' = "asleep" /\ OtherStates(r)
    <3>1. CASE status[r] = "running"
      BY <1>17, <2>0, <3>1, StateIs, StateSet
      DEF MarkIdle, MarkSessionIdle, Live, Resumable
    <3>2. CASE status[r] # "running"
      BY <1>17, <2>0, <3>2, StateKept DEF MarkIdle, MarkSessionIdle
    <3>3. QED
      BY <3>1, <3>2
  <2>5. SameQueues /\ SameEvents /\ stops' = stops
    BY <1>17, QueueKept, NewKept DEF MarkIdle, SameEvents
  <2>6. QED
    BY <2>2, <2>3, <2>4, <2>5, LifeLeaves
<1>18. ASSUME NEW t \in Calls, StreamCloses(t) PROVE Kept
  BY <1>18, StateKept, TeamKept, QueueKept, NewKept, LifeStutters
  DEF StreamCloses, SameEvents
<1>19. ASSUME NEW t \in Calls, AgentDies(t) PROVE Kept
  <2>1. row[t] \in Rows /\ row' = row /\ agent' = [agent EXCEPT ![t] = "gone"]
    BY <1>19 DEF AgentDies, Attached, AgentHasRow
  <2>0. PICK r \in Rows : r = row[t]
    BY <2>1
  <2>2. SameStates /\ SameQueues /\ SameEvents /\ stops' = stops
    BY <1>19, StateKept, QueueKept, NewKept DEF AgentDies, SameEvents
  <2>3. CASE agent[t] \in {"up", "leaving"}
    <3>1. t \in AtWork(r)
      BY <2>0, <2>3 DEF AtWork
    <3>2. /\ AtWork(r)' = AtWork(r) \ {t}
          /\ \A q \in Rows \ {r} : AtWork(q)' = AtWork(q)
      <4>1. "gone" \notin {"up", "leaving"}
        OBVIOUS
      <4>2. QED
        BY <2>0, <2>1, <4>1, TeamSet
    <3>3. QED
      BY <2>2, <3>1, <3>2, LifeLeaves
  <2>4. CASE agent[t] \notin {"up", "leaving"}
    <3>1. SameTeams
      BY <2>1, <2>4, TeamSet
    <3>2. QED
      BY <2>2, <3>1, LifeStutters
  <2>5. QED
    BY <2>3, <2>4
<1>20. ASSUME NEW t \in Calls, ResetTriggers(t) PROVE Kept
  <2>1. Goto(t, "gate") /\ t \in New
    BY <1>20 DEF ResetTriggers, StartCall, New
  <2>2. QED
    BY <1>20, <2>1, LifeCallStutters DEF ResetTriggers
<1>21. CASE StopReads
  BY <1>21, StateKept, TeamKept, QueueKept, NewKept, LifeMeddles DEF StopReads, SameEvents
<1>22. CASE ResetReads
  BY <1>22, StateKept, TeamKept, QueueKept, NewKept, LifeMeddles DEF ResetReads, SameEvents
<1>23. CASE ShutdownEnqueues
  <2>1. user.row \in Rows /\ Shutdown \in Frames
    BY <1>23 DEF ShutdownEnqueues, Frames
  <2>2. SameQueues
    BY <1>23, <2>1, QueueAdds DEF ShutdownEnqueues
  <2>3. QED
    BY <1>23, <2>2, StateKept, TeamKept, NewKept, LifeStutters
    DEF ShutdownEnqueues, SameEvents
<1>24. CASE ShutdownMarks
  <2>1. user.row \in Rows /\ ~ (Serial /\ ~(stops > 0))
    BY <1>24 DEF ShutdownMarks, SerialInv, NoStopServed
  <2>2. MarkSessionTerminal(user.row) /\ OnlyStates
    BY <1>24, TeamKept, QueueKept, NewKept DEF ShutdownMarks, OnlyStates, SameEvents
  <2>3. QED
    BY <2>1, <2>2, LifeMarksTerminal
<1>25. CASE ResetArchives
  <2>1. PICK r \in Rows : r = user.row /\ Exists(r)
    BY <1>25 DEF ResetArchives, OpenInv, ServedIsThere
  <2>2. OtherStates(r) /\ State(r)' = "archived"
    BY <1>25, <2>1, StateSet DEF ResetArchives, ArchiveSessionByID
  <2>3. SameTeams /\ SameQueues /\ SameEvents /\ stops' = stops
    BY <1>25, TeamKept, QueueKept, NewKept DEF ResetArchives, SameEvents
  <2>4. CASE State(r) = "archived"
    <3>1. SameStates
      BY <2>2, <2>4 DEF SameStates, OtherStates
    <3>2. QED
      BY <2>3, <3>1, LifeStutters
  <2>5. CASE State(r) # "archived"
    <3> DEFINE S == {r}
    <3>1. State(r) \in {"awake", "asleep"}
      BY <2>1, <2>5, StateIs DEF TypeOK, Status
    <3>2. /\ S \in SUBSET Rows
          /\ \A p \in S : State(p) \in {"awake", "asleep"} /\ State(p)' = "archived"
          /\ \A p \in Rows \ S : State(p)' = State(p)
      BY <2>2, <3>1 DEF OtherStates
    <3> HIDE DEF S
    <3>3. QED
      BY <2>3, <3>2, LifeArchives
  <2>6. QED
    BY <2>4, <2>5
<1>26. CASE DeleteReads
  BY <1>26, StateKept, TeamKept, QueueKept, NewKept, LifeStutters DEF DeleteReads, SameEvents
<1>27. CASE DeleteSession
  <2>1. PICK r \in Rows : r = user.row /\ Exists(r)
    BY <1>27 DEF DeleteSession, OpenInv, ServedIsThere
  <2>2. /\ OtherStates(r) /\ State(r)' = "removed"
        /\ State(r) \notin {"unborn", "removed"}
    BY <1>27, <2>1, StateIs, StateSet DEF DeleteSession
  <2>3. /\ Waiting(r)' = {}
        /\ \A q \in Rows \ {r} : Waiting(q)' = Waiting(q)
    BY <1>27, <2>1 DEF DeleteSession, TypeOK, Waiting, ToSet
  <2>4. SameTeams /\ SameEvents /\ stops' = stops
    BY <1>27, TeamKept, NewKept DEF DeleteSession, SameEvents
  <2>5. QED
    BY <2>1, <2>2, <2>3, <2>4, LifeRemoves
<1>28. CASE CloseIssue
  BY <1>28, StateKept, TeamKept, QueueKept, NewKept, LifeStutters DEF CloseIssue, SameEvents
<1>29. CASE OnIssueClosed
  <2> DEFINE S == {r \in Rows : State(r) \in {"awake", "asleep"}}
  <2>1. \A r \in Rows : status'[r] = IF Exists(r) THEN "archived" ELSE status[r]
    BY <1>29 DEF OnIssueClosed
  <2>2. ASSUME NEW r \in S PROVE State(r)' = "archived"
    <3>1. status'[r] = "archived"
      BY <2>1, StateIs
    <3>2. QED
      BY <3>1 DEF State, Live, Resumable
  <2>3. ASSUME NEW r \in Rows \ S PROVE State(r)' = State(r)
    <3>1. status[r] \in {"none", "archived", "deleted"}
      BY StateIs DEF TypeOK, Status
    <3>2. status'[r] = status[r]
      BY <2>1, <3>1 DEF Exists
    <3>3. QED
      BY <3>2 DEF State
  <2>4. SameTeams /\ SameQueues /\ SameEvents /\ stops' = stops
    BY <1>29, TeamKept, QueueKept, NewKept DEF OnIssueClosed, SameEvents
  <2>5. S \in SUBSET Rows /\ \A r \in S : State(r) \in {"awake", "asleep"}
    OBVIOUS
  <2> HIDE DEF S
  <2>6. QED
    BY <2>2, <2>3, <2>4, <2>5, LifeArchives
<1>30. CASE UNCHANGED vars
  BY <1>30, StateKept, TeamKept, QueueKept, NewKept, LifeStutters DEF vars, SameEvents
<1> HIDE DEF Kept
<1>31. QED
  BY <1>1, <1>2, <1>3, <1>4, <1>5, <1>6, <1>7, <1>8, <1>9, <1>10, <1>11, <1>12,
     <1>13, <1>14, <1>15, <1>16, <1>17, <1>18, <1>19, <1>20, <1>21, <1>22, <1>23,
     <1>24, <1>25, <1>26, <1>27, <1>28, <1>29, <1>30 DEF Next, CallStep, AgentStep,
     UserServed

\* Whatever overlaps, fails or is requested, each statement is a step of
\* SessionLife or changes nothing of it: a session is archived for good, an
\* event is queued once and read once by an agent of its session, and with
\* calls made one at a time a role has one open session.
THEOREM ImplementsSessionLife == Spec => KeepsLife
<1>1. Init => OpenInv
  BY DEF Init, OpenInv, CreatedInOrder, OnlyLatestOpen, CreatingSawNone,
     ServedIsThere, Open, Exists
<1>2. QED
  BY <1>1, LifeInit, LifeStep, OpenStep, Invariance, PTL DEF Spec, KeepsLife, Life!Spec

----------------------------------------------------------------------------
(* The message log of a session.                                            *)

LEMMA LeastOf ==
    ASSUME NEW S \in SUBSET Nat, S # {}
    PROVE  \E m \in S : \A k \in S : m <= k
<1> DEFINE R == OpToRel(<, Nat)
<1>1. \A k, m \in Nat : k < m => <<k, m>> \in R
  BY DEF OpToRel
<1>2. IsWellFoundedOn(R, Nat)
  BY NatLessThanWellFounded, Zenon
<1> HIDE DEF R
<1>3. S \subseteq Nat
  OBVIOUS
<1>4. PICK m \in S : \A k \in S : ~(<<k, m>> \in R)
  BY <1>2, <1>3, WFMin, Zenon
<1>5. \A k \in S : ~(k < m)
  BY <1>1, <1>3, <1>4
<1>6. QED
  BY <1>3, <1>5

\* Induction over 0 .. N, for a set of the numbers a fact holds of.
LEMMA UpTo ==
    ASSUME NEW N \in Nat, NEW S, 0 \in S,
           \A n \in 0 .. N : n > 0 /\ n - 1 \in S => n \in S
    PROVE  0 .. N \subseteq S
<1> DEFINE Bad == {n \in 0 .. N : n \notin S}
<1> SUFFICES ASSUME Bad # {} PROVE FALSE
  OBVIOUS
<1>1. Bad \in SUBSET Nat
  OBVIOUS
<1>2. PICK m \in Bad : \A k \in Bad : m <= k
  BY <1>1, LeastOf
<1>3. m > 0 /\ m - 1 \in S
  BY <1>2
<1>4. QED
  BY <1>2, <1>3

\* The pass over the items, as far as the nth.
Pass(f, s, N) == f = [n \in 0 .. N |-> IF n = 0 THEN Nothing ELSE NormalizeStep(f[n - 1], s[n])]

LEMMA PassExists == ASSUME NEW s, NEW N \in Nat PROVE \E f : Pass(f, s, N)
<1> DEFINE S == {n \in Nat : \E f : Pass(f, s, n)}
<1>1. 0 \in S
  <2> DEFINE f0 == [n \in 0 .. 0 |-> Nothing]
  <2>1. Pass(f0, s, 0)
    BY DEF Pass
  <2> QED
    BY <2>1
<1>2. ASSUME NEW n \in 0 .. N, n > 0, n - 1 \in S PROVE n \in S
  <2>1. PICK f : Pass(f, s, n - 1)
    BY <1>2
  <2> DEFINE g == [k \in 0 .. n |-> IF k = n THEN NormalizeStep(f[n - 1], s[n]) ELSE f[k]]
  <2>2. Pass(g, s, n)
    <3>1. \A k \in 0 .. n - 1 : f[k] = IF k = 0 THEN Nothing ELSE NormalizeStep(f[k - 1], s[k])
      BY <2>1 DEF Pass
    <3>2. \A k \in 0 .. n : g[k] = IF k = 0 THEN Nothing ELSE NormalizeStep(g[k - 1], s[k])
      BY <1>2, <3>1
    <3>3. QED
      BY <3>2 DEF Pass
  <2>3. QED
    BY <2>2, <1>2
<1> HIDE DEF S
<1>3. N \in S
  BY <1>1, <1>2, UpTo
<1>4. QED
  BY <1>3 DEF S

LEMMA PassIs ==
    ASSUME NEW s, Len(s) \in Nat
    PROVE  \E f : Pass(f, s, Len(s)) /\ NormalizeInterruptedChains(s) = f[Len(s)].out
<1> DEFINE f == CHOOSE g : Pass(g, s, Len(s))
<1>1. Pass(f, s, Len(s))
  BY PassExists
<1>2. NormalizeInterruptedChains(s) = f[Len(s)].out
  BY DEF NormalizeInterruptedChains, Pass
<1>3. QED
  BY <1>1, <1>2

RowPass(f, rows, N) ==
    f = [n \in 0 .. N |-> IF n = 0 THEN <<>> ELSE f[n - 1] \o MessageToHistoryItems(rows[n])]

LEMMA RowPassExists == ASSUME NEW rows, NEW N \in Nat PROVE \E f : RowPass(f, rows, N)
<1> DEFINE S == {n \in Nat : \E f : RowPass(f, rows, n)}
<1>1. 0 \in S
  <2> DEFINE f0 == [n \in 0 .. 0 |-> <<>>]
  <2>1. RowPass(f0, rows, 0)
    BY DEF RowPass
  <2> QED
    BY <2>1
<1>2. ASSUME NEW n \in 0 .. N, n > 0, n - 1 \in S PROVE n \in S
  <2>1. PICK f : RowPass(f, rows, n - 1)
    BY <1>2
  <2> DEFINE g == [k \in 0 .. n |-> IF k = n THEN f[n - 1] \o MessageToHistoryItems(rows[n]) ELSE f[k]]
  <2>2. RowPass(g, rows, n)
    <3>1. \A k \in 0 .. n - 1 : f[k] = IF k = 0 THEN <<>> ELSE f[k - 1] \o MessageToHistoryItems(rows[k])
      BY <2>1 DEF RowPass
    <3>2. \A k \in 0 .. n : g[k] = IF k = 0 THEN <<>> ELSE g[k - 1] \o MessageToHistoryItems(rows[k])
      BY <1>2, <3>1
    <3>3. QED
      BY <3>2 DEF RowPass
  <2>3. QED
    BY <2>2, <1>2
<1> HIDE DEF S
<1>3. N \in S
  BY <1>1, <1>2, UpTo
<1>4. QED
  BY <1>3 DEF S

LEMMA RowPassIs ==
    ASSUME NEW rows, Len(rows) \in Nat
    PROVE  \E f : RowPass(f, rows, Len(rows)) /\ HistoryItems(rows) = f[Len(rows)]
<1> DEFINE f == CHOOSE g : RowPass(g, rows, Len(rows))
<1>1. RowPass(f, rows, Len(rows))
  BY RowPassExists
<1>2. HistoryItems(rows) = f[Len(rows)]
  BY DEF HistoryItems, RowPass
<1>3. QED
  BY <1>1, <1>2

----------------------------------------------------------------------------
(* Sequences of items as the sets of what is in them.                       *)

Elems(s)     == {s[i] : i \in DOMAIN s}
UpToNth(s, n) == {s[i] : i \in 1 .. n}
IsEvent(x)   == x.kind = "event"
\* No member of E twice, and no event twice.
Once(s, E)   == \A i, j \in DOMAIN s : s[i] \in E /\ s[i] = s[j] => i = j
Distinct(s)  == \A i, j \in DOMAIN s : IsEvent(s[i]) /\ s[i] = s[j] => i = j
\* Events with something else after them.
Followed(s)  == {x \in Elems(s) : IsEvent(x) /\
                   \E i, j \in DOMAIN s : i < j /\ s[i] = x /\ ~IsEvent(s[j])}

LEMMA OfConcat ==
    ASSUME NEW V, NEW a \in Seq(V), NEW b \in Seq(V)
    PROVE  /\ a \o b \in Seq(V) /\ Len(a \o b) = Len(a) + Len(b)
           /\ DOMAIN (a \o b) = 1 .. Len(a) + Len(b)
           /\ \A i \in 1 .. Len(a) : (a \o b)[i] = a[i]
           /\ \A i \in 1 .. Len(b) : (a \o b)[Len(a) + i] = b[i]
           /\ \A i \in 1 .. Len(a) + Len(b) :
                 i <= Len(a) \/ (i - Len(a) \in 1 .. Len(b) /\ (a \o b)[i] = b[i - Len(a)])
           /\ Elems(a \o b) = Elems(a) \cup Elems(b)
<1>1. /\ a \o b \in Seq(V) /\ Len(a \o b) = Len(a) + Len(b)
      /\ DOMAIN (a \o b) = 1 .. Len(a) + Len(b)
      /\ \A i \in 1 .. Len(a) : (a \o b)[i] = a[i]
      /\ \A i \in 1 .. Len(b) : (a \o b)[Len(a) + i] = b[i]
      /\ Len(a) \in Nat /\ Len(b) \in Nat /\ DOMAIN a = 1 .. Len(a) /\ DOMAIN b = 1 .. Len(b)
  OBVIOUS
<1>2. \A i \in 1 .. Len(a) + Len(b) :
         i <= Len(a) \/ (i - Len(a) \in 1 .. Len(b) /\ (a \o b)[i] = b[i - Len(a)])
  <2> TAKE i \in 1 .. Len(a) + Len(b)
  <2> SUFFICES ASSUME i > Len(a) PROVE i - Len(a) \in 1 .. Len(b) /\ (a \o b)[i] = b[i - Len(a)]
    BY <1>1
  <2>1. i - Len(a) \in 1 .. Len(b)
    BY <1>1
  <2>2. Len(a) + (i - Len(a)) = i
    BY <1>1
  <2>3. QED
    BY <1>1, <2>1, <2>2
<1>3. Elems(a \o b) \subseteq Elems(a) \cup Elems(b)
  BY <1>1, <1>2 DEF Elems
<1>4. Elems(a) \subseteq Elems(a \o b)
  BY <1>1 DEF Elems
<1>5. Elems(b) \subseteq Elems(a \o b)
  <2>1. \A i \in 1 .. Len(b) : Len(a) + i \in 1 .. Len(a) + Len(b)
    BY <1>1
  <2>2. QED
    BY <1>1, <2>1 DEF Elems
<1>6. QED
  BY <1>1, <1>2, <1>3, <1>4, <1>5

LEMMA OnceConcat ==
    ASSUME NEW V, NEW a \in Seq(V), NEW b \in Seq(V), NEW E, Once(a, E), Once(b, E),
           Elems(a) \cap Elems(b) \cap E = {}
    PROVE  Once(a \o b, E)
<1> DEFINE c == a \o b
<1>1. DOMAIN a = 1 .. Len(a) /\ DOMAIN b = 1 .. Len(b) /\ Len(a) \in Nat /\ Len(b) \in Nat
  OBVIOUS
<1>2. ASSUME NEW i \in DOMAIN c, NEW j \in DOMAIN c, c[i] \in E, c[i] = c[j], i < j
      PROVE  FALSE
  <2>1. i \in 1 .. Len(a) + Len(b) /\ j \in 1 .. Len(a) + Len(b)
    BY OfConcat
  <2>2. CASE j <= Len(a)
    <3>1. i \in DOMAIN a /\ j \in DOMAIN a /\ c[i] = a[i] /\ c[j] = a[j]
      BY <1>1, <1>2, <2>1, <2>2, OfConcat
    <3>2. a[i] \in E /\ a[i] = a[j]
      BY <1>2, <3>1
    <3>3. i = j
      BY <3>1, <3>2 DEF Once
    <3>4. QED
      BY <1>1, <1>2, <3>1, <3>3
  <2>3. CASE i <= Len(a) /\ j > Len(a)
    <3>1. i \in DOMAIN a /\ c[i] = a[i]
      BY <1>1, <2>1, <2>3, OfConcat
    <3>2. j - Len(a) \in DOMAIN b /\ c[j] = b[j - Len(a)]
      BY <1>1, <2>1, <2>3, OfConcat
    <3>3. QED
      BY <1>2, <3>1, <3>2 DEF Elems
  <2>4. CASE i > Len(a)
    <3>1. i - Len(a) \in DOMAIN b /\ c[i] = b[i - Len(a)]
      BY <1>1, <2>1, <2>4, OfConcat
    <3>2. j - Len(a) \in DOMAIN b /\ c[j] = b[j - Len(a)]
      BY <1>1, <1>2, <2>1, <2>4, OfConcat
    <3>3. i - Len(a) = j - Len(a)
      BY <1>2, <3>1, <3>2 DEF Once
    <3>4. QED
      BY <1>1, <1>2, <2>1, <3>3
  <2>5. QED
    BY <1>1, <2>1, <2>2, <2>3, <2>4
<1>3. DOMAIN c \subseteq Int
  BY <1>1, OfConcat
<1> HIDE DEF c
<1>4. Once(c, E)
  BY <1>2, <1>3 DEF Once
<1>5. QED
  BY <1>4 DEF c

LEMMA DistinctConcat ==
    ASSUME NEW V, NEW a \in Seq(V), NEW b \in Seq(V), Distinct(a), Distinct(b),
           \A x \in Elems(a) \cap Elems(b) : ~IsEvent(x)
    PROVE  Distinct(a \o b)
<1> DEFINE E == {x \in Elems(a) \cup Elems(b) : IsEvent(x)}
<1>1. Once(a, E) /\ Once(b, E) /\ Elems(a) \cap Elems(b) \cap E = {}
  BY DEF Once, Distinct
<1> HIDE DEF E
<1>2. Once(a \o b, E) /\ Elems(a \o b) = Elems(a) \cup Elems(b)
  BY <1>1, OnceConcat, OfConcat
<1> DEFINE c == a \o b
<1>3. \A i \in DOMAIN c : IsEvent(c[i]) => c[i] \in E
  BY <1>2 DEF E, Elems
<1> HIDE DEF c
<1>4. Once(c, E) => Distinct(c)
  BY <1>3 DEF Once, Distinct
<1>5. QED
  BY <1>2, <1>4 DEF c

LEMMA OfAppend ==
    ASSUME NEW V, NEW a \in Seq(V), NEW x \in V
    PROVE  /\ Append(a, x) \in Seq(V) /\ Elems(Append(a, x)) = Elems(a) \cup {x}
           /\ (Distinct(a) /\ (IsEvent(x) => x \notin Elems(a))) => Distinct(Append(a, x))
<1>1. Append(a, x) \in Seq(V) /\ Append(a, x) = a \o <<x>> /\ <<x>> \in Seq(V)
  OBVIOUS
<1>2. Elems(<<x>>) = {x} /\ Distinct(<<x>>)
  BY DEF Elems, Distinct
<1>3. Elems(a \o <<x>>) = Elems(a) \cup {x}
  <2>1. Elems(a \o <<x>>) = Elems(a) \cup Elems(<<x>>)
    BY <1>1, OfConcat
  <2>2. QED
    BY <1>2, <2>1
<1>4. ASSUME Distinct(a), IsEvent(x) => x \notin Elems(a) PROVE Distinct(a \o <<x>>)
  <2>1. \A y \in Elems(a) \cap Elems(<<x>>) : ~IsEvent(y)
    BY <1>2, <1>4
  <2>2. QED
    BY <1>1, <1>2, <1>4, <2>1, DistinctConcat
<1>5. QED
  BY <1>1, <1>3, <1>4

LEMMA OnceAppend ==
    ASSUME NEW V, NEW a \in Seq(V), NEW x \in V, NEW E, Once(a, E), x \in E => x \notin Elems(a)
    PROVE  Once(Append(a, x), E)
<1>1. Append(a, x) = a \o <<x>> /\ <<x>> \in Seq(V)
  OBVIOUS
<1>2. Elems(<<x>>) = {x} /\ Once(<<x>>, E)
  BY DEF Elems, Once
<1>3. Elems(a) \cap Elems(<<x>>) \cap E = {}
  BY <1>2
<1>4. QED
  BY <1>1, <1>2, <1>3, OnceConcat

LEMMA OfTail ==
    ASSUME NEW V, NEW a \in Seq(V), a # <<>>
    PROVE  /\ Head(a) \in V /\ Tail(a) \in Seq(V)
           /\ Elems(a) = {Head(a)} \cup Elems(Tail(a))
           /\ \A E : Once(a, E) =>
                 Once(Tail(a), E) /\ (Head(a) \in E => Head(a) \notin Elems(Tail(a)))
<1>1. /\ Head(a) \in V /\ Tail(a) \in Seq(V) /\ Head(a) = a[1]
      /\ Len(a) \in Nat \ {0} /\ DOMAIN a = 1 .. Len(a)
      /\ DOMAIN Tail(a) = 1 .. Len(a) - 1
      /\ \A i \in 1 .. Len(a) - 1 : Tail(a)[i] = a[i + 1]
  OBVIOUS
<1> DEFINE t == Tail(a)
<1>2. /\ DOMAIN t = 1 .. Len(a) - 1
      /\ \A i \in 1 .. Len(a) - 1 : t[i] = a[i + 1]
  BY <1>1
<1> HIDE DEF t
<1>3. Elems(a) = {Head(a)} \cup Elems(t)
  <2>1. \A i \in 1 .. Len(a) : i = 1 \/ (i - 1 \in 1 .. Len(a) - 1 /\ t[i - 1] = a[i])
    BY <1>1, <1>2
  <2>2. Elems(a) \subseteq {Head(a)} \cup Elems(t)
    BY <1>1, <1>2, <2>1 DEF Elems
  <2>3. Elems(t) \subseteq Elems(a) /\ Head(a) \in Elems(a)
    <3>1. \A i \in DOMAIN t : i + 1 \in DOMAIN a /\ t[i] = a[i + 1]
      BY <1>1, <1>2
    <3>2. 1 \in DOMAIN a
      BY <1>1
    <3>3. QED
      BY <1>1, <3>1, <3>2 DEF Elems
  <2>4. QED
    BY <2>2, <2>3
<1>4. ASSUME NEW E, Once(a, E)
      PROVE  Once(t, E) /\ (Head(a) \in E => Head(a) \notin Elems(t))
  <2>1. Once(t, E)
    <3> SUFFICES ASSUME NEW i \in DOMAIN t, NEW j \in DOMAIN t, t[i] \in E, t[i] = t[j]
                 PROVE  i = j
      BY DEF Once
    <3>1. i + 1 \in DOMAIN a /\ j + 1 \in DOMAIN a /\ a[i + 1] = t[i] /\ a[j + 1] = t[j]
      BY <1>1, <1>2
    <3>2. i + 1 = j + 1
      BY <1>4, <3>1 DEF Once
    <3>3. QED
      BY <1>2, <3>2
  <2>2. ASSUME NEW i \in DOMAIN t, Head(a) \in E, t[i] = Head(a) PROVE FALSE
    BY <1>1, <1>2, <1>4, <2>2 DEF Once
  <2>3. QED
    BY <2>1, <2>2 DEF Elems
<1>5. QED
  BY <1>1, <1>3, <1>4 DEF t

LEMMA TailIs ==
    ASSUME NEW S, NEW s \in Seq(S), s # <<>>
    PROVE  /\ 1 \in DOMAIN s /\ Head(s) = s[1] /\ s[1] \in S
           /\ \A i \in DOMAIN Tail(s) : i \in Nat /\ i + 1 \in DOMAIN s /\ Tail(s)[i] = s[i + 1]
<1>1. Len(s) \in Nat /\ DOMAIN s = 1 .. Len(s) /\ Len(s) # 0
  OBVIOUS
<1> DEFINE t == Tail(s)
<1>2. /\ Len(t) = Len(s) - 1 /\ DOMAIN t = 1 .. Len(t)
      /\ \A i \in 1 .. Len(t) : t[i] = s[i + 1]
  BY <1>1
<1>3. 1 \in DOMAIN s /\ Head(s) = s[1] /\ s[1] \in S
  BY <1>1
<1> HIDE DEF t
<1>4. \A i \in DOMAIN t : i \in Nat /\ i + 1 \in DOMAIN s /\ t[i] = s[i + 1]
  BY <1>1, <1>2
<1>5. QED
  BY <1>3, <1>4 DEF t

LEMMA OfPrefix ==
    ASSUME NEW V, NEW s \in Seq(V), NEW n \in 0 .. Len(s)
    PROVE  /\ SubSeq(s, 1, n) \in Seq(V) /\ Len(SubSeq(s, 1, n)) = n
           /\ \A i \in 1 .. n : SubSeq(s, 1, n)[i] = s[i]
           /\ Elems(SubSeq(s, 1, n)) = UpToNth(s, n)
           /\ Distinct(s) => Distinct(SubSeq(s, 1, n))
<1>1. /\ SubSeq(s, 1, n) \in Seq(V) /\ Len(SubSeq(s, 1, n)) = n
      /\ \A i \in 1 .. n : SubSeq(s, 1, n)[i] = s[i]
      /\ DOMAIN SubSeq(s, 1, n) = 1 .. n /\ 1 .. n \subseteq DOMAIN s
  OBVIOUS
<1>2. Elems(SubSeq(s, 1, n)) = UpToNth(s, n)
  BY <1>1 DEF Elems, UpToNth
<1>3. Distinct(s) => Distinct(SubSeq(s, 1, n))
  BY <1>1 DEF Distinct
<1>4. QED
  BY <1>1, <1>2, <1>3

LEMMA MaxIs ==
    ASSUME NEW N \in Nat, NEW S \in SUBSET (0 .. N), S # {}
    PROVE  MaxOf(S) \in S /\ \A k \in S : k <= MaxOf(S)
<1> DEFINE D == {d \in 0 .. N : N - d \in S}
<1>1. D \in SUBSET Nat /\ D # {}
  <2>1. PICK k \in S : TRUE
    OBVIOUS
  <2>2. N - k \in D
    BY <2>1
  <2>3. QED
    BY <2>2
<1>2. PICK d \in D : \A e \in D : d <= e
  BY <1>1, LeastOf
<1>3. N - d \in S /\ \A k \in S : k <= N - d
  <2>1. \A k \in S : N - k \in D
    OBVIOUS
  <2>2. QED
    BY <1>2, <2>1
<1>4. \E n \in S : \A k \in S : k <= n
  BY <1>3
<1>5. QED
  BY <1>4 DEF MaxOf

LEMMA MinIs ==
    ASSUME NEW S \in SUBSET Nat, S # {}
    PROVE  MinOf(S) \in S /\ \A k \in S : MinOf(S) <= k
<1>1. \E n \in S : \A k \in S : n <= k
  BY LeastOf
<1>2. QED
  BY <1>1 DEF MinOf

----------------------------------------------------------------------------
(* The passes of FetchHistory, one by one.                                  *)

\* What rows may become.
Items(T) == T \cup {Tool(r.call) : r \in T} \cup {Summary}

LEMMA OfRow ==
    ASSUME NEW T, NEW r \in T
    PROVE  LET m == MessageToHistoryItems(r) IN
           /\ m \in Seq(Items(T)) /\ Distinct(m)
           /\ IsEvent(r) => Elems(m) = {r} /\ Len(m) = 1
           /\ ~IsEvent(r) => \A x \in Elems(m) : ~IsEvent(x)
           /\ r.kind # "tool_call" => r \in Elems(m)
           /\ r.kind = "tool_call" => Tool(r.call) \in Elems(m)
<1>1. CASE r.kind # "tool_call"
  <2>1. MessageToHistoryItems(r) = <<r>> /\ <<r>> \in Seq(Items(T))
    BY <1>1 DEF MessageToHistoryItems, Items
  <2>2. Elems(<<r>>) = {r} /\ Distinct(<<r>>)
    BY DEF Elems, Distinct
  <2>3. QED
    BY <1>1, <2>1, <2>2
<1>2. CASE r.kind = "tool_call" /\ r.name = "compact"
  <2>1. MessageToHistoryItems(r) = <<Tool(r.call), Summary>> /\ <<Tool(r.call), Summary>> \in Seq(Items(T))
    BY <1>2 DEF MessageToHistoryItems, Items
  <2>2. ~IsEvent(Tool(r.call)) /\ ~IsEvent(Summary)
    BY DEF IsEvent, Tool, Summary
  <2>3. Elems(<<Tool(r.call), Summary>>) = {Tool(r.call), Summary}
    BY DEF Elems
  <2>4. Distinct(<<Tool(r.call), Summary>>)
    BY <2>2 DEF Distinct
  <2>5. ~IsEvent(r)
    BY <1>2 DEF IsEvent
  <2>6. QED
    BY <1>2, <2>1, <2>2, <2>3, <2>4, <2>5
<1>3. CASE r.kind = "tool_call" /\ r.name # "compact"
  <2>1. MessageToHistoryItems(r) = <<Tool(r.call)>> /\ <<Tool(r.call)>> \in Seq(Items(T))
    BY <1>3 DEF MessageToHistoryItems, Items
  <2>2. ~IsEvent(Tool(r.call)) /\ ~IsEvent(r)
    BY <1>3 DEF IsEvent, Tool
  <2>3. Elems(<<Tool(r.call)>>) = {Tool(r.call)} /\ Distinct(<<Tool(r.call)>>)
    BY <2>2 DEF Elems, Distinct
  <2>4. QED
    BY <1>3, <2>1, <2>2, <2>3
<1>4. QED
  BY <1>1, <1>2, <1>3

\* HistoryItems, after n rows.
FollowedUpTo(s, n) == {x \in UpToNth(s, n) : IsEvent(x) /\
                          \E i, j \in 1 .. n : i < j /\ s[i] = x /\ ~IsEvent(s[j])}

ItemsAre(o, rows, n) ==
    /\ \A x \in Elems(o) : IsEvent(x) => x \in UpToNth(rows, n)
    /\ Distinct(rows) => Distinct(o)
    /\ Followed(o) \subseteq FollowedUpTo(rows, n)
    /\ \A i \in 1 .. n : IF rows[i].kind = "tool_call" THEN Tool(rows[i].call) \in Elems(o)
                                                       ELSE rows[i] \in Elems(o)

LEMMA ItemsStep ==
    ASSUME NEW T, NEW rows \in Seq(T), NEW n \in 1 .. Len(rows),
           NEW o \in Seq(Items(T)), ItemsAre(o, rows, n - 1)
    PROVE  LET p == o \o MessageToHistoryItems(rows[n]) IN p \in Seq(Items(T)) /\ ItemsAre(p, rows, n)
<1> DEFINE r == rows[n]
           m == MessageToHistoryItems(r)
           p == o \o m
<1>0. r \in T /\ n \in DOMAIN rows /\ n - 1 \in Nat
  OBVIOUS
<1>1. /\ m \in Seq(Items(T)) /\ Distinct(m)
      /\ IsEvent(r) => Elems(m) = {r} /\ Len(m) = 1
      /\ ~IsEvent(r) => \A x \in Elems(m) : ~IsEvent(x)
      /\ r.kind # "tool_call" => r \in Elems(m)
      /\ r.kind = "tool_call" => Tool(r.call) \in Elems(m)
  BY <1>0, OfRow
<1> HIDE DEF m
<1>2. p \in Seq(Items(T)) /\ Elems(p) = Elems(o) \cup Elems(m)
  BY <1>1, OfConcat
<1>3. UpToNth(rows, n) = UpToNth(rows, n - 1) \cup {r}
  <2>1. 1 .. n = (1 .. n - 1) \cup {n}
    BY <1>0
  <2>2. QED
    BY <2>1 DEF UpToNth
<1>4. ASSUME NEW x \in Elems(p), IsEvent(x) PROVE x \in UpToNth(rows, n)
  BY <1>1, <1>2, <1>3, <1>4 DEF ItemsAre
<1>5. ASSUME Distinct(rows) PROVE Distinct(p)
  <2>1. ASSUME NEW x \in Elems(o) \cap Elems(m), IsEvent(x) PROVE FALSE
    <3>1. x = r /\ IsEvent(r)
      BY <1>1, <2>1
    <3>2. PICK j \in 1 .. n - 1 : rows[j] = r
      BY <2>1, <3>1 DEF ItemsAre, UpToNth
    <3>3. QED
      BY <1>0, <1>5, <3>1, <3>2 DEF Distinct
  <2>2. QED
    BY <1>1, <1>5, <2>1, DistinctConcat DEF ItemsAre
<1>6. ASSUME NEW x \in Followed(p) PROVE x \in FollowedUpTo(rows, n)
  <2>1. PICK i \in DOMAIN p, j \in DOMAIN p : i < j /\ p[i] = x /\ ~IsEvent(p[j]) /\ IsEvent(x)
    BY <1>6 DEF Followed
  <2>2. /\ DOMAIN p = 1 .. Len(o) + Len(m) /\ Len(o) \in Nat /\ Len(m) \in Nat
        /\ DOMAIN o = 1 .. Len(o) /\ DOMAIN m = 1 .. Len(m)
    BY <1>1, OfConcat
  <2>3. CASE j <= Len(o)
    <3>1. i \in DOMAIN o /\ j \in DOMAIN o /\ o[i] = x /\ ~IsEvent(o[j])
      BY <1>1, <2>1, <2>2, <2>3, OfConcat
    <3>2. x \in FollowedUpTo(rows, n - 1)
      BY <2>1, <3>1 DEF Followed, Elems, ItemsAre
    <3>3. QED
      BY <1>0, <1>3, <3>2 DEF FollowedUpTo
  <2>4. CASE j > Len(o)
    <3>1. j - Len(o) \in DOMAIN m /\ p[j] = m[j - Len(o)]
      BY <1>1, <2>1, <2>2, <2>4, OfConcat
    <3>2. ~IsEvent(r)
      <4>1. p[j] \in Elems(m)
        BY <3>1 DEF Elems
      <4>2. QED
        BY <1>1, <2>1, <4>1
    <3>3. i <= Len(o)
      <4> SUFFICES ASSUME i > Len(o) PROVE FALSE
        BY <2>1, <2>2
      <4>1. i - Len(o) \in DOMAIN m /\ p[i] = m[i - Len(o)]
        BY <1>1, <2>1, <2>2, OfConcat
      <4>2. x \in Elems(m)
        BY <2>1, <4>1 DEF Elems
      <4>3. QED
        BY <1>1, <2>1, <3>2, <4>2
    <3>4. x \in Elems(o)
      BY <1>1, <2>1, <2>2, <3>3, OfConcat DEF Elems
    <3>5. PICK k \in 1 .. n - 1 : rows[k] = x
      BY <2>1, <3>4 DEF ItemsAre, UpToNth
    <3>6. k \in 1 .. n /\ n \in 1 .. n /\ k < n
      BY <1>0, <3>5
    <3>7. QED
      BY <2>1, <3>2, <3>5, <3>6 DEF FollowedUpTo, UpToNth
  <2>5. QED
    BY <2>1, <2>2, <2>3, <2>4
<1>7. ASSUME NEW i \in 1 .. n
      PROVE  IF rows[i].kind = "tool_call" THEN Tool(rows[i].call) \in Elems(p) ELSE rows[i] \in Elems(p)
  <2>1. i \in 1 .. n - 1 \/ i = n
    BY <1>0
  <2>2. QED
    BY <1>1, <1>2, <2>1 DEF ItemsAre
<1> HIDE DEF p
<1>8. ItemsAre(p, rows, n)
  BY <1>4, <1>5, <1>6, <1>7 DEF ItemsAre
<1>9. QED
  BY <1>2, <1>8 DEF p, m

LEMMA ItemsAll ==
    ASSUME NEW T, NEW rows \in Seq(T)
    PROVE  /\ HistoryItems(rows) \in Seq(Items(T))
           /\ ItemsAre(HistoryItems(rows), rows, Len(rows))
<1>0. Len(rows) \in Nat
  OBVIOUS
<1>1. PICK f : RowPass(f, rows, Len(rows)) /\ HistoryItems(rows) = f[Len(rows)]
  BY <1>0, RowPassIs
<1> DEFINE S == {n \in Nat : f[n] \in Seq(Items(T)) /\ ItemsAre(f[n], rows, n)}
<1>2. 0 \in S
  <2>1. f[0] = <<>>
    BY <1>0, <1>1 DEF RowPass
  <2>2. ItemsAre(<<>>, rows, 0)
    BY DEF ItemsAre, Elems, Followed, Distinct
  <2>3. <<>> \in Seq(Items(T))
    OBVIOUS
  <2>4. f[0] \in Seq(Items(T)) /\ ItemsAre(f[0], rows, 0)
    BY <2>1, <2>2, <2>3
  <2>5. QED
    BY <2>4
<1>3. ASSUME NEW n \in 0 .. Len(rows), n > 0, n - 1 \in S PROVE n \in S
  <2>1. f[n] = f[n - 1] \o MessageToHistoryItems(rows[n])
    BY <1>0, <1>1, <1>3 DEF RowPass
  <2>2. n \in 1 .. Len(rows) /\ f[n - 1] \in Seq(Items(T)) /\ ItemsAre(f[n - 1], rows, n - 1)
    BY <1>0, <1>3
  <2>3. f[n] \in Seq(Items(T)) /\ ItemsAre(f[n], rows, n)
    BY <2>1, <2>2, ItemsStep
  <2>4. QED
    BY <2>3, <1>0
<1> HIDE DEF S
<1>4. Len(rows) \in S
  <2>1. \A n \in 0 .. Len(rows) : n > 0 /\ n - 1 \in S => n \in S
    BY <1>3
  <2>2. 0 .. Len(rows) \subseteq S
    BY <1>0, <1>2, <2>1, UpTo
  <2>3. QED
    BY <1>0, <2>2
<1>5. QED
  BY <1>1, <1>4 DEF S

LEMMA TrimIs ==
    ASSUME NEW V, NEW s \in Seq(V)
    PROVE  LET t == TrimTrailingEvents(s) IN
           /\ t \in Seq(V) /\ Elems(t) \subseteq Elems(s)
           /\ Distinct(s) => Distinct(t)
           /\ \A x \in Elems(t) : IsEvent(x) => x \in Followed(s)
           /\ \A x \in Elems(s) : ~IsEvent(x) => x \in Elems(t)
<1> DEFINE S == {0} \cup {i \in DOMAIN s : s[i].kind # "event"}
           n == MaxOf(S)
           t == SubSeq(s, 1, n)
<1>1. Len(s) \in Nat /\ DOMAIN s = 1 .. Len(s)
  OBVIOUS
<1>2. n \in S /\ \A k \in S : k <= n
  <2>1. S \in SUBSET (0 .. Len(s)) /\ S # {}
    BY <1>1
  <2> HIDE DEF S
  <2>2. QED
    BY <1>1, <2>1, MaxIs
<1> HIDE DEF n
<1>3. n \in 0 .. Len(s)
  BY <1>1, <1>2
<1>4. t \in Seq(V) /\ Elems(t) = UpToNth(s, n) /\ (Distinct(s) => Distinct(t))
  BY <1>3, OfPrefix
<1>5. ASSUME NEW x \in UpToNth(s, n), IsEvent(x) PROVE x \in Followed(s)
  <2>1. PICK i \in 1 .. n : s[i] = x
    BY DEF UpToNth
  <2>2. n \in DOMAIN s /\ ~IsEvent(s[n])
    BY <1>2, <1>3, <2>1 DEF IsEvent
  <2>3. i # n
    BY <1>5, <2>1, <2>2
  <2>4. i \in DOMAIN s /\ i < n
    BY <1>1, <1>3, <2>1, <2>3
  <2>5. QED
    BY <1>5, <2>1, <2>2, <2>4 DEF Followed, Elems
<1>6. ASSUME NEW x \in Elems(s), ~IsEvent(x) PROVE x \in UpToNth(s, n)
  <2>1. PICK i \in DOMAIN s : s[i] = x
    BY DEF Elems
  <2>2. i \in S
    BY <1>6, <2>1 DEF IsEvent
  <2>3. i \in 1 .. n
    BY <1>1, <1>2, <1>3, <2>1, <2>2
  <2>4. QED
    BY <2>1, <2>3 DEF UpToNth
<1>7. UpToNth(s, n) \subseteq Elems(s)
  BY <1>1, <1>3 DEF UpToNth, Elems
<1>8. TrimTrailingEvents(s) = t
  BY DEF TrimTrailingEvents, n
<1> HIDE DEF t
<1>9. QED
  BY <1>4, <1>5, <1>6, <1>7, <1>8

\* NormalizeInterruptedChains, after n items.
PassIsFair(st, V, s, n) ==
    /\ st.out \in Seq(V) /\ st.held \in Seq(V)
    /\ Elems(st.out) \cup Elems(st.held) \subseteq UpToNth(s, n)
    /\ \A x \in Elems(st.held) : IsEvent(x)
    /\ \A x \in UpToNth(s, n) : ~IsEvent(x) => x \in Elems(st.out)
    /\ Distinct(s) =>
          Distinct(st.out) /\ Distinct(st.held) /\ Elems(st.out) \cap Elems(st.held) = {}

LEMMA PassStep ==
    ASSUME NEW V, NEW s \in Seq(V), NEW n \in 1 .. Len(s), NEW st, PassIsFair(st, V, s, n - 1)
    PROVE  PassIsFair(NormalizeStep(st, s[n]), V, s, n)
<1> DEFINE it == s[n]
<1>0. it \in V /\ n \in DOMAIN s /\ n - 1 \in Nat
  OBVIOUS
<1>1. UpToNth(s, n) = UpToNth(s, n - 1) \cup {it}
  <2>1. 1 .. n = (1 .. n - 1) \cup {n}
    BY <1>0
  <2>2. QED
    BY <2>1 DEF UpToNth
<1>2. Distinct(s) /\ IsEvent(it) => it \notin UpToNth(s, n - 1)
  BY <1>0 DEF Distinct, UpToNth
<1> HIDE DEF it
<1>3. st.out \in Seq(V) /\ st.held \in Seq(V) /\ <<>> \in Seq(V)
  BY DEF PassIsFair
<1>4. Elems(<<>>) = {} /\ Distinct(<<>>)
  BY DEF Elems, Distinct
<1>5. PassIsFair(Holds(st, it), V, s, n) \/ ~IsEvent(it)
  <2> SUFFICES ASSUME IsEvent(it) PROVE PassIsFair(Holds(st, it), V, s, n)
    OBVIOUS
  <2> DEFINE h == Append(st.held, it)
  <2>1. h \in Seq(V) /\ Elems(h) = Elems(st.held) \cup {it}
    BY <1>0, <1>3, OfAppend
  <2>2. Distinct(s) => Distinct(h)
    BY <1>0, <1>2, <1>3, OfAppend DEF PassIsFair
  <2>3. Holds(st, it).out = st.out /\ Holds(st, it).held = h
    BY DEF Holds
  <2> HIDE DEF h
  <2>4. QED
    BY <1>1, <1>2, <2>1, <2>2, <2>3 DEF PassIsFair
<1>6. PassIsFair(Begins(st, it), V, s, n)
  <2> DEFINE a == st.out \o st.held
             b == Append(a, it)
  <2>1. a \in Seq(V) /\ Elems(a) = Elems(st.out) \cup Elems(st.held)
    BY <1>3, OfConcat
  <2>2. Distinct(s) => Distinct(a)
    BY <1>3, DistinctConcat DEF PassIsFair
  <2> HIDE DEF a
  <2>3. b \in Seq(V) /\ Elems(b) = Elems(a) \cup {it}
    BY <1>0, <2>1, OfAppend
  <2>4. Distinct(s) => Distinct(b)
    BY <1>0, <1>2, <2>1, <2>2, OfAppend DEF PassIsFair
  <2>5. Begins(st, it).out = b /\ Begins(st, it).held = <<>>
    BY DEF Begins, a
  <2> HIDE DEF b
  <2>6. QED
    BY <1>1, <1>3, <1>4, <2>1, <2>3, <2>4, <2>5 DEF PassIsFair
<1>7. PassIsFair(Answers(st, it), V, s, n) \/ IsEvent(it)
  <2> SUFFICES ASSUME ~IsEvent(it) PROVE PassIsFair(Answers(st, it), V, s, n)
    OBVIOUS
  <2> DEFINE a == Append(st.out, it)
             b == a \o st.held
  <2>1. a \in Seq(V) /\ Elems(a) = Elems(st.out) \cup {it} /\ (Distinct(s) => Distinct(a))
    BY <1>0, <1>3, OfAppend DEF PassIsFair
  <2> HIDE DEF a
  <2>2. it \notin Elems(st.held)
    BY DEF PassIsFair
  <2>3. b \in Seq(V) /\ Elems(b) = Elems(a) \cup Elems(st.held)
    BY <1>3, <2>1, OfConcat
  <2>4. Distinct(s) => Distinct(b)
    BY <1>3, <2>1, <2>2, DistinctConcat DEF PassIsFair
  <2> HIDE DEF b
  <2>5. \/ Answers(st, it).out = b /\ Answers(st, it).held = <<>>
        \/ Answers(st, it).out = a /\ Answers(st, it).held = st.held
    BY DEF Answers, a, b
  <2>6. CASE Answers(st, it).out = b /\ Answers(st, it).held = <<>>
    BY <1>1, <1>3, <1>4, <2>1, <2>3, <2>4, <2>6 DEF PassIsFair
  <2>7. CASE Answers(st, it).out = a /\ Answers(st, it).held = st.held
    BY <1>1, <2>1, <2>2, <2>7 DEF PassIsFair
  <2>8. QED
    BY <2>5, <2>6, <2>7
<1>8. QED
  BY <1>5, <1>6, <1>7 DEF NormalizeStep, IsEvent, it

LEMMA NormalizeIs ==
    ASSUME NEW V, NEW s \in Seq(V)
    PROVE  LET t == NormalizeInterruptedChains(s) IN
           /\ t \in Seq(V) /\ Elems(t) \subseteq Elems(s)
           /\ Distinct(s) => Distinct(t)
           /\ \A x \in Elems(s) : ~IsEvent(x) => x \in Elems(t)
<1>0. Len(s) \in Nat /\ DOMAIN s = 1 .. Len(s)
  OBVIOUS
<1>1. PICK f : Pass(f, s, Len(s)) /\ NormalizeInterruptedChains(s) = f[Len(s)].out
  BY <1>0, PassIs
<1> DEFINE S == {n \in Nat : PassIsFair(f[n], V, s, n)}
<1>2. 0 \in S
  <2>1. f[0] = Nothing
    BY <1>0, <1>1 DEF Pass
  <2>2. PassIsFair(Nothing, V, s, 0)
    BY DEF PassIsFair, Nothing, Elems, UpToNth, Distinct
  <2>3. QED
    BY <2>1, <2>2
<1>3. ASSUME NEW n \in 0 .. Len(s), n > 0, n - 1 \in S PROVE n \in S
  <2>1. f[n] = NormalizeStep(f[n - 1], s[n])
    BY <1>0, <1>1, <1>3 DEF Pass
  <2>2. n \in 1 .. Len(s) /\ PassIsFair(f[n - 1], V, s, n - 1)
    BY <1>0, <1>3
  <2>3. PassIsFair(f[n], V, s, n)
    BY <2>1, <2>2, PassStep
  <2>4. QED
    BY <2>3, <1>0
<1> HIDE DEF S
<1>4. Len(s) \in S
  <2>1. \A n \in 0 .. Len(s) : n > 0 /\ n - 1 \in S => n \in S
    BY <1>3
  <2>2. 0 .. Len(s) \subseteq S
    BY <1>0, <1>2, <2>1, UpTo
  <2>3. QED
    BY <1>0, <2>2
<1>5. PassIsFair(f[Len(s)], V, s, Len(s))
  BY <1>4 DEF S
<1>6. UpToNth(s, Len(s)) = Elems(s)
  BY <1>0 DEF UpToNth, Elems
<1>7. QED
  BY <1>1, <1>5, <1>6 DEF PassIsFair

\* A message with a call that has no result in s.
IsDangling(s, x) == x.kind = "message" /\ ~(x.calls \subseteq Answered(s))

\* What both trims do: they keep the items before some dangling one.
IsTrimOf(t, V, s) ==
    /\ t \in Seq(V) /\ Elems(t) \subseteq Elems(s)
    /\ Distinct(s) => Distinct(t)
    /\ \A x \in Elems(s) : x.kind # "summary" /\ ~IsDangling(s, x) => x \in Elems(t)

LEMMA ProtoIs ==
    ASSUME NEW V, NEW s \in Seq(V)
    PROVE  IsTrimOf(TrimDanglingToolCallsProto(s), V, s)
<1> DEFINE S    == {0} \cup {i \in DOMAIN s : s[i].kind # "summary" /\ ~Dangling(s, i)}
           stop == MaxOf(S)
           C    == {Len(s) + 1} \cup {i \in DOMAIN s : i > stop /\ Dangling(s, i)}
           cut  == MinOf(C)
           t    == SubSeq(s, 1, cut - 1)
<1>1. Len(s) \in Nat /\ DOMAIN s = 1 .. Len(s)
  OBVIOUS
<1>2. stop \in 0 .. Len(s) /\ \A k \in S : k <= stop
  <2>1. S \in SUBSET (0 .. Len(s)) /\ S # {}
    BY <1>1
  <2> HIDE DEF S
  <2>2. QED
    BY <1>1, <2>1, MaxIs
<1> HIDE DEF stop
<1>3. cut \in C
  <2>1. C \in SUBSET Nat /\ C # {}
    BY <1>1
  <2> HIDE DEF C
  <2>2. QED
    BY <2>1, MinIs
<1> HIDE DEF cut
<1>4. cut - 1 \in 0 .. Len(s) /\ cut > stop
  BY <1>1, <1>2, <1>3
<1>5. t \in Seq(V) /\ Elems(t) = UpToNth(s, cut - 1) /\ (Distinct(s) => Distinct(t))
  BY <1>4, OfPrefix
<1>6. UpToNth(s, cut - 1) \subseteq Elems(s)
  BY <1>1, <1>4 DEF UpToNth, Elems
<1>7. ASSUME NEW x \in Elems(s), x.kind # "summary", ~IsDangling(s, x)
      PROVE  x \in UpToNth(s, cut - 1)
  <2>1. PICK i \in DOMAIN s : s[i] = x
    BY DEF Elems
  <2>2. i \in S
    BY <1>7, <2>1 DEF Dangling, IsDangling
  <2>3. i \in 1 .. cut - 1
    BY <1>1, <1>2, <1>3, <1>4, <2>1, <2>2
  <2>4. QED
    BY <2>1, <2>3 DEF UpToNth
<1>8. TrimDanglingToolCallsProto(s) = t
  BY DEF TrimDanglingToolCallsProto, cut, stop
<1> HIDE DEF t
<1>9. QED
  BY <1>5, <1>6, <1>7, <1>8 DEF IsTrimOf

LEMMA AgentTrimIs ==
    ASSUME NEW V, NEW s \in Seq(V)
    PROVE  IsTrimOf(TrimDanglingToolCalls(s), V, s)
<1> DEFINE S == {0} \cup {i \in DOMAIN s : ~Dangling(s, i)}
           n == MaxOf(S)
           t == SubSeq(s, 1, n)
<1>1. Len(s) \in Nat /\ DOMAIN s = 1 .. Len(s)
  OBVIOUS
<1>2. n \in 0 .. Len(s) /\ \A k \in S : k <= n
  <2>1. S \in SUBSET (0 .. Len(s)) /\ S # {}
    BY <1>1
  <2> HIDE DEF S
  <2>2. QED
    BY <1>1, <2>1, MaxIs
<1> HIDE DEF n
<1>3. t \in Seq(V) /\ Elems(t) = UpToNth(s, n) /\ (Distinct(s) => Distinct(t))
  BY <1>2, OfPrefix
<1>4. UpToNth(s, n) \subseteq Elems(s)
  BY <1>1, <1>2 DEF UpToNth, Elems
<1>5. ASSUME NEW x \in Elems(s), ~IsDangling(s, x) PROVE x \in UpToNth(s, n)
  <2>1. PICK i \in DOMAIN s : s[i] = x
    BY DEF Elems
  <2>2. i \in S
    BY <1>5, <2>1 DEF Dangling, IsDangling
  <2>3. i \in 1 .. n
    BY <1>1, <1>2, <2>1, <2>2
  <2>4. QED
    BY <2>1, <2>3 DEF UpToNth
<1>6. TrimDanglingToolCalls(s) = t
  BY DEF TrimDanglingToolCalls, n
<1> HIDE DEF t
<1>7. QED
  BY <1>3, <1>4, <1>5, <1>6 DEF IsTrimOf

\* A call stays answered as long as the results are kept.
LEMMA AnsweredKept ==
    ASSUME NEW s, NEW t, \A x \in Elems(s) : x.kind = "tool" => x \in Elems(t)
    PROVE  Answered(s) \subseteq Answered(t)
<1> SUFFICES ASSUME NEW i \in DOMAIN s, s[i].kind = "tool" PROVE s[i].call \in Answered(t)
  BY DEF Answered
<1>1. PICK j \in DOMAIN t : t[j] = s[i]
  BY DEF Elems
<1>2. QED
  BY <1>1 DEF Answered

LEMMA TrimKeepsAnswered ==
    ASSUME NEW V, NEW s \in Seq(V), NEW t, IsTrimOf(t, V, s)
    PROVE  Answered(s) \subseteq Answered(t)
<1>1. \A x \in Elems(s) : x.kind = "tool" => x \in Elems(t)
  BY DEF IsTrimOf, IsDangling
<1>2. QED
  BY <1>1, AnsweredKept

----------------------------------------------------------------------------
(* What an agent that boots from rows keeps in its conversation.            *)

LEMMA BootIs ==
    ASSUME NEW T, NEW rows \in Seq(T)
    PROVE  LET h == TrimDanglingToolCalls(FetchHistory(rows)) IN
           /\ h \in Seq(Items(T))
           /\ Distinct(rows) => Distinct(h)
           /\ \A x \in Elems(h) : IsEvent(x) => x \in FollowedUpTo(rows, Len(rows))
           /\ \A i \in DOMAIN rows :
                 rows[i].kind = "message"
                 /\ (\A c \in rows[i].calls :
                        \E j \in DOMAIN rows : rows[j].kind = "tool_call" /\ rows[j].call = c)
                 => rows[i] \in Elems(h)
<1> DEFINE V == Items(T)
           a == HistoryItems(rows)
           b == TrimTrailingEvents(a)
           c == NormalizeInterruptedChains(b)
           d == TrimDanglingToolCallsProto(c)
           h == TrimDanglingToolCalls(d)
<1>1. a \in Seq(V) /\ ItemsAre(a, rows, Len(rows))
  BY ItemsAll
<1> HIDE DEF a
<1>2. /\ b \in Seq(V) /\ Elems(b) \subseteq Elems(a)
      /\ Distinct(a) => Distinct(b)
      /\ \A x \in Elems(b) : IsEvent(x) => x \in Followed(a)
      /\ \A x \in Elems(a) : ~IsEvent(x) => x \in Elems(b)
  BY <1>1, TrimIs
<1> HIDE DEF b
<1>3. /\ c \in Seq(V) /\ Elems(c) \subseteq Elems(b)
      /\ Distinct(b) => Distinct(c)
      /\ \A x \in Elems(b) : ~IsEvent(x) => x \in Elems(c)
  BY <1>2, NormalizeIs
<1> HIDE DEF c
<1>4. IsTrimOf(d, V, c)
  BY <1>3, ProtoIs
<1> HIDE DEF d
<1>5. d \in Seq(V)
  BY <1>4 DEF IsTrimOf
<1>6. IsTrimOf(h, V, d)
  BY <1>5, AgentTrimIs
<1> HIDE DEF h, V
<1>7. h \in Seq(V) /\ (Distinct(rows) => Distinct(h))
  BY <1>1, <1>2, <1>3, <1>4, <1>6 DEF ItemsAre, IsTrimOf
<1>8. ASSUME NEW x \in Elems(h), IsEvent(x) PROVE x \in FollowedUpTo(rows, Len(rows))
  <2>1. x \in Elems(b)
    BY <1>3, <1>4, <1>6, <1>8 DEF IsTrimOf
  <2>2. QED
    BY <1>1, <1>2, <1>8, <2>1 DEF ItemsAre
<1>9. ASSUME NEW i \in DOMAIN rows, rows[i].kind = "message",
             \A k \in rows[i].calls :
                \E j \in DOMAIN rows : rows[j].kind = "tool_call" /\ rows[j].call = k
      PROVE  rows[i] \in Elems(h)
  <2>1. DOMAIN rows = 1 .. Len(rows)
    OBVIOUS
  <2>2. rows[i] \in Elems(a) /\ ~IsEvent(rows[i])
    BY <1>1, <1>9, <2>1 DEF ItemsAre, IsEvent
  <2>3. rows[i] \in Elems(c)
    BY <1>2, <1>3, <2>2
  <2>4. ASSUME NEW k \in rows[i].calls PROVE Tool(k) \in Elems(c)
    <3>1. Tool(k) \in Elems(a)
      BY <1>1, <1>9, <2>1 DEF ItemsAre
    <3>2. ~IsEvent(Tool(k))
      BY DEF IsEvent, Tool
    <3>3. QED
      BY <1>2, <1>3, <3>1, <3>2
  <2>5. rows[i].calls \subseteq Answered(c)
    <3> SUFFICES ASSUME NEW k \in rows[i].calls PROVE k \in Answered(c)
      OBVIOUS
    <3>1. PICK j \in DOMAIN c : c[j] = Tool(k)
      BY <2>4 DEF Elems
    <3>2. c[j].kind = "tool" /\ c[j].call = k
      BY <3>1 DEF Tool
    <3>3. QED
      BY <3>2 DEF Answered
  <2>6. rows[i] \in Elems(d)
    BY <1>4, <1>9, <2>3, <2>5 DEF IsTrimOf, IsDangling
  <2>7. rows[i].calls \subseteq Answered(d)
    BY <1>3, <1>4, <2>5, TrimKeepsAnswered
  <2>8. QED
    BY <1>6, <1>9, <2>6, <2>7 DEF IsTrimOf, IsDangling
<1>10. TrimDanglingToolCalls(FetchHistory(rows)) = h
  BY DEF FetchHistory, a, b, c, d, h
<1>11. QED
  BY <1>7, <1>8, <1>9, <1>10 DEF V

LogRow == {Event(k) : k \in Nat} \cup {Message(cs) : cs \in SUBSET (Nat \X Nat)}
             \cup {ToolRow(c, t) : c \in Nat \X Nat, t \in Tools}
Shown  == Items(LogRow)
Stages == {"none", "boot", "ready", "call", "tools", "gone"}

HistTypes ==
    /\ log \in Seq(LogRow) /\ inputs \in Seq(Nat)
    /\ call \in {"none", "log", "dispatch"} /\ stage \in [Agents -> Stages]
    /\ conv \in [Agents -> Seq(Shown)] /\ inbox \in [Agents -> Seq(Nat)]
    /\ batch \in [Agents -> Batches] /\ todo \in [Agents -> Seq(Nat \X Nat)]
    /\ events \in Nat \ {0} /\ replies \in Nat /\ overlap \in BOOLEAN

\* The calls an agent has left are of the batch it works on.
BatchInHand ==
    \A a \in Agents :
        /\ stage[a] = "tools" => todo[a] # <<>>
        /\ \A i \in DOMAIN todo[a] : todo[a][i][2] \in DOMAIN batch[a]

LEMMA Kinds ==
    /\ \A k : IsEvent(Event(k)) /\ Event(k).id = k
    /\ \A cs : ~IsEvent(Message(cs)) /\ Message(cs).kind = "message"
    /\ \A c, t : ~IsEvent(ToolRow(c, t))
    /\ \A c : ~IsEvent(Tool(c))
    /\ ~IsEvent(Summary)
    /\ \A x \in Shown : IsEvent(x) => x.id \in Nat /\ x = Event(x.id)
    /\ LogRow \subseteq Shown
    /\ \A k \in Nat : Event(k) \in LogRow
    /\ \A cs \in SUBSET (Nat \X Nat) : Message(cs) \in LogRow
    /\ \A c \in Nat \X Nat, t \in Tools : ToolRow(c, t) \in LogRow
    /\ \A c \in Nat \X Nat, t \in Tools : Tool(c) \in Shown
    /\ Summary \in Shown
<1>1. /\ \A k : IsEvent(Event(k)) /\ Event(k).id = k
      /\ \A cs : ~IsEvent(Message(cs)) /\ Message(cs).kind = "message"
      /\ \A c, t : ~IsEvent(ToolRow(c, t))
      /\ \A c : ~IsEvent(Tool(c))
      /\ ~IsEvent(Summary)
  BY DEF IsEvent, Event, Message, ToolRow, Tool, Summary
<1>2. /\ \A k \in Nat : Event(k) \in LogRow
      /\ \A cs \in SUBSET (Nat \X Nat) : Message(cs) \in LogRow
      /\ \A c \in Nat \X Nat, t \in Tools : ToolRow(c, t) \in LogRow
  BY DEF LogRow
<1>3. /\ LogRow \subseteq Shown /\ Summary \in Shown
  BY DEF Shown, Items
<1>4. \A c \in Nat \X Nat, t \in Tools : Tool(c) \in Shown
  <2>1. \A c, t : ToolRow(c, t).call = c
    BY DEF ToolRow
  <2>2. QED
    BY <1>2, <2>1 DEF Shown, Items
<1>5. \A x \in Shown : IsEvent(x) => x.id \in Nat /\ x = Event(x.id)
  <2>1. \A x \in LogRow : IsEvent(x) => x.id \in Nat /\ x = Event(x.id)
    BY <1>1 DEF LogRow
  <2>2. QED
    BY <1>1, <2>1 DEF Shown, Items
<1>6. QED
  BY <1>1, <1>2, <1>3, <1>4, <1>5

LEMMA BatchIs ==
    ASSUME NEW b \in Batches, NEW r \in Nat
    PROVE  /\ CallsOf(r, b) \in SUBSET (Nat \X Nat)
           /\ [i \in DOMAIN b |-> <<r, i>>] \in Seq(Nat \X Nat)
           /\ b # <<>> => [i \in DOMAIN b |-> <<r, i>>] # <<>>
           /\ \A i \in DOMAIN b : b[i] \in Tools
<1>1. PICK n \in 0 .. MaxBatch : b \in [1 .. n -> Tools]
  BY DEF Batches
<1>2. DOMAIN b = 1 .. n /\ n \in Nat
  BY <1>1
<1>3. CallsOf(r, b) \in SUBSET (Nat \X Nat)
  BY <1>2 DEF CallsOf
<1>4. [i \in 1 .. n |-> <<r, i>>] \in Seq(Nat \X Nat)
  BY <1>2
<1>5. b # <<>> => n # 0
  BY <1>1
<1>6. [i \in 1 .. n |-> <<r, i>>] = <<>> => n = 0
  BY <1>2
<1>7. QED
  BY <1>1, <1>2, <1>3, <1>4, <1>5, <1>6

LEMMA HistTypesInit == HistoryInit => HistTypes /\ BatchInHand
<1> SUFFICES ASSUME HistoryInit PROVE HistTypes /\ BatchInHand
  OBVIOUS
<1>1. <<>> \in Batches
  <2>1. <<>> \in [1 .. 0 -> Tools] /\ 0 \in 0 .. MaxBatch
    BY HistoryAssumption DEF HistoryAssumption
  <2>2. QED
    BY <2>1 DEF Batches
<1>2. log \in Seq(LogRow)
  BY Kinds DEF HistoryInit
<1>3. <<1>> \in Seq(Nat) /\ <<>> \in Seq(Nat) /\ <<>> \in Seq(Shown) /\ <<>> \in Seq(Nat \X Nat)
  OBVIOUS
<1>4. HistTypes
  <2>1. /\ stage \in [Agents -> Stages] /\ conv \in [Agents -> Seq(Shown)]
        /\ inbox \in [Agents -> Seq(Nat)] /\ todo \in [Agents -> Seq(Nat \X Nat)]
        /\ batch \in [Agents -> Batches]
    BY <1>1, <1>3 DEF HistoryInit, Stages
  <2>2. events = 1 /\ replies = 0 /\ inputs = <<1>> /\ call = "none"
    BY DEF HistoryInit
  <2>3. overlap \in BOOLEAN
    BY DEF HistoryInit
  <2>4. QED
    BY <1>2, <1>3, <2>1, <2>2, <2>3 DEF HistTypes
<1>5. BatchInHand
  BY DEF HistoryInit, BatchInHand
<1>6. QED
  BY <1>4, <1>5

LEMMA HistTypesStep ==
    ASSUME HistTypes, BatchInHand, [HistoryNext]_historyVars
    PROVE  HistTypes' /\ BatchInHand'
<1> DEFINE Logs(r) == log' = Append(log, r) \/ log' = log
<1>0. /\ \A r : AppendMessage(r) => Logs(r)
      /\ \A r \in LogRow : Logs(r) => log' \in Seq(LogRow)
      /\ \A f \in Nat : Append(inputs, f) \in Seq(Nat)
      /\ <<>> \in Seq(Nat) /\ <<>> \in Seq(Shown) /\ <<>> \in Seq(Nat \X Nat)
  <2>1. \A r : AppendMessage(r) => Logs(r)
    BY DEF AppendMessage
  <2>2. log \in Seq(LogRow) /\ inputs \in Seq(Nat)
    BY DEF HistTypes
  <2>3. \A r \in LogRow : Append(log, r) \in Seq(LogRow)
    BY <2>2
  <2>4. \A f \in Nat : Append(inputs, f) \in Seq(Nat)
    BY <2>2
  <2>5. ASSUME NEW r \in LogRow, Logs(r) PROVE log' \in Seq(LogRow)
    BY <2>2, <2>3, <2>5
  <2>6. <<>> \in Seq(Nat) /\ <<>> \in Seq(Shown) /\ <<>> \in Seq(Nat \X Nat)
    OBVIOUS
  <2>7. QED
    BY <2>1, <2>4, <2>5, <2>6
<1> HIDE DEF Logs
<1>1. <<>> \in Batches
  <2>1. <<>> \in [1 .. 0 -> Tools] /\ 0 \in 0 .. MaxBatch
    BY HistoryAssumption DEF HistoryAssumption
  <2>2. QED
    BY <2>1 DEF Batches
<1>2. CASE QueuesOntoLive \/ RewakeQueues
  <2>1. events + 1 \in Nat \ {0} /\ inputs' = Append(inputs, events + 1) /\ events' = events + 1
    BY <1>2 DEF QueuesOntoLive, RewakeQueues, HistTypes
  <2>2. inputs' \in Seq(Nat)
    BY <1>0, <2>1
  <2>3. UNCHANGED <<log, agentLocals, replies>> /\ call' \in {"none", "log", "dispatch"}
    BY <1>2 DEF QueuesOntoLive, RewakeQueues, HistTypes
  <2>4. overlap' \in BOOLEAN
    BY <1>2 DEF QueuesOntoLive, RewakeQueues, HistTypes
  <2>5. QED
    BY <2>1, <2>2, <2>3, <2>4 DEF HistTypes, BatchInHand, agentLocals
<1>3. CASE RewakeLogs
  <2>1. Event(events) \in LogRow
    BY Kinds DEF HistTypes
  <2>2. QED
    BY <1>0, <1>3, <2>1 DEF RewakeLogs, HistTypes, BatchInHand, agentLocals
<1>4. CASE RewakeDispatches
  BY <1>4 DEF RewakeDispatches, HistTypes, BatchInHand, Stages
<1>5. CASE Stop
  BY <1>0, <1>5 DEF Stop, HistTypes, BatchInHand, agentLocals, StopFrame
<1>6. ASSUME NEW a \in Agents, Leave(a) \/ Dies(a), UNCHANGED <<log, inputs, call, events, replies, overlap>>
      PROVE  HistTypes' /\ BatchInHand'
  <2>1. /\ stage' = [stage EXCEPT ![a] = "gone"] /\ conv' = [conv EXCEPT ![a] = <<>>]
        /\ inbox' = [inbox EXCEPT ![a] = <<>>] /\ todo' = [todo EXCEPT ![a] = <<>>]
        /\ batch' = [batch EXCEPT ![a] = <<>>]
    BY <1>6 DEF Leave, Dies
  <2>2. HistTypes'
    BY <1>0, <1>1, <1>6, <2>1 DEF HistTypes, Stages
  <2>3. BatchInHand'
    BY <2>1 DEF HistTypes, BatchInHand
  <2>4. QED
    BY <2>2, <2>3
<1>7. ASSUME NEW a \in Agents, LoadsHistory(a) PROVE HistTypes' /\ BatchInHand'
  <2>1. TrimDanglingToolCalls(FetchHistory(log)) \in Seq(Shown)
    BY BootIs DEF HistTypes, Shown
  <2>2. QED
    BY <1>7, <2>1 DEF LoadsHistory, HistTypes, BatchInHand, Stages, counters
<1>8. ASSUME NEW a \in Agents, ReadsInputs(a) PROVE HistTypes' /\ BatchInHand'
  <2>1. inbox[a] \o inputs \in Seq(Nat)
    BY DEF HistTypes
  <2>2. QED
    BY <1>0, <1>8, <2>1 DEF ReadsInputs, HistTypes, BatchInHand, counters
<1>9. ASSUME NEW a \in Agents, HandleEvent(a) \/ Fold(a) PROVE HistTypes' /\ BatchInHand'
  <2>1. inbox[a] \in Seq(Nat) /\ inbox[a] # <<>> /\ conv[a] \in Seq(Shown)
    BY <1>9 DEF HandleEvent, Fold, HistTypes
  <2>2. Head(inbox[a]) \in Nat /\ Tail(inbox[a]) \in Seq(Nat)
    BY <2>1
  <2>3. Append(conv[a], Event(Head(inbox[a]))) \in Seq(Shown)
    BY <2>1, <2>2, Kinds
  <2>4. QED
    BY <1>9, <2>2, <2>3 DEF HandleEvent, Fold, HistTypes, BatchInHand, Stages, counters
<1>10. ASSUME NEW a \in Agents, Reply(a) PROVE HistTypes' /\ BatchInHand'
  <2> DEFINE cs(b) == [i \in DOMAIN b |-> <<replies + 1, i>>]
  <2>1. PICK b \in Batches :
          /\ conv' = [conv EXCEPT ![a] = Append(@, Message(CallsOf(replies + 1, b)))]
          /\ AppendMessage(Message(CallsOf(replies + 1, b)))
          /\ batch' = [batch EXCEPT ![a] = b]
          /\ todo' = [todo EXCEPT ![a] = cs(b)]
          /\ stage' = [stage EXCEPT ![a] =
                 IF b # <<>> THEN "tools" ELSE IF Len(conv[a]) > seen[a] THEN "call" ELSE "ready"]
    BY <1>10 DEF Reply
  <2>2. /\ Message(CallsOf(replies + 1, b)) \in LogRow
        /\ cs(b) \in Seq(Nat \X Nat) /\ (b # <<>> => cs(b) # <<>>)
    BY BatchIs, Kinds DEF HistTypes
  <2>3. \A i \in DOMAIN cs(b) : cs(b)[i][2] \in DOMAIN b
    OBVIOUS
  <2> HIDE DEF cs
  <2>4. Append(conv[a], Message(CallsOf(replies + 1, b))) \in Seq(Shown)
    BY <2>2, Kinds DEF HistTypes
  <2>5. log' \in Seq(LogRow)
    BY <1>0, <2>1, <2>2
  <2>6. HistTypes'
    <3>1. replies' = replies + 1 /\ UNCHANGED <<inputs, call, inbox, events, overlap>>
      BY <1>10 DEF Reply
    <3>2. stage' \in [Agents -> Stages]
      BY <2>1 DEF HistTypes, Stages
    <3>3. conv' \in [Agents -> Seq(Shown)] /\ batch' \in [Agents -> Batches]
      BY <2>1, <2>4 DEF HistTypes
    <3>4. todo' \in [Agents -> Seq(Nat \X Nat)]
      BY <2>1, <2>2 DEF HistTypes
    <3>5. QED
      BY <2>5, <3>1, <3>2, <3>3, <3>4 DEF HistTypes
  <2>7. BatchInHand'
    <3> SUFFICES ASSUME NEW x \in Agents
                 PROVE  /\ stage'[x] = "tools" => todo'[x] # <<>>
                        /\ \A i \in DOMAIN todo'[x] : todo'[x][i][2] \in DOMAIN batch'[x]
      BY DEF BatchInHand
    <3>1. CASE x = a
      BY <2>1, <2>2, <2>3, <3>1 DEF HistTypes
    <3>2. CASE x # a
      BY <2>1, <3>2 DEF HistTypes, BatchInHand
    <3>3. QED
      BY <3>1, <3>2
  <2>8. QED
    BY <2>6, <2>7
<1>11. ASSUME NEW a \in Agents, CallTool(a) PROVE HistTypes' /\ BatchInHand'
  <2> DEFINE c == Head(todo[a])
             r == ToolRow(c, batch[a][c[2]])
  <2>1. /\ stage[a] = "tools" /\ todo[a] \in Seq(Nat \X Nat) /\ todo[a] # <<>>
        /\ conv[a] \in Seq(Shown) /\ batch[a] \in Batches
    BY <1>11 DEF CallTool, HistTypes, BatchInHand
  <2>2. /\ c = todo[a][1] /\ 1 \in DOMAIN todo[a] /\ c \in Nat \X Nat
        /\ Tail(todo[a]) \in Seq(Nat \X Nat) /\ Len(todo[a]) \in Nat
        /\ DOMAIN Tail(todo[a]) = 1 .. Len(todo[a]) - 1
        /\ \A i \in DOMAIN Tail(todo[a]) : i + 1 \in DOMAIN todo[a] /\ Tail(todo[a])[i] = todo[a][i + 1]
    <3>1. /\ c = todo[a][1] /\ 1 \in DOMAIN todo[a] /\ c \in Nat \X Nat
          /\ Tail(todo[a]) \in Seq(Nat \X Nat) /\ Len(todo[a]) \in Nat
          /\ DOMAIN Tail(todo[a]) = 1 .. Len(todo[a]) - 1
      BY <2>1
    <3>2. \A i \in 1 .. Len(todo[a]) - 1 : i + 1 \in DOMAIN todo[a] /\ Tail(todo[a])[i] = todo[a][i + 1]
      BY <2>1
    <3>3. QED
      BY <3>1, <3>2
  <2>3. batch[a][c[2]] \in Tools
    BY <2>1, <2>2, BatchIs DEF BatchInHand
  <2>4. r \in LogRow /\ Tool(c) \in Shown /\ Summary \in Shown
    BY <2>2, <2>3, Kinds
  <2>5. /\ AppendMessage(r)
        /\ todo' = [todo EXCEPT ![a] = Tail(@)]
        /\ stage'[a] = "tools" => Len(todo[a]) # 1
        /\ stage' \in [Agents -> Stages]
        /\ \A x \in Agents : x # a => stage'[x] = stage[x]
    BY <1>11 DEF CallTool, HistTypes, Stages
  <2>6. conv' \in [Agents -> Seq(Shown)]
    <3>1. /\ Append(conv[a], Tool(c)) \o <<Summary>> \in Seq(Shown)
          /\ Append(conv[a], Tool(c)) \o <<>> \in Seq(Shown)
      BY <2>1, <2>4
    <3>2. \/ conv' = [conv EXCEPT ![a] = Append(@, Tool(c)) \o <<Summary>>]
          \/ conv' = [conv EXCEPT ![a] = Append(@, Tool(c)) \o <<>>]
      BY <1>11 DEF CallTool
    <3>3. QED
      BY <3>1, <3>2 DEF HistTypes
  <2>7. log' \in Seq(LogRow)
    BY <1>0, <2>4, <2>5
  <2>8. HistTypes'
    BY <1>11, <2>2, <2>5, <2>6, <2>7 DEF CallTool, HistTypes
  <2>9. BatchInHand'
    <3> SUFFICES ASSUME NEW x \in Agents
                 PROVE  /\ stage'[x] = "tools" => todo'[x] # <<>>
                        /\ \A i \in DOMAIN todo'[x] : todo'[x][i][2] \in DOMAIN batch[x]
      BY <1>11 DEF CallTool, BatchInHand
    <3>1. CASE x = a
      <4>1. todo'[a] = Tail(todo[a])
        BY <2>5 DEF HistTypes
      <4>2. stage'[a] = "tools" => Tail(todo[a]) # <<>>
        <5>1. Len(Tail(todo[a])) = Len(todo[a]) - 1
          BY <2>1
        <5>2. Len(<<>>) = 0
          OBVIOUS
        <5>3. ASSUME Tail(todo[a]) = <<>> PROVE Len(todo[a]) = 1
          <6>1. Len(todo[a]) - 1 = 0
            BY <5>1, <5>2, <5>3, Zenon
          <6>2. QED
            BY <2>2, <6>1
        <5>4. QED
          BY <2>5, <5>3
      <4>3. \A i \in DOMAIN Tail(todo[a]) :
               i + 1 \in DOMAIN todo[a] /\ Tail(todo[a])[i] = todo[a][i + 1]
        BY <2>1, <2>2, TailIs, Zenon
      <4>4. \A i \in DOMAIN todo'[a] : todo'[a][i][2] \in DOMAIN batch[a]
        BY <4>1, <4>3 DEF BatchInHand
      <4>5. QED
        BY <3>1, <4>1, <4>2, <4>4
    <3>2. CASE x # a
      BY <2>5, <3>2 DEF HistTypes, BatchInHand
    <3>3. QED
      BY <3>1, <3>2
  <2>10. QED
    BY <2>8, <2>9
<1>12. CASE UNCHANGED historyVars
  BY <1>12 DEF historyVars, HistTypes, BatchInHand
<1>13. ASSUME NEW a \in Agents, Exit(a) \/ CallFails(a) \/ Dies(a) PROVE HistTypes' /\ BatchInHand'
  BY <1>6, <1>13 DEF Exit, CallFails, Dies, counters
<1>14. QED
  BY <1>2, <1>3, <1>4, <1>5, <1>7, <1>8, <1>9, <1>10, <1>11, <1>12, <1>13 DEF HistoryNext

Number    == Nat \ {StopFrame}
FramesIn(s) == Elems(s) \cap Number
Told(s)   == {k \in Nat : Event(k) \in Elems(s)}
Past(s)   == {k \in Nat : Event(k) \in FollowedUpTo(s, Len(s))}

LEMMA FramesOf ==
    ASSUME NEW s \in Seq(Nat)
    PROVE  /\ \A k \in Nat : /\ FramesIn(Append(s, k)) = FramesIn(s) \cup ({k} \cap Number)
                             /\ Once(s, Number) /\ k \notin FramesIn(s) => Once(Append(s, k), Number)
           /\ \A t \in Seq(Nat) :
                 /\ FramesIn(s \o t) = FramesIn(s) \cup FramesIn(t)
                 /\ Once(s, Number) /\ Once(t, Number) /\ FramesIn(s) \cap FramesIn(t) = {}
                       => Once(s \o t, Number)
           /\ s # <<>> =>
                 /\ Head(s) \in Nat /\ FramesIn(Tail(s)) \subseteq FramesIn(s)
                 /\ Head(s) # StopFrame => Head(s) \in FramesIn(s)
                 /\ Once(s, Number) =>
                       Once(Tail(s), Number) /\ (Head(s) # StopFrame => Head(s) \notin FramesIn(Tail(s)))
<1>1. ASSUME NEW k \in Nat
      PROVE  /\ FramesIn(Append(s, k)) = FramesIn(s) \cup ({k} \cap Number)
             /\ Once(s, Number) /\ k \notin FramesIn(s) => Once(Append(s, k), Number)
  <2>1. Elems(Append(s, k)) = Elems(s) \cup {k}
    BY OfAppend
  <2>2. ASSUME Once(s, Number), k \notin FramesIn(s) PROVE Once(Append(s, k), Number)
    <3>1. k \in Number => k \notin Elems(s)
      BY <2>2 DEF FramesIn
    <3>2. QED
      BY <2>2, <3>1, OnceAppend
  <2>3. QED
    BY <2>1, <2>2 DEF FramesIn
<1>2. ASSUME NEW t \in Seq(Nat)
      PROVE  /\ FramesIn(s \o t) = FramesIn(s) \cup FramesIn(t)
             /\ Once(s, Number) /\ Once(t, Number) /\ FramesIn(s) \cap FramesIn(t) = {}
                   => Once(s \o t, Number)
  <2>1. Elems(s \o t) = Elems(s) \cup Elems(t)
    BY OfConcat
  <2>2. ASSUME Once(s, Number), Once(t, Number), FramesIn(s) \cap FramesIn(t) = {} PROVE Once(s \o t, Number)
    <3>1. Elems(s) \cap Elems(t) \cap Number = {}
      BY <2>2 DEF FramesIn
    <3>2. QED
      BY <2>2, <3>1, OnceConcat
  <2>3. QED
    BY <2>1, <2>2 DEF FramesIn
<1>3. ASSUME s # <<>>
      PROVE  /\ Head(s) \in Nat /\ FramesIn(Tail(s)) \subseteq FramesIn(s)
             /\ Head(s) # StopFrame => Head(s) \in FramesIn(s)
             /\ Once(s, Number) =>
                   Once(Tail(s), Number) /\ (Head(s) # StopFrame => Head(s) \notin FramesIn(Tail(s)))
  <2>1. /\ Head(s) \in Nat /\ Elems(s) = {Head(s)} \cup Elems(Tail(s))
        /\ Once(s, Number) =>
              Once(Tail(s), Number) /\ (Head(s) \in Number => Head(s) \notin Elems(Tail(s)))
    BY <1>3, OfTail
  <2>2. QED
    BY <2>1 DEF FramesIn, Number
<1>4. QED
  BY <1>1, <1>2, <1>3

LEMMA OfNothing ==
    /\ FramesIn(<<>>) = {} /\ Told(<<>>) = {}
    /\ Distinct(<<>>) /\ Once(<<>>, Number)
  BY DEF FramesIn, Told, Elems, Distinct, Once

LEMMA ToldOf ==
    ASSUME NEW s \in Seq(Shown)
    PROVE  /\ \A k \in Nat : /\ Told(Append(s, Event(k))) = Told(s) \cup {k}
                             /\ Distinct(s) /\ k \notin Told(s) => Distinct(Append(s, Event(k)))
           /\ \A x \in Shown : ~IsEvent(x) =>
                 Told(Append(s, x)) = Told(s) /\ (Distinct(s) => Distinct(Append(s, x)))
<1>1. ASSUME NEW k \in Nat
      PROVE  /\ Told(Append(s, Event(k))) = Told(s) \cup {k}
             /\ Distinct(s) /\ k \notin Told(s) => Distinct(Append(s, Event(k)))
  <2>1. Event(k) \in Shown
    BY Kinds
  <2>2. /\ Elems(Append(s, Event(k))) = Elems(s) \cup {Event(k)}
        /\ Distinct(s) /\ Event(k) \notin Elems(s) => Distinct(Append(s, Event(k)))
    BY <2>1, OfAppend
  <2>3. \A i \in Nat : Event(i) = Event(k) => i = k
    BY Kinds
  <2>4. QED
    BY <2>2, <2>3 DEF Told
<1>2. ASSUME NEW x \in Shown, ~IsEvent(x)
      PROVE  Told(Append(s, x)) = Told(s) /\ (Distinct(s) => Distinct(Append(s, x)))
  <2>1. Elems(Append(s, x)) = Elems(s) \cup {x} /\ (Distinct(s) => Distinct(Append(s, x)))
    BY <1>2, OfAppend
  <2>2. \A i \in Nat : Event(i) # x
    BY <1>2, Kinds
  <2>3. QED
    BY <2>1, <2>2 DEF Told
<1>3. QED
  BY <1>1, <1>2

LEMMA PastOf ==
    ASSUME NEW s \in Seq(Shown)
    PROVE  /\ Past(s) \subseteq Told(s)
           /\ \A x \in Shown : IsEvent(x) => Past(Append(s, x)) \subseteq Past(s)
<1>1. Len(s) \in Nat /\ DOMAIN s = 1 .. Len(s)
  OBVIOUS
<1>2. Past(s) \subseteq Told(s)
  BY <1>1 DEF Past, Told, FollowedUpTo, UpToNth, Elems
<1>3. ASSUME NEW x \in Shown, IsEvent(x), NEW k \in Past(Append(s, x)) PROVE k \in Past(s)
  <2> DEFINE t == Append(s, x)
  <2>1. /\ Len(t) = Len(s) + 1 /\ t[Len(s) + 1] = x
        /\ \A i \in 1 .. Len(s) : t[i] = s[i]
    OBVIOUS
  <2>2. k \in Past(t)
    BY <1>3 DEF t
  <2> HIDE DEF t
  <2>3. PICK i \in 1 .. Len(t), j \in 1 .. Len(t) : i < j /\ t[i] = Event(k) /\ ~IsEvent(t[j])
    BY <2>2 DEF Past, FollowedUpTo
  <2>4. j # Len(s) + 1
    BY <1>3, <2>1, <2>3
  <2>5. i \in 1 .. Len(s) /\ j \in 1 .. Len(s)
    BY <1>1, <2>1, <2>3, <2>4
  <2>6. s[i] = Event(k) /\ ~IsEvent(s[j]) /\ IsEvent(Event(k)) /\ k \in Nat
    BY <2>1, <2>2, <2>3, <2>5, Kinds DEF Past
  <2>7. QED
    BY <2>3, <2>5, <2>6 DEF Past, FollowedUpTo, UpToNth
<1>4. QED
  BY <1>2, <1>3

\* Numbers come from OnTrigger calls that were made.
Numbered ==
    /\ Told(log) \cup FramesIn(inputs) \subseteq 1 .. events
    /\ \A a \in Agents : Told(conv[a]) \cup FramesIn(inbox[a]) \subseteq 1 .. events

\* An event is in one frame and in one row.
QueuedOnce ==
    /\ Once(inputs, Number)
    /\ \A a \in Agents : Once(inbox[a], Number) /\ FramesIn(inbox[a]) \cap FramesIn(inputs) = {}
LoggedOnce == Distinct(log) /\ (call = "log" => events \notin Told(log))

Alone ==
    /\ \A a, b \in Agents : Alive(a) /\ Alive(b) => a = b
    /\ call # "none" => \A a \in Agents : ~Alive(a)
AwayIsEmpty ==
    \A a \in Agents : ~Alive(a) \/ stage[a] = "boot" => conv[a] = <<>> /\ inbox[a] = <<>>

\* An event that is logged and still queued ends the log, and the agent that
\* may be there has not begun to read or to write.
WaitingIsLast == Past(log) \cap FramesIn(inputs) = {}
WaitingIsUnread ==
    Told(log) \cap FramesIn(inputs) # {} =>
        \A a \in Agents : stage[a] \notin {"call", "tools"} /\ inbox[a] = <<>>

ShownOnce ==
    \A a \in Agents :
        /\ Distinct(conv[a])
        /\ Told(conv[a]) \cap (FramesIn(inputs) \cup FramesIn(inbox[a])) = {}

FrameInv  == Numbered /\ QueuedOnce /\ LoggedOnce
AloneInv == ~overlap => Alone /\ AwayIsEmpty /\ WaitingIsLast /\ WaitingIsUnread /\ ShownOnce
HistInv   == HistTypes /\ BatchInHand /\ FrameInv /\ AloneInv

LEMMA HistInit == HistoryInit => HistInv
<1> SUFFICES ASSUME HistoryInit PROVE HistInv
  OBVIOUS
<1>1. HistTypes /\ BatchInHand
  BY HistTypesInit
<1>2. /\ <<>> \in Seq(Nat) /\ <<>> \in Seq(Shown)
      /\ Append(<<>>, 1) = <<1>> /\ Append(<<>>, Event(1)) = <<Event(1)>>
  OBVIOUS
<1>3. FramesIn(inputs) = {1} /\ Once(inputs, Number) /\ Told(log) = {1} /\ Distinct(log)
  <2>1. 1 \in Nat /\ {1} \cap Number = {1}
    BY DEF Number, StopFrame
  <2>2. FramesIn(Append(<<>>, 1)) = {1} /\ Once(Append(<<>>, 1), Number)
    <3>1. /\ FramesIn(Append(<<>>, 1)) = FramesIn(<<>>) \cup ({1} \cap Number)
          /\ Once(<<>>, Number) /\ 1 \notin FramesIn(<<>>) => Once(Append(<<>>, 1), Number)
      BY <1>2, <2>1, FramesOf, Zenon
    <3>2. QED
      BY <2>1, <3>1, OfNothing
  <2>3. Told(Append(<<>>, Event(1))) = {1} /\ Distinct(Append(<<>>, Event(1)))
    <3>1. /\ Told(Append(<<>>, Event(1))) = Told(<<>>) \cup {1}
          /\ Distinct(<<>>) /\ 1 \notin Told(<<>>) => Distinct(Append(<<>>, Event(1)))
      BY <1>2, <2>1, ToldOf, Zenon
    <3>2. QED
      BY <3>1, OfNothing
  <2>4. inputs = <<1>> /\ log = <<Event(1)>>
    BY DEF HistoryInit
  <2>5. QED
    BY <1>2, <2>2, <2>3, <2>4, Zenon
<1>4. Past(log) = {}
  <2>1. Past(<<Event(1)>>) \subseteq Past(<<>>) /\ Past(<<>>) \subseteq Told(<<>>)
    BY <1>2, PastOf, Kinds
  <2>2. QED
    BY <2>1, OfNothing DEF HistoryInit
<1>5. \A a \in Agents : conv[a] = <<>> /\ inbox[a] = <<>> /\ stage[a] \in {"boot", "none"}
                        /\ (stage[a] = "boot" => a = 1)
  BY DEF HistoryInit
<1>6. events = 1 /\ call = "none"
  BY DEF HistoryInit
<1>7. FrameInv
  BY <1>3, <1>5, <1>6, OfNothing DEF FrameInv, Numbered, QueuedOnce, LoggedOnce
<1>8. AloneInv
  BY <1>3, <1>4, <1>5, <1>6, OfNothing
     DEF AloneInv, Alone, AwayIsEmpty, WaitingIsLast, WaitingIsUnread, ShownOnce, Alive
<1>9. QED
  BY <1>1, <1>7, <1>8 DEF HistInv

\* What a step puts into the log says nothing new about events.
Logs(r) == log' = log \/ log' = Append(log, r)

LEMMA HistStep ==
    ASSUME HistInv, [HistoryNext]_historyVars
    PROVE  FrameInv' /\ AloneInv'
<1> USE DEF FrameInv, AloneInv
<1>0. /\ HistTypes /\ FrameInv /\ AloneInv
      /\ log \in Seq(Shown) /\ inputs \in Seq(Nat) /\ events \in Nat \ {0}
      /\ \A a \in Agents : conv[a] \in Seq(Shown) /\ inbox[a] \in Seq(Nat)
  <2>1. LogRow \subseteq Shown
    BY Kinds
  <2>2. QED
    BY <2>1 DEF HistInv, HistTypes
<1>1. CASE QueuesOntoLive \/ RewakeQueues
  <2>1. /\ inputs' = Append(inputs, events + 1) /\ events' = events + 1
        /\ UNCHANGED <<log, stage, conv, inbox>> /\ call = "none" /\ call' \in {"none", "log"}
    BY <1>1 DEF QueuesOntoLive, RewakeQueues, agentLocals
  <2>2. /\ 1 .. events \subseteq 1 .. events' /\ events' \in 1 .. events' /\ events' \notin 1 .. events
        /\ events' \in Nat /\ {events'} \cap Number = {events'}
    BY <1>0, <2>1 DEF Number, StopFrame
  <2>3. FramesIn(inputs') = FramesIn(inputs) \cup {events'} /\ Once(inputs', Number)
    BY <1>0, <2>1, <2>2, FramesOf DEF Numbered, QueuedOnce
  <2>4. FrameInv'
    BY <1>0, <2>1, <2>2, <2>3 DEF Numbered, QueuedOnce, LoggedOnce
  <2>5. Past(log) \subseteq Told(log)
    BY <1>0, PastOf
  <2>6. ASSUME ~overlap' PROVE ~overlap /\ (call' = "log" => \A a \in Agents : ~Alive(a))
    <3>1. CASE QueuesOntoLive
      BY <2>6, <3>1 DEF QueuesOntoLive
    <3>2. CASE RewakeQueues
      BY <2>6, <3>2 DEF RewakeQueues
    <3>3. QED
      BY <1>1, <3>1, <3>2
  <2>7. AloneInv'
    <3> SUFFICES ASSUME ~overlap'
                 PROVE  Alone' /\ AwayIsEmpty' /\ WaitingIsLast' /\ WaitingIsUnread' /\ ShownOnce'
      OBVIOUS
    <3>1. Alone /\ AwayIsEmpty /\ WaitingIsLast /\ WaitingIsUnread /\ ShownOnce
      BY <1>0, <2>6
    <3>2. Alone' /\ AwayIsEmpty'
      BY <2>1, <2>6, <3>1 DEF Alone, AwayIsEmpty, Alive
    <3>3. WaitingIsLast' /\ WaitingIsUnread'
      <4>1. Told(log) \cap FramesIn(inputs') = Told(log) \cap FramesIn(inputs)
        BY <1>0, <2>2, <2>3 DEF Numbered
      <4>2. QED
        BY <2>1, <2>5, <3>1, <4>1 DEF WaitingIsLast, WaitingIsUnread
    <3>4. ShownOnce'
      <4>1. \A a \in Agents : Told(conv[a]) \cap FramesIn(inputs') = Told(conv[a]) \cap FramesIn(inputs)
        BY <1>0, <2>2, <2>3 DEF Numbered
      <4>2. QED
        BY <2>1, <3>1, <4>1 DEF ShownOnce
    <3>5. QED
      BY <3>2, <3>3, <3>4
  <2>8. QED
    BY <2>4, <2>7
<1>2. CASE RewakeLogs
  <2>1. /\ call = "log" /\ call' = "dispatch" /\ Logs(Event(events))
        /\ UNCHANGED <<inputs, stage, conv, inbox, events, overlap>>
    BY <1>2 DEF RewakeLogs, AppendMessage, Logs, agentLocals
  <2>2. /\ Told(log') \subseteq Told(log) \cup {events} /\ Distinct(log')
        /\ Past(log') \subseteq Past(log)
    <3> DEFINE l == Append(log, Event(events))
    <3>1. Event(events) \in Shown /\ IsEvent(Event(events)) /\ events \in Nat
      BY <1>0, Kinds
    <3>2. Told(l) = Told(log) \cup {events} /\ (Distinct(log) /\ events \notin Told(log) => Distinct(l))
      BY <1>0, <3>1, ToldOf
    <3>3. Past(l) \subseteq Past(log)
      BY <1>0, <3>1, PastOf
    <3> HIDE DEF l
    <3>4. log' = log \/ log' = l
      BY <2>1 DEF Logs, l
    <3>5. QED
      BY <1>0, <2>1, <3>2, <3>3, <3>4 DEF LoggedOnce
  <2>3. FrameInv'
    BY <1>0, <2>1, <2>2 DEF Numbered, QueuedOnce, LoggedOnce
  <2>4. AloneInv'
    BY <1>0, <2>1, <2>2
       DEF Alone, AwayIsEmpty, WaitingIsLast, WaitingIsUnread, ShownOnce, Alive
  <2>5. QED
    BY <2>3, <2>4
<1>3. CASE RewakeDispatches
  <2>1. /\ call = "dispatch" /\ call' = "none"
        /\ stage' = [stage EXCEPT ![wakes + 1] = "boot"]
        /\ UNCHANGED <<log, inputs, conv, inbox, events, overlap>>
    BY <1>3 DEF RewakeDispatches
  <2>2. \A a \in Agents : stage'[a] = stage[a] \/ (a = wakes + 1 /\ stage'[a] = "boot")
    BY <1>0, <2>1 DEF HistTypes
  <2>3. FrameInv'
    BY <1>0, <2>1 DEF Numbered, QueuedOnce, LoggedOnce
  <2>4. AloneInv'
    BY <1>0, <2>1, <2>2
       DEF Alone, AwayIsEmpty, WaitingIsLast, WaitingIsUnread, ShownOnce, Alive
  <2>5. QED
    BY <2>3, <2>4
<1>4. CASE Stop
  <2>1. inputs' = Append(inputs, StopFrame) /\ UNCHANGED <<log, call, stage, conv, inbox, events, overlap>>
    BY <1>4 DEF Stop, agentLocals
  <2>2. StopFrame \in Nat /\ {StopFrame} \cap Number = {} /\ StopFrame \notin FramesIn(inputs)
    BY DEF Number, StopFrame, FramesIn
  <2>3. FramesIn(inputs') = FramesIn(inputs) /\ Once(inputs', Number)
    <3> DEFINE q == Append(inputs, StopFrame)
    <3>1. /\ FramesIn(q) = FramesIn(inputs) \cup ({StopFrame} \cap Number)
          /\ Once(inputs, Number) /\ StopFrame \notin FramesIn(inputs) => Once(q, Number)
      BY <1>0, <2>2, FramesOf, Zenon
    <3> HIDE DEF q
    <3>2. inputs' = q
      BY <2>1 DEF q
    <3>3. QED
      BY <1>0, <2>2, <3>1, <3>2 DEF QueuedOnce
  <2>4. FrameInv'
    BY <1>0, <2>1, <2>3 DEF Numbered, QueuedOnce, LoggedOnce
  <2>5. AloneInv'
    BY <1>0, <2>1, <2>3
       DEF Alone, AwayIsEmpty, WaitingIsLast, WaitingIsUnread, ShownOnce, Alive
  <2>6. QED
    BY <2>4, <2>5
<1>5. ASSUME NEW a \in Agents, LoadsHistory(a) PROVE FrameInv' /\ AloneInv'
  <2> DEFINE h == TrimDanglingToolCalls(FetchHistory(log))
  <2>1. /\ stage[a] = "boot" /\ stage' = [stage EXCEPT ![a] = "ready"] /\ conv' = [conv EXCEPT ![a] = h]
        /\ UNCHANGED <<log, inputs, call, inbox, events, overlap>>
    BY <1>5 DEF LoadsHistory, counters
  <2>2. Distinct(h) /\ Told(h) \subseteq Past(log)
    <3>1. /\ Distinct(log) => Distinct(h)
          /\ \A x \in Elems(h) : IsEvent(x) => x \in FollowedUpTo(log, Len(log))
      BY <1>0, BootIs
    <3> HIDE DEF h
    <3>2. QED
      BY <1>0, <3>1, Kinds DEF LoggedOnce, Told, Past
  <2> HIDE DEF h
  <2>3. Past(log) \subseteq Told(log)
    BY <1>0, PastOf
  <2>4. /\ \A x \in Agents : x # a => conv'[x] = conv[x] /\ stage'[x] = stage[x]
        /\ conv'[a] = h /\ stage'[a] = "ready"
    BY <1>0, <2>1 DEF HistTypes
  <2>5. FrameInv'
    BY <1>0, <2>1, <2>2, <2>3, <2>4 DEF Numbered, QueuedOnce, LoggedOnce
  <2>6. ASSUME ~overlap PROVE inbox[a] = <<>>
    BY <1>0, <2>1, <2>6 DEF AwayIsEmpty
  <2>7. AloneInv'
    BY <1>0, <2>1, <2>2, <2>4, <2>6, OfNothing
       DEF Alone, AwayIsEmpty, WaitingIsLast, WaitingIsUnread, ShownOnce, Alive
  <2>8. QED
    BY <2>5, <2>7
<1>6. ASSUME NEW a \in Agents, ReadsInputs(a) PROVE FrameInv' /\ AloneInv'
  <2>1. /\ stage[a] \in {"ready", "call", "tools"} /\ inputs' = <<>>
        /\ inbox' = [inbox EXCEPT ![a] = @ \o inputs]
        /\ UNCHANGED <<log, call, stage, conv, events, overlap>>
    BY <1>6 DEF ReadsInputs, counters
  <2>2. /\ \A x \in Agents : x # a => inbox'[x] = inbox[x]
        /\ inbox'[a] = inbox[a] \o inputs
    BY <1>0, <2>1 DEF HistTypes
  <2>3. FramesIn(inbox'[a]) = FramesIn(inbox[a]) \cup FramesIn(inputs) /\ Once(inbox'[a], Number)
    BY <1>0, <2>2, FramesOf DEF QueuedOnce
  <2>4. FramesIn(inputs') = {} /\ Once(inputs', Number)
    BY <2>1, OfNothing
  <2>5. FrameInv'
    BY <1>0, <2>1, <2>2, <2>3, <2>4 DEF Numbered, QueuedOnce, LoggedOnce
  <2>6. AloneInv'
    BY <1>0, <2>1, <2>2, <2>3, <2>4
       DEF Alone, AwayIsEmpty, WaitingIsLast, WaitingIsUnread, ShownOnce, Alive
  <2>7. QED
    BY <2>5, <2>6
<1>7. ASSUME NEW a \in Agents, HandleEvent(a) \/ Fold(a) PROVE FrameInv' /\ AloneInv'
  <2> DEFINE k == Head(inbox[a])
  <2>1. /\ stage[a] \in {"ready", "call"} /\ inbox[a] # <<>>
        /\ inbox' = [inbox EXCEPT ![a] = Tail(@)]
        /\ stage' = stage \/ stage' = [stage EXCEPT ![a] = "call"]
        /\ \/ k = StopFrame /\ conv' = conv
           \/ k # StopFrame /\ conv' = [conv EXCEPT ![a] = Append(@, Event(k))]
        /\ UNCHANGED <<log, inputs, call, events, overlap>>
    BY <1>7 DEF HandleEvent, Fold, counters
  <2>2. /\ \A x \in Agents : x # a => inbox'[x] = inbox[x] /\ conv'[x] = conv[x] /\ stage'[x] = stage[x]
        /\ inbox'[a] = Tail(inbox[a]) /\ stage'[a] \in {"ready", "call"}
    BY <1>0, <2>1 DEF HistTypes
  <2>3. /\ k \in Nat /\ FramesIn(inbox'[a]) \subseteq FramesIn(inbox[a]) /\ Once(inbox'[a], Number)
        /\ k # StopFrame => k \in FramesIn(inbox[a]) /\ k \notin FramesIn(inbox'[a])
    BY <1>0, <2>1, <2>2, FramesOf DEF QueuedOnce
  <2> HIDE DEF k
  <2>4. \/ conv'[a] = conv[a]
        \/ k # StopFrame /\ conv'[a] = Append(conv[a], Event(k))
    BY <1>0, <2>1 DEF HistTypes
  <2>5. /\ Told(conv'[a]) \subseteq Told(conv[a]) \cup (FramesIn(inbox[a]) \ FramesIn(inbox'[a]))
        /\ Distinct(conv[a]) /\ Told(conv[a]) \cap FramesIn(inbox[a]) = {} => Distinct(conv'[a])
    <3> DEFINE s == Append(conv[a], Event(k))
    <3>1. Told(s) = Told(conv[a]) \cup {k} /\ (Distinct(conv[a]) /\ k \notin Told(conv[a]) => Distinct(s))
      BY <1>0, <2>3, ToldOf
    <3> HIDE DEF s
    <3>2. conv'[a] = conv[a] \/ (k # StopFrame /\ conv'[a] = s)
      BY <2>4 DEF s
    <3>3. QED
      BY <2>3, <3>1, <3>2
  <2>6. FrameInv'
    BY <1>0, <2>1, <2>2, <2>3, <2>5 DEF Numbered, QueuedOnce, LoggedOnce
  <2>7. ASSUME ~overlap' PROVE Alone' /\ AwayIsEmpty' /\ WaitingIsLast' /\ WaitingIsUnread' /\ ShownOnce'
    <3>1. Alone' /\ AwayIsEmpty'
      BY <1>0, <2>1, <2>2, <2>7 DEF Alone, AwayIsEmpty, Alive
    <3>2. WaitingIsLast' /\ WaitingIsUnread'
      BY <1>0, <2>1, <2>7 DEF WaitingIsLast, WaitingIsUnread
    <3>3. ShownOnce'
      BY <1>0, <2>1, <2>2, <2>3, <2>5, <2>7 DEF ShownOnce, QueuedOnce
    <3>4. QED
      BY <3>1, <3>2, <3>3
  <2>8. QED
    BY <2>6, <2>7
<1>8. ASSUME NEW a \in Agents, Leave(a) \/ Dies(a), UNCHANGED <<log, inputs, call, events, overlap>>
      PROVE  FrameInv' /\ AloneInv'
  <2>1. /\ stage' = [stage EXCEPT ![a] = "gone"] /\ conv' = [conv EXCEPT ![a] = <<>>]
        /\ inbox' = [inbox EXCEPT ![a] = <<>>]
    BY <1>8 DEF Leave, Dies
  <2>2. /\ \A x \in Agents : x # a => inbox'[x] = inbox[x] /\ conv'[x] = conv[x] /\ stage'[x] = stage[x]
        /\ inbox'[a] = <<>> /\ conv'[a] = <<>> /\ stage'[a] = "gone"
    BY <1>0, <2>1 DEF HistTypes
  <2>3. FrameInv'
    BY <1>0, <1>8, <2>2, OfNothing DEF Numbered, QueuedOnce, LoggedOnce
  <2>4. ASSUME ~overlap' PROVE Alone' /\ AwayIsEmpty' /\ WaitingIsLast' /\ WaitingIsUnread' /\ ShownOnce'
    <3>1. Alone' /\ AwayIsEmpty'
      BY <1>0, <1>8, <2>2, <2>4 DEF Alone, AwayIsEmpty, Alive
    <3>2. WaitingIsLast' /\ WaitingIsUnread'
      BY <1>0, <1>8, <2>2, <2>4 DEF WaitingIsLast, WaitingIsUnread
    <3>3. ShownOnce'
      BY <1>0, <1>8, <2>2, <2>4, OfNothing DEF ShownOnce
    <3>4. QED
      BY <3>1, <3>2, <3>3
  <2>5. QED
    BY <2>3, <2>4
<1>9. ASSUME NEW a \in Agents, NEW r \in LogRow, ~IsEvent(r), Logs(r),
             stage[a] \in {"call", "tools"}, stage'[a] \in {"ready", "call", "tools"},
             Told(conv'[a]) = Told(conv[a]), Distinct(conv[a]) => Distinct(conv'[a]),
             \A x \in Agents : x # a => conv'[x] = conv[x] /\ stage'[x] = stage[x],
             UNCHANGED <<inputs, call, inbox, events, overlap>>
      PROVE  FrameInv' /\ AloneInv'
  <2>1. r \in Shown
    BY Kinds
  <2>2. /\ Told(log') = Told(log) /\ Distinct(log') /\ Past(log') \subseteq Told(log)
    <3> DEFINE l == Append(log, r)
    <3>1. Told(l) = Told(log) /\ (Distinct(log) => Distinct(l)) /\ Past(l) \subseteq Told(l)
      <4>1. l \in Seq(Shown)
        BY <1>0, <2>1
      <4>2. Past(l) \subseteq Told(l)
        BY <4>1, PastOf
      <4>3. QED
        BY <1>0, <1>9, <2>1, <4>2, ToldOf
    <3>2. Past(log) \subseteq Told(log)
      BY <1>0, PastOf
    <3> HIDE DEF l
    <3>3. log' = log \/ log' = l
      BY <1>9 DEF Logs, l
    <3>4. QED
      BY <1>0, <3>1, <3>2, <3>3 DEF LoggedOnce
  <2>3. FrameInv'
    BY <1>0, <1>9, <2>2 DEF Numbered, QueuedOnce, LoggedOnce
  <2>4. ASSUME ~overlap' PROVE Alone' /\ AwayIsEmpty' /\ WaitingIsLast' /\ WaitingIsUnread' /\ ShownOnce'
    <3>1. Told(log) \cap FramesIn(inputs) = {}
      BY <1>0, <1>9, <2>4 DEF WaitingIsUnread
    <3>2. QED
      BY <1>0, <1>9, <2>2, <2>4, <3>1
         DEF Alone, AwayIsEmpty, WaitingIsLast, WaitingIsUnread, ShownOnce, Alive
  <2>5. QED
    BY <2>3, <2>4
<1>10. ASSUME NEW a \in Agents, Reply(a) PROVE FrameInv' /\ AloneInv'
  <2>1. PICK b \in Batches :
          /\ conv' = [conv EXCEPT ![a] = Append(@, Message(CallsOf(replies + 1, b)))]
          /\ AppendMessage(Message(CallsOf(replies + 1, b)))
          /\ stage' = [stage EXCEPT ![a] =
                 IF b # <<>> THEN "tools" ELSE IF Len(conv[a]) > seen[a] THEN "call" ELSE "ready"]
    BY <1>10 DEF Reply
  <2> DEFINE m == Message(CallsOf(replies + 1, b))
  <2>2. m \in LogRow /\ m \in Shown /\ ~IsEvent(m)
    <3>1. replies + 1 \in Nat
      BY <1>0 DEF HistTypes
    <3>2. CallsOf(replies + 1, b) \in SUBSET (Nat \X Nat)
      BY <3>1, BatchIs
    <3>3. QED
      BY <3>2, Kinds
  <2> HIDE DEF m
  <2>3. /\ conv'[a] = Append(conv[a], m) /\ stage'[a] \in {"ready", "call", "tools"}
        /\ \A x \in Agents : x # a => conv'[x] = conv[x] /\ stage'[x] = stage[x]
        /\ Logs(m)
    BY <1>0, <2>1 DEF HistTypes, AppendMessage, Logs, m
  <2>4. Told(conv'[a]) = Told(conv[a]) /\ (Distinct(conv[a]) => Distinct(conv'[a]))
    BY <1>0, <2>2, <2>3, ToldOf
  <2>5. stage[a] = "call" /\ UNCHANGED <<inputs, call, inbox, events, overlap>>
    BY <1>10 DEF Reply
  <2>6. QED
    BY <1>9, <2>2, <2>3, <2>4, <2>5
<1>11. ASSUME NEW a \in Agents, CallTool(a) PROVE FrameInv' /\ AloneInv'
  <2> DEFINE c == Head(todo[a])
             r == ToolRow(c, batch[a][c[2]])
  <2>1. stage[a] = "tools" /\ UNCHANGED <<inputs, call, inbox, events, overlap>>
    BY <1>11 DEF CallTool
  <2>2. r \in LogRow /\ ~IsEvent(r) /\ Tool(c) \in Shown /\ ~IsEvent(Tool(c))
    <3>1. todo[a] \in Seq(Nat \X Nat) /\ todo[a] # <<>> /\ batch[a] \in Batches
      BY <2>1 DEF HistInv, HistTypes, BatchInHand
    <3>2. c \in Nat \X Nat /\ c[2] \in DOMAIN batch[a]
      BY <3>1 DEF HistInv, BatchInHand
    <3>3. batch[a][c[2]] \in Tools
      BY <1>0, <3>1, <3>2, BatchIs
    <3>4. QED
      BY <3>2, <3>3, Kinds
  <2>3. /\ \/ conv' = [conv EXCEPT ![a] = Append(@, Tool(c)) \o <<Summary>>]
           \/ conv' = [conv EXCEPT ![a] = Append(@, Tool(c)) \o <<>>]
        /\ Logs(r)
        /\ \E s \in {"tools", "ready", "call"} : stage' = [stage EXCEPT ![a] = s]
    BY <1>11 DEF CallTool, AppendMessage, Logs
  <2> HIDE DEF c, r
  <2> DEFINE s == Append(conv[a], Tool(c))
  <2>4. s \in Seq(Shown) /\ Told(s) = Told(conv[a]) /\ (Distinct(conv[a]) => Distinct(s))
    BY <1>0, <2>2, ToldOf
  <2>5. /\ conv'[a] = s \o <<Summary>> \/ conv'[a] = s \o <<>>
        /\ stage'[a] \in {"ready", "call", "tools"}
        /\ \A x \in Agents : x # a => conv'[x] = conv[x] /\ stage'[x] = stage[x]
    BY <1>0, <2>3 DEF HistTypes
  <2> HIDE DEF s
  <2>6. conv'[a] = s \/ conv'[a] = Append(s, Summary)
    <3>1. s \o <<Summary>> = Append(s, Summary) /\ s \o <<>> = s
      BY <2>4
    <3>2. QED
      BY <2>5, <3>1
  <2>7. Told(conv'[a]) = Told(conv[a]) /\ (Distinct(conv[a]) => Distinct(conv'[a]))
    <3> DEFINE u == Append(s, Summary)
    <3>1. Told(u) = Told(s) /\ (Distinct(s) => Distinct(u))
      BY <2>4, ToldOf, Kinds
    <3> HIDE DEF u
    <3>2. conv'[a] = s \/ conv'[a] = u
      BY <2>6 DEF u
    <3>3. QED
      BY <2>4, <3>1, <3>2
  <2>8. QED
    BY <1>9, <2>1, <2>2, <2>3, <2>5, <2>7
<1>12. CASE UNCHANGED historyVars
  BY <1>0, <1>12 DEF historyVars, Numbered, QueuedOnce, LoggedOnce,
     Alone, AwayIsEmpty, WaitingIsLast, WaitingIsUnread, ShownOnce, Alive
<1>13. ASSUME NEW a \in Agents, Exit(a) \/ CallFails(a) \/ Dies(a) PROVE FrameInv' /\ AloneInv'
  BY <1>8, <1>13 DEF Exit, CallFails, Dies, counters
<1>14. QED
  BY <1>1, <1>2, <1>3, <1>4, <1>5, <1>6, <1>7, <1>10, <1>11, <1>12, <1>13 DEF HistoryNext

LEMMA HistInvariant == HistorySpec => []HistInv
<1>1. HistoryInit => HistInv
  BY HistInit
<1>2. HistInv /\ [HistoryNext]_historyVars => HistInv'
  BY HistTypesStep, HistStep DEF HistInv
<1>3. QED
  BY <1>1, <1>2, PTL DEF HistorySpec

\* While agents of a session do not overlap, none is shown an event twice:
\* an event that FetchHistory puts into its first conversation is in no frame
\* it will read.
THEOREM EventsShownOnce == HistorySpec => []EventsOnce
<1>1. HistInv => EventsOnce
  BY DEF HistInv, AloneInv, ShownOnce, EventsOnce, Distinct, IsEvent
<1>2. QED
  BY <1>1, HistInvariant, PTL

\* What FetchHistory repairs never costs a message whose calls are answered.
THEOREM AnsweredStays == HistorySpec => AnsweredIsKept
<1>1. ASSUME HistInv, [HistoryNext]_historyVars, NEW a \in Agents, LoadsHistory(a), NEW i \in RowsOf("message"),
             AnsweredIn(i) = log[i].calls
      PROVE  log[i] \in ToSet(conv'[a])
  <2> DEFINE h == TrimDanglingToolCalls(FetchHistory(log))
  <2>1. conv'[a] = h
    BY <1>1 DEF LoadsHistory, HistInv, HistTypes
  <2>2. i \in DOMAIN log /\ log[i].kind = "message"
    BY DEF RowsOf
  <2>3. \A c \in log[i].calls : \E j \in DOMAIN log : log[j].kind = "tool_call" /\ log[j].call = c
    BY <1>1 DEF AnsweredIn, RowsOf
  <2>4. log[i] \in Elems(h)
    BY <1>1, <2>2, <2>3, BootIs DEF HistInv, HistTypes
  <2> HIDE DEF h
  <2>5. QED
    BY <2>1, <2>4 DEF Elems, ToSet
<1>2. HistInv /\ [HistoryNext]_historyVars =>
        [\A a \in Agents : LoadsHistory(a) =>
            \A i \in RowsOf("message") :
               AnsweredIn(i) = log[i].calls => log[i] \in ToSet(conv'[a])]_historyVars
  BY <1>1
<1>3. QED
  BY <1>2, HistInvariant, PTL DEF HistorySpec, AnsweredIsKept

----------------------------------------------------------------------------
(* The functions of FetchHistory, row by row and item by item.              *)

LEMMA AppendIs ==
    ASSUME NEW V, NEW s \in Seq(V), NEW x \in V
    PROVE  /\ Append(s, x) \in Seq(V) /\ Len(s) \in Nat /\ DOMAIN s = 1 .. Len(s)
           /\ Len(Append(s, x)) = Len(s) + 1 /\ DOMAIN Append(s, x) = 1 .. Len(s) + 1
           /\ Append(s, x)[Len(s) + 1] = x
           /\ \A i \in 1 .. Len(s) : Append(s, x)[i] = s[i]
  OBVIOUS

LEMMA PrefixGrows ==
    ASSUME NEW V, NEW s \in Seq(V), NEW n \in 1 .. Len(s)
    PROVE  /\ SubSeq(s, 1, n - 1) \in Seq(V) /\ s[n] \in V
           /\ SubSeq(s, 1, n) = Append(SubSeq(s, 1, n - 1), s[n])
  OBVIOUS

\* The state of the pass at the end of s.
Run(s) == LET f == CHOOSE g : Pass(g, s, Len(s)) IN f[Len(s)]

LEMMA RunIs ==
    /\ Run(<<>>) = Nothing
    /\ \A V : \A s \in Seq(V), x \in V : Run(Append(s, x)) = NormalizeStep(Run(s), x)
    /\ \A s : NormalizeInterruptedChains(s) = Run(s).out
<1>1. Run(<<>>) = Nothing
  <2> DEFINE f == CHOOSE g : Pass(g, <<>>, Len(<<>>))
  <2>1. Pass(f, <<>>, 0) /\ Run(<<>>) = f[0]
    BY PassExists DEF Run
  <2> HIDE DEF f
  <2>2. QED
    BY <2>1 DEF Pass
<1>2. ASSUME NEW V, NEW s \in Seq(V), NEW x \in V PROVE Run(Append(s, x)) = NormalizeStep(Run(s), x)
  <2> DEFINE t == Append(s, x)
             N == Len(s)
             f == CHOOSE g : Pass(g, s, Len(s))
             h == CHOOSE g : Pass(g, t, Len(t))
  <2>1. /\ N \in Nat /\ Len(t) = N + 1 /\ t[N + 1] = x /\ \A i \in 1 .. N : t[i] = s[i]
    BY AppendIs
  <2>2. Pass(f, s, N) /\ Pass(h, t, N + 1)
    <3>1. Len(s) \in Nat /\ Len(t) \in Nat
      BY <2>1
    <3>2. Pass(f, s, Len(s)) /\ Pass(h, t, Len(t))
      BY <3>1, PassExists
    <3>3. QED
      BY <2>1, <3>2
  <2>3. Run(s) = f[N] /\ Run(t) = h[N + 1]
    BY <2>1 DEF Run
  <2> HIDE DEF f, h, t, N
  <2> DEFINE S == {n \in 0 .. N : f[n] = h[n]}
  <2>4. 0 \in S
    BY <2>1, <2>2 DEF Pass
  <2>5. \A n \in 0 .. N : n > 0 /\ n - 1 \in S => n \in S
    <3> SUFFICES ASSUME NEW n \in 1 .. N, f[n - 1] = h[n - 1] PROVE f[n] = h[n]
      BY <2>1
    <3>1. f[n] = NormalizeStep(f[n - 1], s[n])
      BY <2>1, <2>2 DEF Pass
    <3>2. h[n] = NormalizeStep(h[n - 1], t[n])
      BY <2>1, <2>2 DEF Pass
    <3>3. QED
      BY <2>1, <3>1, <3>2
  <2> HIDE DEF S
  <2>6. N \in S
    <3>1. 0 .. N \subseteq S
      BY <2>1, <2>4, <2>5, UpTo
    <3>2. QED
      BY <2>1, <3>1
  <2>7. h[N + 1] = NormalizeStep(h[N], x)
    BY <2>1, <2>2 DEF Pass
  <2>8. QED
    BY <2>3, <2>6, <2>7 DEF S, t
<1>3. \A s : NormalizeInterruptedChains(s) = Run(s).out
  BY DEF NormalizeInterruptedChains, Run, Pass
<1>4. QED
  BY <1>1, <1>2, <1>3

LEMMA HistoryItemsIs ==
    /\ HistoryItems(<<>>) = <<>>
    /\ \A V : \A s \in Seq(V), x \in V :
          HistoryItems(Append(s, x)) = HistoryItems(s) \o MessageToHistoryItems(x)
<1>1. HistoryItems(<<>>) = <<>>
  <2>1. PICK f : RowPass(f, <<>>, Len(<<>>)) /\ HistoryItems(<<>>) = f[Len(<<>>)]
    BY RowPassIs
  <2>2. Len(<<>>) = 0
    OBVIOUS
  <2>3. QED
    BY <2>1, <2>2 DEF RowPass
<1>2. ASSUME NEW V, NEW s \in Seq(V), NEW x \in V
      PROVE  HistoryItems(Append(s, x)) = HistoryItems(s) \o MessageToHistoryItems(x)
  <2> DEFINE t == Append(s, x)
             N == Len(s)
  <2>1. /\ N \in Nat /\ Len(t) = N + 1 /\ t[N + 1] = x /\ \A i \in 1 .. N : t[i] = s[i]
    BY AppendIs
  <2>2. PICK f : RowPass(f, s, N) /\ HistoryItems(s) = f[N]
    BY <2>1, RowPassIs
  <2>3. PICK h : RowPass(h, t, N + 1) /\ HistoryItems(t) = h[N + 1]
    <3>1. Len(t) \in Nat
      BY <2>1
    <3>2. \E h : RowPass(h, t, Len(t)) /\ HistoryItems(t) = h[Len(t)]
      BY <3>1, RowPassIs
    <3>3. QED
      BY <2>1, <3>2
  <2>4. \A n \in 0 .. N :
           f[n] = IF n = 0 THEN <<>> ELSE f[n - 1] \o MessageToHistoryItems(s[n])
    BY <2>2 DEF RowPass
  <2>5. \A n \in 0 .. N + 1 :
           h[n] = IF n = 0 THEN <<>> ELSE h[n - 1] \o MessageToHistoryItems(t[n])
    BY <2>3 DEF RowPass
  <2> HIDE DEF t, N
  <2> DEFINE S == {n \in 0 .. N : f[n] = h[n]}
  <2>6. 0 \in S
    BY <2>1, <2>4, <2>5
  <2>7. \A n \in 0 .. N : n > 0 /\ n - 1 \in S => n \in S
    <3> SUFFICES ASSUME NEW n \in 1 .. N, f[n - 1] = h[n - 1] PROVE f[n] = h[n]
      BY <2>1
    <3>1. f[n] = f[n - 1] \o MessageToHistoryItems(s[n])
      <4>1. n \in 0 .. N /\ n # 0
        BY <2>1
      <4>2. QED
        BY <2>4, <4>1, Zenon
    <3>2. h[n] = h[n - 1] \o MessageToHistoryItems(t[n])
      <4>1. n \in 0 .. N + 1 /\ n # 0
        BY <2>1
      <4>2. QED
        BY <2>5, <4>1, Zenon
    <3>3. QED
      BY <2>1, <3>1, <3>2
  <2> HIDE DEF S
  <2>8. N \in S
    <3>1. 0 .. N \subseteq S
      BY <2>1, <2>6, <2>7, UpTo
    <3>2. QED
      BY <2>1, <3>1
  <2>9. h[N + 1] = h[N] \o MessageToHistoryItems(x)
    <3>1. N + 1 \in 0 .. N + 1 /\ N + 1 # 0 /\ (N + 1) - 1 = N
      BY <2>1
    <3>2. h[N + 1] = h[(N + 1) - 1] \o MessageToHistoryItems(t[N + 1])
      BY <2>5, <3>1, Zenon
    <3>3. QED
      BY <2>1, <3>1, <3>2, Zenon
  <2>10. QED
    BY <2>2, <2>3, <2>8, <2>9 DEF S, t
<1>3. QED
  BY <1>1, <1>2

LEMMA TrimTrailingIs ==
    /\ TrimTrailingEvents(<<>>) = <<>>
    /\ \A V : \A s \in Seq(V), x \in V :
          TrimTrailingEvents(Append(s, x)) = IF IsEvent(x) THEN TrimTrailingEvents(s) ELSE Append(s, x)
<1> DEFINE P(s) == {0} \cup {i \in DOMAIN s : s[i].kind # "event"}
<1>1. TrimTrailingEvents(<<>>) = <<>>
  <2>1. P(<<>>) = {0}
    OBVIOUS
  <2>2. MaxOf({0}) = 0
    BY DEF MaxOf
  <2>3. TrimTrailingEvents(<<>>) = SubSeq(<<>>, 1, 0)
    BY <2>1, <2>2 DEF TrimTrailingEvents
  <2>4. QED
    BY <2>3
<1>2. ASSUME NEW V, NEW s \in Seq(V), NEW x \in V
      PROVE  TrimTrailingEvents(Append(s, x)) = IF IsEvent(x) THEN TrimTrailingEvents(s) ELSE Append(s, x)
  <2> DEFINE t == Append(s, x)
             N == Len(s)
  <2>1. /\ N \in Nat /\ DOMAIN t = 1 .. N + 1 /\ t[N + 1] = x /\ DOMAIN s = 1 .. N
        /\ \A i \in 1 .. N : t[i] = s[i]
    BY AppendIs
  <2>2. CASE IsEvent(x)
    <3>1. P(t) = P(s)
      <4> HIDE DEF t, N
      <4>1. QED
        BY <2>1, <2>2 DEF IsEvent
    <3>2. MaxOf(P(s)) \in 0 .. N
      <4>1. P(s) \in SUBSET (0 .. N) /\ P(s) # {}
        BY <2>1
      <4>2. QED
        BY <2>1, <4>1, MaxIs
    <3>3. \A m \in 0 .. N : SubSeq(t, 1, m) = SubSeq(s, 1, m)
      OBVIOUS
    <3>4. QED
      BY <2>2, <3>1, <3>2, <3>3 DEF TrimTrailingEvents
  <2>3. CASE ~IsEvent(x)
    <3>1. P(t) \in SUBSET (0 .. N + 1) /\ N + 1 \in P(t)
      <4> HIDE DEF t, N
      <4>1. QED
        BY <2>1, <2>3 DEF IsEvent
    <3>2. MaxOf(P(t)) = N + 1
      <4> HIDE DEF P
      <4>1. MaxOf(P(t)) \in P(t) /\ \A k \in P(t) : k <= MaxOf(P(t))
        <5>1. N + 1 \in Nat /\ P(t) # {}
          BY <2>1, <3>1
        <5>2. QED
          BY <3>1, <5>1, MaxIs
      <4>2. QED
        BY <2>1, <3>1, <4>1
    <3>3. SubSeq(t, 1, N + 1) = t
      OBVIOUS
    <3>4. QED
      BY <2>3, <3>2, <3>3 DEF TrimTrailingEvents
  <2>4. QED
    BY <2>2, <2>3
<1>3. QED
  BY <1>1, <1>2

----------------------------------------------------------------------------
(* Calls: an agent carries them out in the order of their batch, and only   *)
(* the agent that has a reply logs results for it.                          *)

CallsNumbered ==
    /\ \A a \in Agents : \A i \in DOMAIN todo[a] : todo[a][i][1] \in 1 .. replies
    /\ \A i \in RowsOf("message") :
          /\ IsFiniteSet(log[i].calls)
          /\ \E k \in 1 .. replies : \A c \in log[i].calls : c[1] = k
    /\ \A i \in RowsOf("tool_call") : log[i].call[1] \in 1 .. replies
TodoInOrder ==
    \A a \in Agents : \A i, j \in DOMAIN todo[a] : i < j =>
        todo[a][i][1] = todo[a][j][1] /\ todo[a][i][2] < todo[a][j][2]
TodoApart ==
    \A a, b \in Agents : \A i \in DOMAIN todo[a], j \in DOMAIN todo[b] :
        todo[a][i][1] = todo[b][j][1] => a = b
TodoIsAhead ==
    \A a \in Agents : \A i \in DOMAIN todo[a], j \in RowsOf("tool_call") :
        log[j].call[1] = todo[a][i][1] => log[j].call[2] < todo[a][i][2]
MessagesApart ==
    \A i, j \in RowsOf("message") : log[i].calls \cap log[j].calls # {} => i = j
ResultsInOrder ==
    \A i, j \in RowsOf("tool_call") :
        i < j /\ log[i].call[1] = log[j].call[1] => log[i].call[2] < log[j].call[2]

TodoInv == CallsNumbered /\ TodoInOrder /\ TodoApart /\ TodoIsAhead
RowInv  == MessagesApart /\ ResultsInOrder
CallInv == TodoInv /\ RowInv

LEMMA CallInit == HistoryInit => CallInv
<1> SUFFICES ASSUME HistoryInit PROVE CallInv
  OBVIOUS
<1>1. log = <<Event(1)>> /\ \A a \in Agents : DOMAIN todo[a] = {}
  BY DEF HistoryInit
<1>2. RowsOf("message") = {} /\ RowsOf("tool_call") = {}
  BY <1>1 DEF RowsOf, Event
<1>3. QED
  BY <1>1, <1>2 DEF CallInv, TodoInv, RowInv, CallsNumbered, TodoInOrder, TodoApart,
                    TodoIsAhead, MessagesApart, ResultsInOrder

\* What one more row does to the rows of a kind.
LEMMA RowsGrow ==
    ASSUME log \in Seq(LogRow), NEW r \in LogRow, log' = Append(log, r)
    PROVE  /\ Len(log) \in Nat /\ DOMAIN log = 1 .. Len(log) /\ DOMAIN log' = 1 .. Len(log) + 1
           /\ log'[Len(log) + 1] = r
           /\ \A i \in DOMAIN log : log'[i] = log[i]
           /\ \A kind : RowsOf(kind)' =
                 RowsOf(kind) \cup (IF r.kind = kind THEN {Len(log) + 1} ELSE {})
<1>1. /\ Len(log) \in Nat /\ DOMAIN log = 1 .. Len(log)
      /\ DOMAIN Append(log, r) = 1 .. Len(log) + 1
      /\ Append(log, r)[Len(log) + 1] = r
      /\ \A i \in DOMAIN log : Append(log, r)[i] = log[i]
  BY AppendIs
<1>2. /\ DOMAIN log' = 1 .. Len(log) + 1 /\ log'[Len(log) + 1] = r
      /\ \A i \in DOMAIN log : log'[i] = log[i]
  BY <1>1
<1>3. 1 .. Len(log) + 1 = (1 .. Len(log)) \cup {Len(log) + 1}
  BY <1>1
<1>4. ASSUME NEW kind
      PROVE  RowsOf(kind)' = RowsOf(kind) \cup (IF r.kind = kind THEN {Len(log) + 1} ELSE {})
  <2>1. RowsOf(kind)' = {i \in DOMAIN log' : log'[i].kind = kind}
    BY DEF RowsOf
  <2>2. RowsOf(kind)' = {i \in (1 .. Len(log)) \cup {Len(log) + 1} : log'[i].kind = kind}
    BY <1>2, <1>3, <2>1
  <2>3. {i \in 1 .. Len(log) : log'[i].kind = kind} = RowsOf(kind)
    BY <1>1, <1>2 DEF RowsOf
  <2>4. QED
    BY <1>2, <2>2, <2>3
<1>5. QED
  BY <1>1, <1>2, <1>4

\* A step that makes no reply and carries out no call, and logs an event at
\* the most.
LEMMA CallsQuiet ==
    ASSUME HistTypes, CallInv, replies' = replies,
           \A b \in Agents : todo'[b] = todo[b] \/ todo'[b] = <<>>,
           log' = log \/ \E k \in Nat : log' = Append(log, Event(k))
    PROVE  CallInv'
<1>1. /\ RowsOf("message")' = RowsOf("message") /\ RowsOf("tool_call")' = RowsOf("tool_call")
      /\ \A i \in DOMAIN log : log'[i] = log[i]
  <2>1. CASE log' = log
    BY <2>1 DEF RowsOf
  <2>2. CASE \E k \in Nat : log' = Append(log, Event(k))
    <3>1. PICK k \in Nat : log' = Append(log, Event(k))
      BY <2>2
    <3>2. Event(k) \in LogRow /\ log \in Seq(LogRow)
      BY Kinds DEF HistTypes
    <3>3. Event(k).kind # "message" /\ Event(k).kind # "tool_call"
      BY DEF Event
    <3> DEFINE r == Event(k)
    <3>4. r \in LogRow /\ log' = Append(log, r) /\ r.kind # "message" /\ r.kind # "tool_call"
      BY <3>1, <3>2, <3>3
    <3> HIDE DEF r
    <3>5. /\ \A i \in DOMAIN log : log'[i] = log[i]
          /\ \A kind : RowsOf(kind)' = RowsOf(kind) \cup (IF r.kind = kind THEN {Len(log) + 1} ELSE {})
      BY ONLY <3>2, <3>4, RowsGrow
    <3>6. QED
      BY <3>4, <3>5
  <2>3. QED
    BY <2>1, <2>2
<1>2. \A kind : RowsOf(kind) \subseteq DOMAIN log
  BY DEF RowsOf
<1>3. /\ \A i \in RowsOf("message") : log'[i] = log[i]
      /\ \A i \in RowsOf("tool_call") : log'[i] = log[i]
  BY <1>1, <1>2
<1>4. \A b \in Agents : \A i \in DOMAIN todo'[b] : i \in DOMAIN todo[b] /\ todo'[b][i] = todo[b][i]
  <2>1. DOMAIN <<>> = {}
    OBVIOUS
  <2>2. QED
    BY <2>1
<1>5. CallsNumbered'
  BY <1>1, <1>3, <1>4 DEF CallInv, TodoInv, CallsNumbered
<1>6. TodoInOrder'
  BY <1>4 DEF CallInv, TodoInv, TodoInOrder
<1>7. TodoApart' /\ TodoIsAhead'
  BY <1>1, <1>3, <1>4 DEF CallInv, TodoInv, TodoApart, TodoIsAhead
<1>8. MessagesApart' /\ ResultsInOrder'
  BY <1>1, <1>3 DEF CallInv, RowInv, MessagesApart, ResultsInOrder
<1>9. QED
  BY <1>5, <1>6, <1>7, <1>8 DEF CallInv, TodoInv, RowInv

LEMMA BatchIsFinite ==
    ASSUME NEW b \in Batches, NEW r
    PROVE  IsFiniteSet(CallsOf(r, b)) /\ DOMAIN b \subseteq Nat
<1>1. PICK n \in 0 .. MaxBatch : b \in [1 .. n -> Tools]
  BY DEF Batches
<1>2. DOMAIN b = 1 .. n /\ n \in Int
  BY <1>1
<1> DEFINE f == [i \in 1 .. n |-> <<r, i>>]
<1>3. f \in Surjection(1 .. n, CallsOf(r, b))
  BY <1>2 DEF Surjection, CallsOf
<1>4. IsFiniteSet(1 .. n)
  BY <1>2, FS_Interval
<1> HIDE DEF f
<1>5. IsFiniteSet(CallsOf(r, b))
  BY <1>3, <1>4, FS_Surjection
<1>6. QED
  BY <1>2, <1>5

LEMMA ReplyKeepsCalls ==
    ASSUME HistTypes, CallInv, NEW a \in Agents, Reply(a)
    PROVE  CallInv'
<1> DEFINE k     == replies + 1
           cs(b) == [i \in DOMAIN b |-> <<k, i>>]
<1>1. PICK b \in Batches :
        /\ AppendMessage(Message(CallsOf(k, b)))
        /\ todo' = [todo EXCEPT ![a] = cs(b)]
        /\ replies' = k
  BY DEF Reply
<1> DEFINE m == Message(CallsOf(k, b))
           N == Len(log) + 1
<1>2. /\ k \in Nat /\ replies \in Nat /\ 1 .. replies \subseteq 1 .. k /\ k \in 1 .. k
      /\ k \notin 1 .. replies /\ log \in Seq(LogRow)
  BY DEF HistTypes
<1>3. IsFiniteSet(CallsOf(k, b)) /\ DOMAIN b \subseteq Nat /\ m \in LogRow
  <2>1. CallsOf(k, b) \in SUBSET (Nat \X Nat)
    BY <1>2, BatchIs
  <2>2. QED
    BY <2>1, BatchIsFinite, Kinds
<1>4. m.kind = "message" /\ m.calls = CallsOf(k, b) /\ \A c \in m.calls : c[1] = k
  BY DEF Message, CallsOf
<1> HIDE DEF m
<1>5. /\ RowsOf("tool_call")' = RowsOf("tool_call")
      /\ RowsOf("message")' \subseteq RowsOf("message") \cup {N}
      /\ \A i \in DOMAIN log : log'[i] = log[i]
      /\ N \in RowsOf("message")' => log'[N] = m
  <2>1. N \notin DOMAIN log
    BY <1>2
  <2>2. CASE log' = log
    BY <2>1, <2>2 DEF RowsOf
  <2>3. CASE log' = Append(log, m)
    <3>1. /\ \A i \in DOMAIN log : log'[i] = log[i]
          /\ log'[Len(log) + 1] = m
          /\ \A kind : RowsOf(kind)' = RowsOf(kind) \cup (IF m.kind = kind THEN {Len(log) + 1} ELSE {})
      BY ONLY <1>2, <1>3, <2>3, RowsGrow
    <3>2. QED
      BY <1>4, <3>1
  <2>4. QED
    BY <1>1, <2>2, <2>3 DEF AppendMessage, m
<1>6. \A kind : RowsOf(kind) \subseteq DOMAIN log
  BY DEF RowsOf
<1>7. /\ \A i \in DOMAIN todo'[a] : i \in Nat /\ todo'[a][i] = <<k, i>>
      /\ \A e \in Agents : e # a => todo'[e] = todo[e]
  BY <1>1, <1>3 DEF HistTypes
<1> HIDE DEF k, N, cs
<1>8. CallsNumbered'
  <2>1. \A e \in Agents : \A i \in DOMAIN todo'[e] : todo'[e][i][1] \in 1 .. k
    <3>1. \A i \in DOMAIN todo'[a] : todo'[a][i][1] = k
      BY <1>7
    <3>2. QED
      BY <1>2, <1>7, <3>1 DEF CallInv, TodoInv, CallsNumbered
  <2>2. \A i \in RowsOf("message")' :
           IsFiniteSet(log'[i].calls) /\ \E n \in 1 .. k : \A c \in log'[i].calls : c[1] = n
    <3>1. ASSUME NEW i \in RowsOf("message")
          PROVE  IsFiniteSet(log'[i].calls) /\ \E n \in 1 .. k : \A c \in log'[i].calls : c[1] = n
      BY <1>2, <1>5, <1>6 DEF CallInv, TodoInv, CallsNumbered
    <3>2. QED
      BY <1>2, <1>3, <1>4, <1>5, <3>1
  <2>3. \A i \in RowsOf("tool_call")' : log'[i].call[1] \in 1 .. k
    BY <1>2, <1>5, <1>6 DEF CallInv, TodoInv, CallsNumbered
  <2>4. QED
    BY <1>1, <2>1, <2>2, <2>3 DEF CallsNumbered
<1>9. TodoInOrder'
  <2>1. ASSUME NEW i \in DOMAIN todo'[a], NEW j \in DOMAIN todo'[a], i < j
        PROVE  todo'[a][i][1] = todo'[a][j][1] /\ todo'[a][i][2] < todo'[a][j][2]
    BY <1>7, <2>1
  <2>2. QED
    BY <1>7, <2>1 DEF CallInv, TodoInv, TodoInOrder
<1>10. \A e \in Agents : \A i \in DOMAIN todo[e] : todo[e][i][1] # k
  BY <1>2 DEF CallInv, TodoInv, CallsNumbered
<1>11. TodoApart'
  <2> SUFFICES ASSUME NEW d \in Agents, NEW e \in Agents, NEW i \in DOMAIN todo'[d],
                      NEW j \in DOMAIN todo'[e], todo'[d][i][1] = todo'[e][j][1]
               PROVE  d = e
    BY DEF TodoApart
  <2>1. CASE d # a /\ e # a
    BY <1>7, <2>1 DEF CallInv, TodoInv, TodoApart
  <2>2. CASE d = a /\ e # a
    BY <1>7, <1>10, <2>2
  <2>3. CASE d # a /\ e = a
    BY <1>7, <1>10, <2>3
  <2>4. QED
    BY <2>1, <2>2, <2>3
<1>12. TodoIsAhead'
  <2> SUFFICES ASSUME NEW d \in Agents, NEW i \in DOMAIN todo'[d], NEW j \in RowsOf("tool_call")',
                      log'[j].call[1] = todo'[d][i][1]
               PROVE  log'[j].call[2] < todo'[d][i][2]
    BY DEF TodoIsAhead
  <2>1. j \in RowsOf("tool_call") /\ log'[j] = log[j] /\ log[j].call[1] \in 1 .. replies
    BY <1>5, <1>6 DEF CallInv, TodoInv, CallsNumbered
  <2>2. d # a
    BY <1>2, <1>7, <2>1
  <2>3. QED
    BY <1>7, <2>1, <2>2 DEF CallInv, TodoInv, TodoIsAhead
<1>13. MessagesApart'
  <2>1. \A i \in RowsOf("message") : log'[i] = log[i] /\ \A c \in log[i].calls : c[1] # k
    BY <1>2, <1>5, <1>6 DEF CallInv, TodoInv, CallsNumbered
  <2>2. ASSUME NEW i \in RowsOf("message")', NEW j \in RowsOf("message")',
               NEW c, c \in log'[i].calls, c \in log'[j].calls
        PROVE  i = j
    <3>1. CASE i \in RowsOf("message") /\ j \in RowsOf("message")
      <4>1. c \in log[i].calls \cap log[j].calls
        BY <2>1, <2>2, <3>1
      <4>2. QED
        BY <3>1, <4>1 DEF CallInv, RowInv, MessagesApart
    <3>2. CASE i = N /\ j \in RowsOf("message")
      BY <1>4, <1>5, <2>1, <2>2, <3>2
    <3>3. CASE i \in RowsOf("message") /\ j = N
      BY <1>4, <1>5, <2>1, <2>2, <3>3
    <3>4. QED
      BY <1>5, <3>1, <3>2, <3>3
  <2>3. QED
    BY <2>2 DEF MessagesApart
<1>14. ResultsInOrder'
  BY <1>5, <1>6 DEF CallInv, RowInv, ResultsInOrder
<1>15. QED
  BY <1>8, <1>9, <1>11, <1>12, <1>13, <1>14 DEF CallInv, TodoInv, RowInv

LEMMA ToolKeepsCalls ==
    ASSUME HistTypes, BatchInHand, CallInv, NEW a \in Agents, CallTool(a)
    PROVE  CallInv'
<1> DEFINE c == Head(todo[a])
           r == ToolRow(c, batch[a][c[2]])
           N == Len(log) + 1
<1>1. /\ AppendMessage(r) /\ todo' = [todo EXCEPT ![a] = Tail(@)] /\ UNCHANGED <<replies, batch>>
      /\ stage[a] = "tools"
  BY DEF CallTool
<1>2. /\ todo[a] \in Seq(Nat \X Nat) /\ todo[a] # <<>> /\ log \in Seq(LogRow)
      /\ \A i \in DOMAIN todo[a] : todo[a][i][2] \in DOMAIN batch[a]
  BY <1>1 DEF HistTypes, BatchInHand
<1>3. /\ 1 \in DOMAIN todo[a] /\ c = todo[a][1] /\ c \in Nat \X Nat
      /\ \A i \in DOMAIN Tail(todo[a]) :
            i \in Nat /\ i + 1 \in DOMAIN todo[a] /\ Tail(todo[a])[i] = todo[a][i + 1]
  <2> DEFINE t == todo[a]
  <2>1. t \in Seq(Nat \X Nat) /\ t # <<>>
    BY <1>2
  <2> HIDE DEF t
  <2>2. /\ 1 \in DOMAIN t /\ Head(t) = t[1] /\ t[1] \in Nat \X Nat
        /\ \A i \in DOMAIN Tail(t) : i \in Nat /\ i + 1 \in DOMAIN t /\ Tail(t)[i] = t[i + 1]
    BY <2>1, TailIs, Zenon
  <2>3. QED
    BY <2>2, Zenon DEF t
<1>4. r \in LogRow
  <2>1. batch[a] \in Batches /\ c[2] \in DOMAIN batch[a]
    BY <1>2, <1>3 DEF HistTypes
  <2>2. batch[a][c[2]] \in Tools
    BY <2>1, BatchIs
  <2>3. QED
    BY <1>3, <2>2, Kinds
<1>5. r.kind = "tool_call" /\ r.call = c
  BY DEF ToolRow
<1> HIDE DEF r
<1>6. /\ RowsOf("message")' = RowsOf("message")
      /\ RowsOf("tool_call")' \subseteq RowsOf("tool_call") \cup {N}
      /\ \A i \in DOMAIN log : log'[i] = log[i]
      /\ N \in RowsOf("tool_call")' => log'[N] = r
      /\ N \in Nat /\ \A i \in DOMAIN log : i \in Nat /\ i < N
  <2>1. N \in Nat /\ (\A i \in DOMAIN log : i \in Nat /\ i < N) /\ N \notin DOMAIN log
    BY <1>2
  <2>2. CASE log' = log
    BY <2>1, <2>2 DEF RowsOf
  <2>3. CASE log' = Append(log, r)
    <3>1. /\ \A i \in DOMAIN log : log'[i] = log[i]
          /\ log'[Len(log) + 1] = r
          /\ \A kind : RowsOf(kind)' = RowsOf(kind) \cup (IF r.kind = kind THEN {Len(log) + 1} ELSE {})
      BY ONLY <1>2, <1>4, <2>3, RowsGrow
    <3>2. QED
      BY <1>5, <2>1, <3>1
  <2>4. QED
    BY <1>1, <2>2, <2>3 DEF AppendMessage, r
<1>7. \A kind : RowsOf(kind) \subseteq DOMAIN log
  BY DEF RowsOf
<1>8. /\ \A i \in DOMAIN todo'[a] :
            i \in Nat /\ i + 1 \in DOMAIN todo[a] /\ todo'[a][i] = todo[a][i + 1]
      /\ \A e \in Agents : e # a => todo'[e] = todo[e]
  <2>1. todo'[a] = Tail(todo[a]) /\ \A e \in Agents : e # a => todo'[e] = todo[e]
    BY <1>1 DEF HistTypes
  <2>2. QED
    BY <1>3, <2>1
<1>9. \A i \in DOMAIN todo'[a] : todo'[a][i][1] = c[1] /\ c[2] < todo'[a][i][2]
  <2> SUFFICES ASSUME NEW i \in DOMAIN todo'[a]
               PROVE  todo'[a][i][1] = c[1] /\ c[2] < todo'[a][i][2]
    OBVIOUS
  <2>1. i \in Nat /\ i + 1 \in DOMAIN todo[a] /\ todo'[a][i] = todo[a][i + 1] /\ i + 1 > 1
    <3>1. i # 0
      BY <1>1, <1>2 DEF HistTypes
    <3>2. QED
      BY <1>8, <3>1
  <2>2. QED
    BY <1>3, <2>1 DEF CallInv, TodoInv, TodoInOrder
<1> HIDE DEF c, N
<1>10. CallsNumbered'
  <2>1. c[1] \in 1 .. replies
    BY <1>3 DEF CallInv, TodoInv, CallsNumbered
  <2>2. \A e \in Agents : \A i \in DOMAIN todo'[e] : todo'[e][i][1] \in 1 .. replies
    BY <1>8, <1>9, <2>1 DEF CallInv, TodoInv, CallsNumbered
  <2>3. \A i \in RowsOf("message") :
           IsFiniteSet(log'[i].calls) /\ \E k \in 1 .. replies : \A d \in log'[i].calls : d[1] = k
    BY <1>6, <1>7 DEF CallInv, TodoInv, CallsNumbered
  <2>4. \A i \in RowsOf("tool_call")' : log'[i].call[1] \in 1 .. replies
    BY <1>5, <1>6, <1>7, <2>1 DEF CallInv, TodoInv, CallsNumbered
  <2>5. QED
    BY <1>1, <1>6, <2>2, <2>3, <2>4 DEF CallsNumbered
<1>11. TodoInOrder'
  <2>1. ASSUME NEW i \in DOMAIN todo'[a], NEW j \in DOMAIN todo'[a], i < j
        PROVE  todo'[a][i][1] = todo'[a][j][1] /\ todo'[a][i][2] < todo'[a][j][2]
    <3>1. i + 1 < j + 1
      BY <1>8, <2>1
    <3>2. QED
      BY <1>8, <3>1 DEF CallInv, TodoInv, TodoInOrder
  <2>2. QED
    BY <1>8, <2>1 DEF CallInv, TodoInv, TodoInOrder
<1>12. TodoApart'
  <2> SUFFICES ASSUME NEW d \in Agents, NEW e \in Agents, NEW i \in DOMAIN todo'[d],
                      NEW j \in DOMAIN todo'[e], todo'[d][i][1] = todo'[e][j][1]
               PROVE  d = e
    BY DEF TodoApart
  <2>1. PICK x \in DOMAIN todo[d] : todo[d][x] = todo'[d][i]
    BY <1>8
  <2>2. PICK y \in DOMAIN todo[e] : todo[e][y] = todo'[e][j]
    BY <1>8
  <2>3. QED
    BY <2>1, <2>2 DEF CallInv, TodoInv, TodoApart
<1>13. TodoIsAhead'
  <2> SUFFICES ASSUME NEW d \in Agents, NEW i \in DOMAIN todo'[d], NEW j \in RowsOf("tool_call")',
                      log'[j].call[1] = todo'[d][i][1]
               PROVE  log'[j].call[2] < todo'[d][i][2]
    BY DEF TodoIsAhead
  <2>1. PICK x \in DOMAIN todo[d] : todo[d][x] = todo'[d][i]
    BY <1>8
  <2>2. CASE j \in RowsOf("tool_call")
    <3>1. log'[j] = log[j]
      BY <1>6, <1>7, <2>2
    <3>2. QED
      BY <2>1, <2>2, <3>1 DEF CallInv, TodoInv, TodoIsAhead
  <2>3. CASE j = N
    <3>1. log'[j].call = c
      BY <1>5, <1>6, <2>3
    <3>2. d = a
      BY <1>3, <2>1, <3>1 DEF CallInv, TodoInv, TodoApart
    <3>3. QED
      BY <1>9, <3>1, <3>2
  <2>4. QED
    BY <1>6, <2>2, <2>3
<1>14. MessagesApart'
  BY <1>6, <1>7 DEF CallInv, RowInv, MessagesApart
<1>15. ResultsInOrder'
  <2> SUFFICES ASSUME NEW i \in RowsOf("tool_call")', NEW j \in RowsOf("tool_call")',
                      i < j, log'[i].call[1] = log'[j].call[1]
               PROVE  log'[i].call[2] < log'[j].call[2]
    BY DEF ResultsInOrder
  <2>1. i \in RowsOf("tool_call") /\ log'[i] = log[i]
    <3>1. CASE i \in RowsOf("tool_call")
      BY <1>6, <1>7, <3>1
    <3>2. CASE i = N
      BY <1>6, <1>7, <3>2
    <3>3. QED
      BY <1>6, <3>1, <3>2
  <2>2. CASE j \in RowsOf("tool_call")
    <3>1. log'[j] = log[j]
      BY <1>6, <1>7, <2>2
    <3>2. QED
      BY <2>1, <2>2, <3>1 DEF CallInv, RowInv, ResultsInOrder
  <2>3. CASE j = N
    <3>1. log'[j].call = c
      BY <1>5, <1>6, <2>3
    <3>2. QED
      BY <1>3, <2>1, <3>1 DEF CallInv, TodoInv, TodoIsAhead
  <2>4. QED
    BY <1>6, <2>2, <2>3
<1>16. QED
  BY <1>10, <1>11, <1>12, <1>13, <1>14, <1>15 DEF CallInv, TodoInv, RowInv

LEMMA CallInvStep ==
    ASSUME HistInv, CallInv, [HistoryNext]_historyVars
    PROVE  CallInv'
<1>0. HistTypes /\ BatchInHand
  BY DEF HistInv
<1>1. CASE QueuesOntoLive \/ RewakeQueues \/ RewakeDispatches \/ Stop
  <2>1. UNCHANGED <<log, todo, replies>>
    BY <1>1 DEF QueuesOntoLive, RewakeQueues, RewakeDispatches, Stop, agentLocals
  <2>2. QED
    BY <1>0, <2>1, CallsQuiet
<1>2. CASE RewakeLogs
  <2>1. UNCHANGED <<todo, replies>> /\ (log' = log \/ log' = Append(log, Event(events)))
    BY <1>2 DEF RewakeLogs, AppendMessage, agentLocals
  <2>2. events \in Nat
    BY <1>0 DEF HistTypes
  <2>3. QED
    BY <1>0, <2>1, <2>2, CallsQuiet
<1>3. ASSUME NEW a \in Agents,
             LoadsHistory(a) \/ ReadsInputs(a) \/ HandleEvent(a) \/ Exit(a) \/ Fold(a)
             \/ CallFails(a) \/ Dies(a)
      PROVE  CallInv'
  <2>1. UNCHANGED <<log, replies>>
    BY <1>3 DEF LoadsHistory, ReadsInputs, HandleEvent, Exit, Fold, CallFails, Dies, counters
  <2>2. todo' = todo \/ todo' = [todo EXCEPT ![a] = <<>>]
    BY <1>3 DEF LoadsHistory, ReadsInputs, HandleEvent, Exit, Fold, CallFails, Dies, Leave
  <2>3. \A b \in Agents : todo'[b] = todo[b] \/ todo'[b] = <<>>
    BY <1>0, <2>2 DEF HistTypes
  <2>4. QED
    BY <1>0, <2>1, <2>3, CallsQuiet
<1>4. ASSUME NEW a \in Agents, Reply(a) PROVE CallInv'
  BY <1>0, <1>4, ReplyKeepsCalls
<1>5. ASSUME NEW a \in Agents, CallTool(a) PROVE CallInv'
  BY <1>0, <1>5, ToolKeepsCalls
<1>6. CASE UNCHANGED historyVars
  <2>1. UNCHANGED <<log, todo, replies>>
    BY <1>6 DEF historyVars
  <2>2. QED
    BY <1>0, <2>1, CallsQuiet
<1>7. QED
  BY <1>1, <1>2, <1>3, <1>4, <1>5, <1>6 DEF HistoryNext

LEMMA CallInvariant == HistorySpec => []CallInv
<1>1. HistoryInit => CallInv
  BY CallInit
<1>2. HistInv /\ CallInv /\ [HistoryNext]_historyVars => CallInv'
  BY CallInvStep
<1>3. QED
  BY <1>1, <1>2, HistInvariant, PTL DEF HistorySpec

----------------------------------------------------------------------------
(* Conversations the provider accepts.                                      *)

ItemsBehind(s, i, k) == {s[j] : j \in i + 1 .. i + k}
ResultsOf(cs) == {Tool(c) : c \in cs}

\* The place of item i is one the provider accepts.
Placed(s, i) ==
    /\ s[i].kind = "message" =>
          /\ i + Cardinality(s[i].calls) <= Len(s)
          /\ ItemsBehind(s, i, Cardinality(s[i].calls)) = ResultsOf(s[i].calls)
    /\ s[i].kind = "tool" =>
          \E j \in 1 .. i - 1 :
             /\ s[j].kind = "message" /\ s[i].call \in s[j].calls
             /\ i - j <= Cardinality(s[j].calls)

LEMMA WellFormedIs == \A s : WellFormed(s) <=> \A i \in DOMAIN s : Placed(s, i)
BY DEF WellFormed, Placed, ItemsBehind, ResultsOf

\* Messages carry finitely many calls.
Countable(V) == \A x \in V : x.kind = "message" => Cardinality(x.calls) \in Nat

\* What is placed stays so when items are appended.
LEMMA WellFormedGrows ==
    ASSUME NEW V, Countable(V), NEW s \in Seq(V), NEW u \in Seq(V), WellFormed(s),
           Len(s) <= Len(u), \A i \in 1 .. Len(s) : u[i] = s[i],
           \A i \in Len(s) + 1 .. Len(u) : Placed(u, i)
    PROVE  WellFormed(u)
<1>1. Len(s) \in Nat /\ DOMAIN s = 1 .. Len(s) /\ Len(u) \in Nat /\ DOMAIN u = 1 .. Len(u)
  OBVIOUS
<1>2. ASSUME NEW i \in 1 .. Len(s) PROVE Placed(u, i)
  <2>1. Placed(s, i) /\ u[i] = s[i]
    BY <1>1, WellFormedIs
  <2>2. ASSUME s[i].kind = "message"
        PROVE  /\ i + Cardinality(s[i].calls) <= Len(u)
               /\ ItemsBehind(u, i, Cardinality(s[i].calls)) = ResultsOf(s[i].calls)
    <3> DEFINE k == Cardinality(s[i].calls)
    <3>1. k \in Nat /\ i + k <= Len(s) /\ ItemsBehind(s, i, k) = ResultsOf(s[i].calls)
      BY <1>1, <2>1, <2>2 DEF Countable, Placed
    <3> HIDE DEF k
    <3>2. \A j \in i + 1 .. i + k : u[j] = s[j]
      BY <1>1, <3>1
    <3>3. ItemsBehind(u, i, k) = ItemsBehind(s, i, k)
      BY <3>2 DEF ItemsBehind
    <3>4. i + k <= Len(u)
      BY <1>1, <3>1
    <3>5. QED
      BY <3>1, <3>3, <3>4 DEF k
  <2>3. ASSUME s[i].kind = "tool"
        PROVE  \E j \in 1 .. i - 1 :
                  /\ u[j].kind = "message" /\ u[i].call \in u[j].calls
                  /\ i - j <= Cardinality(u[j].calls)
    <3>1. PICK j \in 1 .. i - 1 :
             /\ s[j].kind = "message" /\ s[i].call \in s[j].calls
             /\ i - j <= Cardinality(s[j].calls)
      BY <2>1, <2>3 DEF Placed
    <3>2. u[j] = s[j]
      BY <1>1, <3>1
    <3>3. QED
      BY <2>1, <3>1, <3>2
  <2>4. QED
    BY <2>1, <2>2, <2>3 DEF Placed
<1>3. \A i \in DOMAIN u : Placed(u, i)
  <2>1. \A i \in DOMAIN u : i \in 1 .. Len(s) \/ i \in Len(s) + 1 .. Len(u)
    BY <1>1
  <2>2. QED
    BY <1>2, <2>1
<1>4. QED
  BY <1>3, WellFormedIs

LEMMA OthersMayFollow ==
    ASSUME NEW V, Countable(V), NEW s \in Seq(V), NEW t \in Seq(V), WellFormed(s),
           \A x \in Elems(t) : x.kind \notin {"message", "tool"}
    PROVE  WellFormed(s \o t)
<1> DEFINE u == s \o t
<1>1. /\ u \in Seq(V) /\ Len(u) = Len(s) + Len(t) /\ \A i \in 1 .. Len(s) : u[i] = s[i]
      /\ \A i \in 1 .. Len(s) + Len(t) :
            i <= Len(s) \/ (i - Len(s) \in 1 .. Len(t) /\ u[i] = t[i - Len(s)])
  BY OfConcat
<1>2. Len(s) \in Nat /\ Len(t) \in Nat /\ DOMAIN t = 1 .. Len(t)
  OBVIOUS
<1> HIDE DEF u
<1>3. ASSUME NEW i \in Len(s) + 1 .. Len(u) PROVE Placed(u, i)
  <2>1. i - Len(s) \in 1 .. Len(t) /\ u[i] = t[i - Len(s)]
    BY <1>1, <1>2
  <2>2. u[i] \in Elems(t)
    BY <1>2, <2>1 DEF Elems
  <2>3. QED
    BY <2>2 DEF Placed
<1>4. Len(s) <= Len(u)
  BY <1>1, <1>2
<1>5. WellFormed(u)
  BY <1>1, <1>3, <1>4, WellFormedGrows
<1>6. QED
  BY <1>5 DEF u

LEMMA ChainMayFollow ==
    ASSUME NEW V, Countable(V), NEW s \in Seq(V), NEW m \in V, NEW t \in Seq(V), WellFormed(s),
           m.kind = "message", Elems(t) = ResultsOf(m.calls), Len(t) = Cardinality(m.calls)
    PROVE  Append(s, m) \o t \in Seq(V) /\ WellFormed(Append(s, m) \o t)
<1> DEFINE a == Append(s, m)
           u == a \o t
           N == Len(s) + 1
<1>1. /\ a \in Seq(V) /\ Len(s) \in Nat /\ Len(a) = N /\ a[N] = m
      /\ \A i \in 1 .. Len(s) : a[i] = s[i]
  BY AppendIs
<1> HIDE DEF a
<1>2. /\ Elems(a \o t) = Elems(a) \cup Elems(t)
      /\ a \o t \in Seq(V) /\ Len(a \o t) = Len(a) + Len(t)
      /\ DOMAIN (a \o t) = 1 .. Len(a) + Len(t)
      /\ \A i \in 1 .. Len(a) : (a \o t)[i] = a[i]
      /\ \A i \in 1 .. Len(t) : (a \o t)[Len(a) + i] = t[i]
      /\ \A i \in 1 .. Len(a) + Len(t) :
            i <= Len(a) \/ (i - Len(a) \in 1 .. Len(t) /\ (a \o t)[i] = t[i - Len(a)])
  <2>1. a \in Seq(V)
    BY <1>1
  <2>2. QED
    BY ONLY <2>1, t \in Seq(V), OfConcat
<1>3. /\ u \in Seq(V) /\ Len(u) = Len(a) + Len(t) /\ \A i \in 1 .. Len(a) : u[i] = a[i]
      /\ \A i \in 1 .. Len(t) : u[Len(a) + i] = t[i]
      /\ \A i \in 1 .. Len(a) + Len(t) :
            i <= Len(a) \/ (i - Len(a) \in 1 .. Len(t) /\ u[i] = t[i - Len(a)])
  BY <1>2, Zenon
<1>4. Len(t) \in Nat /\ DOMAIN t = 1 .. Len(t)
  OBVIOUS
<1> HIDE DEF u
<1>5. u[N] = m /\ N \in Nat /\ \A i \in 1 .. Len(s) : u[i] = s[i]
  BY <1>1, <1>3
<1>6. ItemsBehind(u, N, Len(t)) = Elems(t)
  <2>1. \A j \in N + 1 .. N + Len(t) : j - N \in 1 .. Len(t) /\ u[j] = t[j - N]
    BY <1>1, <1>3, <1>4, <1>5
  <2>2. \A i \in 1 .. Len(t) : N + i \in N + 1 .. N + Len(t) /\ u[N + i] = t[i]
    BY <1>1, <1>3, <1>4, <1>5
  <2> HIDE DEF N
  <2>3. ItemsBehind(u, N, Len(t)) \subseteq Elems(t)
    BY <1>4, <2>1 DEF Elems, ItemsBehind
  <2>4. Elems(t) \subseteq ItemsBehind(u, N, Len(t))
    BY <1>4, <2>2 DEF Elems, ItemsBehind
  <2>5. QED
    BY <2>3, <2>4
<1>7. Placed(u, N)
  <2>1. N + Len(t) = Len(u)
    BY <1>1, <1>3
  <2>2. ItemsBehind(u, N, Cardinality(m.calls)) = ResultsOf(m.calls)
    BY <1>6, Zenon
  <2>3. N + Cardinality(m.calls) <= Len(u)
    BY <1>4, <1>5, <2>1
  <2>4. u[N] = m
    BY <1>5
  <2> HIDE DEF N
  <2>5. QED
    BY <2>2, <2>3, <2>4 DEF Placed
<1>8. ASSUME NEW i \in N + 1 .. Len(u) PROVE Placed(u, i)
  <2>1. i - N \in 1 .. Len(t) /\ u[i] = t[i - N]
    BY <1>1, <1>3, <1>4, <1>5
  <2>2. PICK c \in m.calls : u[i] = Tool(c)
    <3>1. u[i] \in Elems(t)
      BY <1>4, <2>1 DEF Elems
    <3>2. QED
      BY <3>1 DEF ResultsOf
  <2>3. u[i].kind = "tool" /\ u[i].call = c
    BY <2>2 DEF Tool
  <2>4. N \in 1 .. i - 1 /\ i - N <= Cardinality(m.calls)
    BY <1>4, <1>5, <2>1
  <2>5. QED
    BY <1>5, <2>3, <2>4 DEF Placed
<1>9. \A i \in Len(s) + 1 .. Len(u) : Placed(u, i)
  <2>1. \A i \in Len(s) + 1 .. Len(u) : i = N \/ i \in N + 1 .. Len(u)
    BY <1>1, <1>3, <1>4
  <2>2. QED
    BY <1>7, <1>8, <2>1
<1>10. Len(s) <= Len(u)
  BY <1>1, <1>3, <1>4
<1>11. WellFormed(u)
  BY <1>3, <1>5, <1>9, <1>10, WellFormedGrows
<1>12. QED
  BY <1>3, <1>11 DEF a, u

\* Every message has its results.
LEMMA NoneDangles ==
    ASSUME NEW V, Countable(V), NEW s \in Seq(V), WellFormed(s), NEW i \in DOMAIN s
    PROVE  ~Dangling(s, i)
<1> SUFFICES ASSUME s[i].kind = "message", NEW c \in s[i].calls PROVE c \in Answered(s)
  BY DEF Dangling
<1> DEFINE k == Cardinality(s[i].calls)
<1>1. Len(s) \in Nat /\ DOMAIN s = 1 .. Len(s)
  OBVIOUS
<1>2. k \in Nat /\ i + k <= Len(s) /\ ItemsBehind(s, i, k) = ResultsOf(s[i].calls)
  BY <1>1, WellFormedIs DEF Countable, Placed
<1> HIDE DEF k
<1>3. PICK j \in i + 1 .. i + k : s[j] = Tool(c)
  BY <1>2 DEF ItemsBehind, ResultsOf
<1>4. j \in DOMAIN s /\ s[j].kind = "tool" /\ s[j].call = c
  BY <1>1, <1>2, <1>3 DEF Tool
<1>5. QED
  BY <1>4 DEF Answered

\* What is sent starts at a summary, which is no result.
LEMMA SnapshotFits ==
    ASSUME NEW V, Countable(V), NEW s \in Seq(V), WellFormed(s)
    PROVE  WellFormed(Snapshot(s))
<1> DEFINE S == {1} \cup {i \in DOMAIN s : s[i].kind = "summary"}
           k == MaxOf(S)
           u == SubSeq(s, k, Len(s))
           N == Len(s)
<1>1. N \in Nat /\ DOMAIN s = 1 .. N
  OBVIOUS
<1>2. k \in S
  <2>1. S \in SUBSET (0 .. N + 1) /\ S # {} /\ N + 1 \in Nat
    BY <1>1
  <2> HIDE DEF S
  <2>2. MaxOf(S) \in S
    BY <2>1, MaxIs, Zenon
  <2>3. QED
    BY <2>2
<1>3. k \in 1 .. N + 1 /\ (k = 1 \/ (k \in DOMAIN s /\ s[k].kind = "summary"))
  BY <1>1, <1>2
<1> HIDE DEF k
<1>4. /\ Len(u) = N + 1 - k /\ DOMAIN u = 1 .. N + 1 - k
      /\ \A i \in 1 .. N + 1 - k : u[i] = s[i + k - 1]
  BY <1>1, <1>3
<1> HIDE DEF u
<1>5. ASSUME NEW i \in DOMAIN u PROVE Placed(u, i)
  <2> DEFINE p == i + k - 1
  <2>1. p \in 1 .. N /\ u[i] = s[p] /\ i \in 1 .. N /\ p >= k
    <3>1. i \in 1 .. N + 1 - k
      BY <1>4
    <3>2. u[i] = s[p]
      BY <1>4, <3>1
    <3>3. QED
      BY <1>1, <1>3, <3>1, <3>2
  <2>2. Placed(s, p)
    BY <1>1, <2>1, WellFormedIs
  <2>3. ASSUME u[i].kind = "message"
        PROVE  /\ i + Cardinality(u[i].calls) <= Len(u)
               /\ ItemsBehind(u, i, Cardinality(u[i].calls)) = ResultsOf(u[i].calls)
    <3> DEFINE n == Cardinality(u[i].calls)
    <3>1. n \in Nat /\ p + n <= N /\ ItemsBehind(s, p, n) = ResultsOf(u[i].calls)
      BY <1>1, <2>1, <2>2, <2>3 DEF Countable, Placed
    <3> HIDE DEF n
    <3>2. i + n <= Len(u)
      BY <1>1, <1>3, <1>4, <2>1, <3>1
    <3>3. \A j \in i + 1 .. i + n : j + k - 1 \in p + 1 .. p + n /\ u[j] = s[j + k - 1]
      <4>1. \A j \in i + 1 .. i + n : j \in 1 .. N + 1 - k
        BY <1>1, <1>3, <1>4, <2>1, <3>1, <3>2
      <4>2. \A j \in i + 1 .. i + n : u[j] = s[j + k - 1]
        BY <1>4, <4>1
      <4>3. \A j \in i + 1 .. i + n : j + k - 1 \in p + 1 .. p + n
        BY <1>1, <1>3, <2>1, <3>1
      <4>4. QED
        BY <4>2, <4>3
    <3>4. \A j \in p + 1 .. p + n : j - k + 1 \in i + 1 .. i + n /\ u[j - k + 1] = s[j]
      <4> TAKE j \in p + 1 .. p + n
      <4> DEFINE q == j - k + 1
      <4>1. q \in i + 1 .. i + n /\ q + k - 1 = j
        BY <1>3, <2>1, <3>1
      <4> HIDE DEF q
      <4>2. u[q] = s[j]
        BY <3>3, <4>1
      <4>3. QED
        BY <4>1, <4>2 DEF q
    <3> HIDE DEF p
    <3>5. ItemsBehind(u, i, n) = ItemsBehind(s, p, n)
      BY <3>3, <3>4 DEF ItemsBehind
    <3>6. QED
      BY <3>1, <3>2, <3>5 DEF n
  <2>4. ASSUME u[i].kind = "tool"
        PROVE  \E j \in 1 .. i - 1 :
                  /\ u[j].kind = "message" /\ u[i].call \in u[j].calls
                  /\ i - j <= Cardinality(u[j].calls)
    <3>1. PICK j \in 1 .. p - 1 :
             /\ s[j].kind = "message" /\ s[p].call \in s[j].calls
             /\ p - j <= Cardinality(s[j].calls)
      BY <2>1, <2>2, <2>4 DEF Placed
    <3> DEFINE n == Cardinality(s[j].calls)
    <3>2. j \in DOMAIN s /\ Placed(s, j)
      BY <1>1, <2>1, <3>1, WellFormedIs
    <3>3. n \in Nat /\ ItemsBehind(s, j, n) = ResultsOf(s[j].calls)
      BY <1>1, <3>1, <3>2 DEF Countable, Placed
    <3>4. p - j <= n
      BY <3>1
    <3> HIDE DEF n
    <3>5. j >= k
      <4>1. CASE k = 1
        BY <3>1, <4>1
      <4>2. CASE s[k].kind = "summary"
        <5> SUFFICES ASSUME j < k PROVE FALSE
          BY <1>3, <3>1
        <5>1. k \in j + 1 .. j + n
          BY <1>3, <2>1, <3>1, <3>3, <3>4
        <5>2. PICK c \in s[j].calls : s[k] = Tool(c)
          BY <3>3, <5>1 DEF ItemsBehind, ResultsOf
        <5>3. QED
          BY <4>2, <5>2 DEF Tool
      <4>3. QED
        BY <1>3, <4>1, <4>2
    <3> DEFINE q == j - k + 1
    <3>6. q \in 1 .. i - 1 /\ u[q] = s[j] /\ i - q = p - j
      <4>1. j \in Nat /\ k \in Nat /\ i \in Nat /\ N \in Nat /\ j <= i + k - 2 /\ j >= k /\ j <= N
        BY <1>1, <1>3, <2>1, <3>1, <3>5
      <4>2. q \in 1 .. i - 1 /\ q \in 1 .. N + 1 - k /\ q + k - 1 = j /\ i - q = p - j
        BY <4>1
      <4>3. u[q] = s[q + k - 1]
        BY <1>4, <4>2
      <4>4. QED
        BY <4>2, <4>3
    <3>7. QED
      BY <2>1, <3>1, <3>6
  <2>5. QED
    BY <2>3, <2>4 DEF Placed
<1>6. WellFormed(u)
  BY <1>5, WellFormedIs
<1>7. Snapshot(s) = u
  BY DEF Snapshot, k, u
<1>8. QED
  BY <1>6, <1>7

\* Both trims leave what has no dangling message.
LEMMA TrimsLeaveWellFormed ==
    ASSUME NEW V, Countable(V), NEW s \in Seq(V), WellFormed(s)
    PROVE  TrimDanglingToolCallsProto(s) = s /\ TrimDanglingToolCalls(s) = s
<1> DEFINE N == Len(s)
<1>1. N \in Nat /\ DOMAIN s = 1 .. N /\ SubSeq(s, 1, N) = s
  OBVIOUS
<1>2. \A i \in DOMAIN s : ~Dangling(s, i)
  BY NoneDangles
<1>3. TrimDanglingToolCallsProto(s) = s
  <2> DEFINE stop == MaxOf({0} \cup {i \in DOMAIN s : s[i].kind # "summary" /\ ~Dangling(s, i)})
             C    == {N + 1} \cup {i \in DOMAIN s : i > stop /\ Dangling(s, i)}
  <2>1. C = {N + 1}
    BY <1>2
  <2>2. MinOf({N + 1}) = N + 1
    <3>1. {N + 1} \in SUBSET Nat /\ {N + 1} # {}
      BY <1>1
    <3>2. MinOf({N + 1}) \in {N + 1}
      BY <3>1, MinIs, Zenon
    <3>3. QED
      BY <3>2
  <2>3. TrimDanglingToolCallsProto(s) = SubSeq(s, 1, MinOf(C) - 1)
    BY DEF TrimDanglingToolCallsProto
  <2> HIDE DEF C
  <2>4. TrimDanglingToolCallsProto(s) = SubSeq(s, 1, (N + 1) - 1)
    BY <2>1, <2>2, <2>3, Zenon
  <2>5. (N + 1) - 1 = N
    BY <1>1
  <2>6. QED
    BY <1>1, <2>4, <2>5, Zenon
<1>4. TrimDanglingToolCalls(s) = s
  <2> DEFINE S == {0} \cup {i \in DOMAIN s : ~Dangling(s, i)}
  <2>1. S = 0 .. N
    BY <1>1, <1>2
  <2>2. MaxOf(0 .. N) = N
    <3>1. 0 .. N \in SUBSET (0 .. N) /\ 0 .. N # {} /\ N \in 0 .. N
      BY <1>1
    <3>2. MaxOf(0 .. N) \in 0 .. N /\ \A k \in 0 .. N : k <= MaxOf(0 .. N)
      BY <1>1, <3>1, MaxIs
    <3>3. QED
      BY <1>1, <3>1, <3>2
  <2>3. TrimDanglingToolCalls(s) = SubSeq(s, 1, MaxOf(S))
    BY DEF TrimDanglingToolCalls
  <2>4. QED
    BY <1>1, <2>1, <2>2, <2>3
<1>5. QED
  BY <1>3, <1>4

\* And they cut a message at the end that has no result.
LEMMA TrimCutsLast ==
    ASSUME NEW V, Countable(V), NEW s \in Seq(V), NEW m \in V, WellFormed(s),
           m.kind = "message", ~(m.calls \subseteq Answered(s))
    PROVE  TrimDanglingToolCallsProto(Append(s, m)) = s
<1> DEFINE N == Len(s)
           t == Append(s, m)
<1>1. /\ N \in Nat /\ DOMAIN s = 1 .. N /\ DOMAIN t = 1 .. N + 1 /\ Len(t) = N + 1
      /\ t[N + 1] = m /\ \A i \in 1 .. N : t[i] = s[i]
  BY AppendIs
<1>2. SubSeq(t, 1, N) = s
  OBVIOUS
<1> HIDE DEF t
<1>3. Answered(t) = Answered(s)
  <2>1. \A j \in DOMAIN t : t[j].kind = "tool" => j \in DOMAIN s /\ t[j] = s[j]
    BY <1>1
  <2>2. \A j \in DOMAIN s : j \in DOMAIN t /\ t[j] = s[j]
    BY <1>1
  <2>3. QED
    BY <2>1, <2>2 DEF Answered
<1>4. Dangling(t, N + 1)
  BY <1>1, <1>3 DEF Dangling
<1>5. \A i \in 1 .. N : ~Dangling(t, i)
  <2>1. \A i \in 1 .. N : ~Dangling(s, i)
    BY <1>1, NoneDangles
  <2>2. QED
    BY <1>1, <1>3, <2>1 DEF Dangling
<1> DEFINE S    == {0} \cup {i \in DOMAIN t : t[i].kind # "summary" /\ ~Dangling(t, i)}
           stop == MaxOf(S)
           C    == {Len(t) + 1} \cup {i \in DOMAIN t : i > stop /\ Dangling(t, i)}
<1>6. stop \in 0 .. N
  <2>1. S \in SUBSET (0 .. N) /\ S # {}
    BY <1>1, <1>4
  <2> HIDE DEF S
  <2>2. QED
    BY <1>1, <2>1, MaxIs
<1> HIDE DEF stop
<1>7. C = {N + 2, N + 1}
  <2>1. {i \in DOMAIN t : i > stop /\ Dangling(t, i)} = {N + 1}
    BY <1>1, <1>4, <1>5, <1>6
  <2>2. QED
    BY <1>1, <2>1
<1>8. MinOf({N + 2, N + 1}) = N + 1
  <2>1. {N + 2, N + 1} \in SUBSET Nat
    BY <1>1
  <2>2. MinOf({N + 2, N + 1}) \in {N + 2, N + 1} /\ MinOf({N + 2, N + 1}) <= N + 1
    BY <2>1, MinIs
  <2>3. QED
    BY <1>1, <2>2
<1>9. TrimDanglingToolCallsProto(t) = SubSeq(t, 1, MinOf(C) - 1)
  BY DEF TrimDanglingToolCallsProto, stop
<1>10. TrimDanglingToolCallsProto(t) = SubSeq(t, 1, N)
  <2> HIDE DEF C, N
  <2>1. TrimDanglingToolCallsProto(t) = SubSeq(t, 1, (N + 1) - 1)
    BY <1>7, <1>8, <1>9, Zenon
  <2>2. (N + 1) - 1 = N
    BY <1>1
  <2>3. QED
    BY <2>1, <2>2, Zenon
<1>11. QED
  BY <1>2, <1>10 DEF t

----------------------------------------------------------------------------
(* An orderly log, row by row.                                              *)

AnsweredBy(n) == {log[i].call : i \in {j \in 1 .. n : log[j].kind = "tool_call"}}
MessagesBy(n) == {i \in 1 .. n : log[i].kind = "message"}
Fine == {x \in Shown : x.kind = "message" => Cardinality(x.calls) \in Nat}

LEMMA FineIs ==
    ASSUME HistTypes, CallInv
    PROVE  /\ Countable(Fine) /\ Summary \in Fine
           /\ Len(log) \in Nat /\ DOMAIN log = 1 .. Len(log)
           /\ \A n \in 1 .. Len(log) :
                 /\ log[n].kind \in {"event", "message", "tool_call"}
                 /\ log[n].kind # "tool_call" => log[n] \in Fine
                 /\ log[n].kind = "message" => log[n].calls \in SUBSET (Nat \X Nat)
                                                /\ IsFiniteSet(log[n].calls)
                 /\ log[n].kind = "tool_call" => log[n].call \in Nat \X Nat
                                                  /\ Tool(log[n].call) \in Fine
<1>1. Len(log) \in Nat /\ DOMAIN log = 1 .. Len(log) /\ \A n \in 1 .. Len(log) : log[n] \in LogRow
  BY DEF HistTypes
<1>2. Countable(Fine) /\ Summary \in Fine
  <2>1. Summary \in Shown
    BY Kinds
  <2>2. QED
    BY <2>1 DEF Fine, Countable, Summary
<1>3. \A c : Tool(c).kind = "tool"
  BY DEF Tool
<1>4. ASSUME NEW n \in 1 .. Len(log)
      PROVE  /\ log[n].kind \in {"event", "message", "tool_call"}
             /\ log[n].kind # "tool_call" => log[n] \in Fine
             /\ log[n].kind = "message" => log[n].calls \in SUBSET (Nat \X Nat)
                                            /\ IsFiniteSet(log[n].calls)
             /\ log[n].kind = "tool_call" => log[n].call \in Nat \X Nat /\ Tool(log[n].call) \in Fine
  <2>1. CASE \E k \in Nat : log[n] = Event(k)
    <3>1. log[n].kind = "event" /\ log[n] \in Shown
      BY <1>1, <2>1, Kinds DEF Event
    <3>2. QED
      BY <3>1 DEF Fine
  <2>2. CASE \E cs \in SUBSET (Nat \X Nat) : log[n] = Message(cs)
    <3>1. log[n].kind = "message" /\ log[n] \in Shown /\ log[n].calls \in SUBSET (Nat \X Nat)
      BY <1>1, <2>2, Kinds DEF Message
    <3>2. IsFiniteSet(log[n].calls)
      BY <1>1, <3>1 DEF CallInv, TodoInv, CallsNumbered, RowsOf
    <3>3. Cardinality(log[n].calls) \in Nat
      BY <3>2, FS_CardinalityType
    <3>4. QED
      BY <3>1, <3>2, <3>3 DEF Fine
  <2>3. CASE \E c \in Nat \X Nat, t \in Tools : log[n] = ToolRow(c, t)
    <3>1. PICK c \in Nat \X Nat, t \in Tools : log[n] = ToolRow(c, t)
      BY <2>3
    <3>2. log[n].kind = "tool_call" /\ log[n].call = c
      BY <3>1 DEF ToolRow
    <3>3. Tool(c) \in Fine
      BY <1>3, Kinds DEF Fine
    <3>4. QED
      BY <3>2, <3>3
  <2>4. QED
    BY <1>1, <2>1, <2>2, <2>3 DEF LogRow
<1>5. QED
  BY <1>1, <1>2, <1>4

\* One more row.
LEMMA RowsBy ==
    ASSUME HistTypes, CallInv, NEW n \in 1 .. Len(log)
    PROVE  /\ n - 1 \in 0 .. Len(log)
           /\ AnsweredBy(n) = AnsweredBy(n - 1) \cup
                 (IF log[n].kind = "tool_call" THEN {log[n].call} ELSE {})
           /\ MessagesBy(n) = MessagesBy(n - 1) \cup (IF log[n].kind = "message" THEN {n} ELSE {})
           /\ \A i \in MessagesBy(n - 1) : i < n
<1>1. Len(log) \in Nat /\ 1 .. n = (1 .. n - 1) \cup {n} /\ \A i \in 1 .. n - 1 : i < n
  BY FineIs
<1>2. AnsweredBy(n) = AnsweredBy(n - 1) \cup (IF log[n].kind = "tool_call" THEN {log[n].call} ELSE {})
  BY <1>1 DEF AnsweredBy
<1>3. MessagesBy(n) = MessagesBy(n - 1) \cup (IF log[n].kind = "message" THEN {n} ELSE {})
  BY <1>1 DEF MessagesBy
<1>4. QED
  BY <1>1, <1>2, <1>3 DEF MessagesBy

\* No result comes twice.
LEMMA ResultIsNew ==
    ASSUME HistTypes, CallInv, NEW n \in 1 .. Len(log), log[n].kind = "tool_call"
    PROVE  log[n].call \notin AnsweredBy(n - 1)
<1> SUFFICES ASSUME NEW i \in 1 .. n - 1, log[i].kind = "tool_call", log[i].call = log[n].call
             PROVE  FALSE
  BY DEF AnsweredBy
<1>1. i \in RowsOf("tool_call") /\ n \in RowsOf("tool_call") /\ i < n
  BY FineIs DEF RowsOf
<1>2. log[i].call[2] < log[n].call[2]
  BY <1>1 DEF CallInv, RowInv, ResultsInOrder
<1>3. log[n].call \in Nat \X Nat
  BY FineIs
<1>4. log[n].call[2] \in Nat
  BY <1>3
<1>5. QED
  BY <1>2, <1>4

\* It is one of the last message's.
LEMMA ResultHasMessage ==
    ASSUME HistTypes, CallInv, Orderly, NEW n \in 1 .. Len(log), log[n].kind = "tool_call"
    PROVE  \E L \in MessagesBy(n - 1) :
              log[n].call \in log[L].calls /\ \A k \in MessagesBy(n - 1) : k <= L
<1>1. n \in RowsOf("tool_call") /\ Len(log) \in Nat /\ DOMAIN log = 1 .. Len(log)
  BY FineIs DEF RowsOf
<1>2. PICK L \in RowsOf("message") :
         /\ L < n /\ log[n].call \in log[L].calls
         /\ \A k \in RowsOf("message") : ~(L < k /\ k < n)
  BY <1>1 DEF Orderly
<1>3. L \in MessagesBy(n - 1)
  BY <1>1, <1>2 DEF RowsOf, MessagesBy
<1>4. ASSUME NEW k \in MessagesBy(n - 1) PROVE k <= L
  <2>1. k \in RowsOf("message") /\ k < n /\ k \in Nat /\ L \in Nat
    BY <1>1, <1>3 DEF RowsOf, MessagesBy
  <2>2. QED
    BY <1>2, <2>1
<1>5. QED
  BY <1>2, <1>3, <1>4

\* A message comes before its results, and behind those of the message before.
LEMMA MessageIsNew ==
    ASSUME HistTypes, CallInv, Orderly, NEW n \in 1 .. Len(log), log[n].kind = "message"
    PROVE  log[n].calls \cap AnsweredBy(n) = {}
<1> SUFFICES ASSUME NEW i \in 1 .. n, log[i].kind = "tool_call", log[i].call \in log[n].calls
             PROVE  FALSE
  BY DEF AnsweredBy
<1>1. i \in RowsOf("tool_call") /\ n \in RowsOf("message") /\ i \in 1 .. Len(log) /\ i <= n
  BY FineIs DEF RowsOf
<1>2. PICK L \in RowsOf("message") : L < i /\ log[i].call \in log[L].calls
  BY <1>1 DEF Orderly
<1>3. L = n
  BY <1>1, <1>2 DEF CallInv, RowInv, MessagesApart
<1>4. QED
  BY <1>1, <1>2, <1>3

LEMMA MessageBeforeIsDone ==
    ASSUME HistTypes, CallInv, Orderly, NEW n \in 1 .. Len(log), log[n].kind = "message",
           NEW L \in MessagesBy(n - 1)
    PROVE  log[L].calls \subseteq AnsweredBy(n - 1)
<1>1. /\ n \in RowsOf("message") /\ L \in RowsOf("message") /\ L < n /\ L \in Nat
      /\ DOMAIN log = 1 .. Len(log) /\ Len(log) \in Nat
  BY FineIs DEF RowsOf, MessagesBy
<1>2. AnsweredIn(L) = log[L].calls
  BY <1>1 DEF Orderly
<1> SUFFICES ASSUME NEW d \in log[L].calls PROVE d \in AnsweredBy(n - 1)
  OBVIOUS
<1>3. PICK j \in RowsOf("tool_call") : log[j].call = d
  BY <1>2 DEF AnsweredIn
<1>4. j \in 1 .. Len(log) /\ log[j].kind = "tool_call" /\ j # n
  BY <1>1, <1>3 DEF RowsOf
<1>5. ~(n < j)
  <2> SUFFICES ASSUME n < j PROVE FALSE
    OBVIOUS
  <2>1. PICK k \in RowsOf("message") :
           /\ k < j /\ d \in log[k].calls /\ \A i \in RowsOf("message") : ~(k < i /\ i < j)
    BY <1>3 DEF Orderly
  <2>2. k = L
    BY <1>1, <2>1 DEF CallInv, RowInv, MessagesApart
  <2>3. QED
    BY <1>1, <2>1, <2>2
<1>6. j \in 1 .. n - 1
  BY <1>1, <1>4, <1>5
<1>7. QED
  BY <1>3, <1>4, <1>6 DEF AnsweredBy

\* compact_session is the last of its batch.
LEMMA CompactIsLast ==
    ASSUME HistTypes, CallInv, Orderly, NEW n \in 1 .. Len(log), log[n].kind = "tool_call",
           log[n].name = "compact", NEW L \in MessagesBy(n - 1), log[n].call \in log[L].calls
    PROVE  log[L].calls \subseteq AnsweredBy(n)
<1>1. /\ n \in RowsOf("tool_call") /\ L \in RowsOf("message")
      /\ DOMAIN log = 1 .. Len(log) /\ Len(log) \in Nat
  BY FineIs DEF RowsOf, MessagesBy
<1>2. log[n].call \in AnsweredIn(L)
  BY <1>1 DEF AnsweredIn
<1>3. AnsweredIn(L) = log[L].calls
  BY <1>1, <1>2 DEF Orderly
<1> SUFFICES ASSUME NEW d \in log[L].calls PROVE d \in AnsweredBy(n)
  OBVIOUS
<1>4. PICK j \in RowsOf("tool_call") : log[j].call = d
  BY <1>3 DEF AnsweredIn
<1>5. d[1] = log[n].call[1]
  BY <1>1 DEF CallInv, TodoInv, CallsNumbered
<1>6. d[2] <= log[n].call[2]
  BY <1>1, <1>4, <1>5 DEF Orderly
<1>7. j \in 1 .. Len(log) /\ log[j].kind = "tool_call" /\ d \in Nat \X Nat
  BY <1>1, <1>4, FineIs DEF RowsOf
<1>8. log[n].call \in Nat \X Nat
  BY FineIs
<1>9. ~(n < j)
  <2> SUFFICES ASSUME n < j PROVE FALSE
    OBVIOUS
  <2>1. log[n].call[2] < log[j].call[2]
    BY <1>1, <1>4, <1>5 DEF CallInv, RowInv, ResultsInOrder
  <2>2. d[2] \in Nat /\ log[n].call[2] \in Nat
    BY <1>7, <1>8
  <2>3. QED
    BY <1>4, <1>6, <2>1, <2>2
<1>10. j \in 1 .. n
  BY <1>1, <1>7, <1>9
<1>11. QED
  BY <1>4, <1>7, <1>10 DEF AnsweredBy

\* What is not answered completely when only events follow has no result.
LEMMA LastHasNone ==
    ASSUME HistTypes, CallInv, Orderly, NEW r \in 0 .. Len(log),
           \A i \in r + 1 .. Len(log) : IsEvent(log[i]),
           NEW L \in MessagesBy(r), ~(log[L].calls \subseteq AnsweredBy(r))
    PROVE  log[L].calls \cap AnsweredBy(r) = {}
<1>1. L \in RowsOf("message") /\ DOMAIN log = 1 .. Len(log) /\ Len(log) \in Nat
  BY FineIs DEF RowsOf, MessagesBy
<1>2. PICK d \in log[L].calls : d \notin AnsweredBy(r)
  OBVIOUS
<1>3. d \notin AnsweredIn(L)
  <2> SUFFICES ASSUME NEW j \in RowsOf("tool_call"), log[j].call = d PROVE FALSE
    BY DEF AnsweredIn
  <2>1. j \in 1 .. Len(log) /\ log[j].kind = "tool_call"
    BY <1>1 DEF RowsOf
  <2>2. j \in 1 .. r
    BY <1>1, <2>1 DEF IsEvent
  <2>3. QED
    BY <1>2, <2>1, <2>2 DEF AnsweredBy
<1>4. AnsweredIn(L) = {}
  BY <1>1, <1>2, <1>3 DEF Orderly
<1>5. ASSUME NEW i \in 1 .. r, log[i].kind = "tool_call", log[i].call \in log[L].calls PROVE FALSE
  <2>1. i \in RowsOf("tool_call")
    BY <1>1, <1>5 DEF RowsOf
  <2>2. log[i].call \in AnsweredIn(L)
    BY <1>5, <2>1 DEF AnsweredIn
  <2>3. QED
    BY <1>4, <2>2
<1>6. QED
  BY <1>5 DEF AnsweredBy

----------------------------------------------------------------------------
(* The pass over the items of an orderly log: between two chains of results *)
(* what was passed on is well formed, inside one it is up to the message    *)
(* that has opened it.                                                      *)

ToldBy(E) == {x.call : x \in {y \in E : y.kind = "tool"}}

LEMMA AnsweredIs == \A s : Answered(s) = ToldBy(Elems(s))
<1> TAKE s
<1>1. ASSUME NEW i \in DOMAIN s, s[i].kind = "tool" PROVE s[i].call \in ToldBy(Elems(s))
  BY <1>1 DEF ToldBy, Elems
<1>2. ASSUME NEW x \in Elems(s), x.kind = "tool" PROVE x.call \in Answered(s)
  BY <1>2 DEF Answered, Elems
<1>3. QED
  BY <1>1, <1>2 DEF Answered, ToldBy

SettledAt(st, n) ==
    /\ st.out \in Seq(Fine) /\ st.held = <<>> /\ st.pending = {}
    /\ WellFormed(st.out) /\ ToldBy(Elems(st.out)) \subseteq AnsweredBy(n)
    /\ \A i \in MessagesBy(n) : log[i].calls \subseteq AnsweredBy(n)

\* The items s end before the message of row L, of whose results ts have come.
OwesAt(st, n, L, s, ts) ==
    /\ s \in Seq(Fine) /\ ts \in Seq(Fine) /\ st.held \in Seq(Fine)
    /\ st.out = Append(s, log[L]) \o ts
    /\ WellFormed(s) /\ ToldBy(Elems(s)) \subseteq AnsweredBy(n)
    /\ L \in MessagesBy(n)
    /\ \A i \in MessagesBy(n) : i <= L /\ (i = L \/ log[i].calls \subseteq AnsweredBy(n))
    /\ st.pending = log[L].calls \ AnsweredBy(n) /\ st.pending # {}
    /\ Elems(ts) = ResultsOf(log[L].calls \cap AnsweredBy(n))
    /\ Len(ts) = Cardinality(log[L].calls \cap AnsweredBy(n))
    /\ \A x \in Elems(st.held) : IsEvent(x)

Owes(st, n) == \E L, s, ts : OwesAt(st, n, L, s, ts)
Chained(st, n) == SettledAt(st, n) \/ Owes(st, n)

\* An event or a summary after the chain.
LEMMA SettledTakes ==
    ASSUME NEW st, NEW n, SettledAt(st, n), Countable(Fine), NEW x \in Fine,
           x.kind \notin {"message", "tool"}
    PROVE  SettledAt(NormalizeStep(st, x), n)
<1> DEFINE o == st.out
           t == <<x>>
           u == o \o t
<1>1. o \in Seq(Fine) /\ t \in Seq(Fine)
  BY DEF SettledAt
<1>2. Append(o \o <<>>, x) = u
  BY <1>1
<1>3. NormalizeStep(st, x) = [out |-> u, held |-> <<>>, pending |-> {}]
  BY <1>2 DEF NormalizeStep, Begins, Opens, SettledAt
<1>4. Elems(t) = {x}
  BY DEF Elems
<1> HIDE DEF t, o
<1>5. u \in Seq(Fine) /\ Elems(u) = Elems(o) \cup {x}
  BY <1>1, <1>4, OfConcat
<1>6. WellFormed(u)
  BY <1>1, <1>4, OthersMayFollow DEF SettledAt, o
<1>7. ToldBy(Elems(u)) = ToldBy(Elems(o))
  BY <1>5 DEF ToldBy
<1> DEFINE z == NormalizeStep(st, x)
<1>8. z.out = u /\ z.held = <<>> /\ z.pending = {}
  BY <1>3
<1> HIDE DEF u, z
<1>9. SettledAt(z, n)
  BY <1>5, <1>6, <1>7, <1>8 DEF SettledAt, o
<1>10. QED
  BY <1>9 DEF z

\* A message after the chain.
LEMMA SettledBegins ==
    ASSUME HistTypes, CallInv, Orderly, NEW n \in 1 .. Len(log), log[n].kind = "message",
           NEW st, SettledAt(st, n - 1)
    PROVE  Chained(NormalizeStep(st, log[n]), n)
<1> DEFINE o == st.out
           m == log[n]
           u == Append(o, m)
<1>1. o \in Seq(Fine) /\ m \in Fine /\ m.kind = "message" /\ Countable(Fine)
  BY FineIs DEF SettledAt
<1>2. u \in Seq(Fine) /\ Elems(u) = Elems(o) \cup {m}
  BY <1>1, OfAppend
<1>3. Append(o \o <<>>, m) = u
  BY <1>1
<1>4. NormalizeStep(st, m) = [out |-> u, held |-> <<>>, pending |-> m.calls]
  BY <1>1, <1>3 DEF NormalizeStep, Begins, Opens, SettledAt
<1>5. /\ AnsweredBy(n) = AnsweredBy(n - 1) /\ MessagesBy(n) = MessagesBy(n - 1) \cup {n}
      /\ \A i \in MessagesBy(n - 1) : i < n
  BY RowsBy
<1>6. m.calls \cap AnsweredBy(n) = {}
  BY MessageIsNew
<1>7. WellFormed(o) /\ ToldBy(Elems(o)) \subseteq AnsweredBy(n)
  BY <1>5 DEF SettledAt
<1>8. <<>> \in Seq(Fine) /\ Elems(<<>>) = {} /\ Len(<<>>) = 0 /\ Cardinality({}) = 0
  BY FS_EmptySet DEF Elems
<1>9. u \o <<>> = u
  BY <1>2
<1>10. ResultsOf({}) = {}
  BY DEF ResultsOf
<1>11. CASE m.calls = {}
  <2> HIDE DEF m, o
  <2>1. WellFormed(u \o <<>>)
    <3>1. Elems(<<>>) = ResultsOf(m.calls) /\ Len(<<>>) = Cardinality(m.calls)
      BY <1>8, <1>10, <1>11
    <3>2. QED
      BY <1>1, <1>7, <1>8, <3>1, ChainMayFollow
  <2>2. ToldBy(Elems(u)) = ToldBy(Elems(o))
    BY <1>1, <1>2 DEF ToldBy
  <2>3. \A i \in MessagesBy(n) : log[i].calls \subseteq AnsweredBy(n)
    BY <1>5, <1>11 DEF SettledAt, m
  <2> DEFINE z == NormalizeStep(st, m)
  <2>4. z.out = u /\ z.held = <<>> /\ z.pending = {}
    BY <1>4, <1>11
  <2>5. WellFormed(u)
    BY <1>9, <2>1
  <2> HIDE DEF u, z
  <2>6. SettledAt(z, n)
    BY <1>2, <1>7, <2>2, <2>3, <2>4, <2>5 DEF SettledAt
  <2>7. QED
    BY <2>6 DEF Chained, m, z
<1>12. CASE m.calls # {}
  <2>1. n \in MessagesBy(n) /\ n <= n
    BY <1>5
  <2>2. \A i \in MessagesBy(n) : i <= n /\ (i = n \/ log[i].calls \subseteq AnsweredBy(n))
    <3>1. \A i \in MessagesBy(n - 1) : log[i].calls \subseteq AnsweredBy(n)
      BY <1>5 DEF SettledAt
    <3>2. \A i \in MessagesBy(n) : i \in Nat
      BY DEF MessagesBy
    <3>3. QED
      BY <1>5, <2>1, <3>1, <3>2
  <2>3. m.calls \ AnsweredBy(n) = m.calls
    BY <1>6
  <2>4. \A x \in Elems(<<>>) : IsEvent(x)
    BY <1>8
  <2> DEFINE z == NormalizeStep(st, m)
  <2>5. z.out = u \o <<>> /\ z.held = <<>> /\ z.pending = m.calls \ AnsweredBy(n) /\ z.pending # {}
    BY <1>4, <1>9, <1>12, <2>3
  <2>6. Elems(<<>>) = ResultsOf(m.calls \cap AnsweredBy(n)) /\ Len(<<>>) = Cardinality(m.calls \cap AnsweredBy(n))
    BY <1>6, <1>8, <1>10
  <2> HIDE DEF o, z
  <2>7. OwesAt(z, n, n, o, <<>>)
    BY <1>1, <1>7, <1>8, <2>1, <2>2, <2>4, <2>5, <2>6, Zenon DEF OwesAt
  <2>8. QED
    BY <2>7 DEF Chained, Owes, z
<1>13. QED
  BY <1>11, <1>12

\* An event inside the chain.
LEMMA OwesHolds ==
    ASSUME NEW st, NEW n, Owes(st, n), NEW x \in Fine, IsEvent(x)
    PROVE  Owes(NormalizeStep(st, x), n)
<1>1. PICK L, s, ts : OwesAt(st, n, L, s, ts)
  BY DEF Owes
<1> DEFINE h == Append(st.held, x)
<1>2. st.held \in Seq(Fine)
  BY <1>1 DEF OwesAt
<1>3. h \in Seq(Fine) /\ Elems(h) = Elems(st.held) \cup {x}
  BY <1>2, OfAppend
<1>4. NormalizeStep(st, x) = [out |-> st.out, held |-> h, pending |-> st.pending]
  BY <1>1 DEF OwesAt, NormalizeStep, Holds, IsEvent
<1> HIDE DEF h
<1>5. \A y \in Elems(h) : IsEvent(y)
  BY <1>1, <1>3 DEF OwesAt
<1>6. OwesAt(NormalizeStep(st, x), n, L, s, ts)
  BY <1>1, <1>3, <1>4, <1>5 DEF OwesAt
<1>7. QED
  BY <1>6 DEF Owes

\* A result inside the chain, which may be the last one.
LEMMA OwesTakes ==
    ASSUME HistTypes, CallInv, Orderly, NEW n \in 1 .. Len(log), log[n].kind = "tool_call",
           NEW st, Owes(st, n - 1)
    PROVE  /\ Chained(NormalizeStep(st, Tool(log[n].call)), n)
           /\ log[n].name = "compact" => SettledAt(NormalizeStep(st, Tool(log[n].call)), n)
<1> DEFINE c == log[n].call
           x == Tool(c)
<1>1. PICK L, s, ts : OwesAt(st, n - 1, L, s, ts)
  BY DEF Owes
<1>2. Countable(Fine) /\ x \in Fine /\ L \in 1 .. Len(log)
  BY <1>1, FineIs DEF OwesAt, MessagesBy
<1>3. AnsweredBy(n) = AnsweredBy(n - 1) \cup {c} /\ MessagesBy(n) = MessagesBy(n - 1)
  BY RowsBy
<1>4. c \in log[L].calls /\ c \notin AnsweredBy(n - 1)
  <2>1. PICK k \in MessagesBy(n - 1) : c \in log[k].calls /\ \A i \in MessagesBy(n - 1) : i <= k
    BY ResultHasMessage
  <2>2. L \in MessagesBy(n - 1) /\ k <= L /\ L <= k /\ k \in Nat /\ L \in Nat
    BY <1>1, <2>1 DEF OwesAt, MessagesBy
  <2>3. k = L
    BY <2>2
  <2>4. QED
    BY <2>1, <2>3, ResultIsNew
<1> DEFINE m    == log[L]
           t    == Append(ts, x)
           a    == Append(s, m) \o ts
           b    == Append(a, x)
           left == m.calls \ AnsweredBy(n)
           got  == m.calls \cap AnsweredBy(n)
<1>5. m \in Fine /\ m.kind = "message" /\ m.calls \in SUBSET (Nat \X Nat) /\ IsFiniteSet(m.calls)
  BY <1>1, <1>2, FineIs DEF OwesAt, MessagesBy
<1>6. x.kind = "tool" /\ x.call = c
  BY DEF Tool
<1>7. st.pending = m.calls \ AnsweredBy(n - 1) /\ c \in st.pending /\ st.pending \ {c} = left
  BY <1>1, <1>3, <1>4 DEF OwesAt
<1>8. s \in Seq(Fine) /\ ts \in Seq(Fine) /\ st.out = a /\ st.held \in Seq(Fine)
  BY <1>1 DEF OwesAt
<1>9. /\ a \in Seq(Fine) /\ b = Append(s, m) \o t
  <2> DEFINE e == Append(s, m)
             y == <<x>>
  <2> HIDE DEF m, x
  <2>1. e \in Seq(Fine)
    BY <1>5, <1>8
  <2> HIDE DEF e
  <2>2. e \o ts \in Seq(Fine)
    BY <1>8, <2>1, ConcatProperties
  <2>3. y \in Seq(Fine) /\ Append(ts, x) = ts \o y
    BY <1>2, <1>8, AppendIsConcat
  <2>4. Append(e \o ts, x) = (e \o ts) \o y
    BY <1>2, <2>2, AppendIsConcat
  <2> HIDE DEF y
  <2>5. (e \o ts) \o y = e \o (ts \o y)
    <3>1. ts \in Seq(Fine) /\ y \in Seq(Fine)
      BY <1>8, <2>3
    <3>2. QED
      BY ONLY <2>1, <3>1, ConcatAssociative
  <2>6. b = e \o t
    BY <2>3, <2>4, <2>5, Zenon DEF e
  <2>7. QED
    BY <2>2, <2>6 DEF e
<1>10. /\ t \in Seq(Fine) /\ Elems(t) = Elems(ts) \cup {x} /\ Len(t) = Len(ts) + 1
  BY <1>2, <1>8, OfAppend, AppendIs
<1>11. NormalizeStep(st, x) = IF left = {} THEN [out |-> b \o st.held, held |-> <<>>, pending |-> {}]
                              ELSE [out |-> b, held |-> st.held, pending |-> left]
  <2>1. NormalizeStep(st, x) = Answers(st, x)
    BY <1>6, <1>7 DEF NormalizeStep
  <2> HIDE DEF a, left, x
  <2>2. QED
    BY <1>6, <1>7, <1>8, <2>1 DEF Answers
<1>12. /\ Elems(t) = ResultsOf(got) /\ Len(t) = Cardinality(got)
  <2> DEFINE old == m.calls \cap AnsweredBy(n - 1)
  <2>1. got = old \cup {c} /\ c \notin old /\ IsFiniteSet(old)
    BY <1>3, <1>4, <1>5, FS_Intersection
  <2>2. Elems(ts) = ResultsOf(old) /\ Len(ts) = Cardinality(old)
    BY <1>1 DEF OwesAt
  <2>3. Cardinality(got) = Cardinality(old) + 1
    <3> HIDE DEF old, got
    <3>1. Cardinality(old \cup {c}) = Cardinality(old) + 1
      BY <2>1, FS_AddElement
    <3>2. QED
      BY <2>1, <3>1
  <2>4. ResultsOf(got) = ResultsOf(old) \cup {x}
    BY <2>1 DEF ResultsOf
  <2> HIDE DEF old, got, t
  <2>5. QED
    BY <1>10, <2>2, <2>3, <2>4
<1>13. /\ WellFormed(s) /\ ToldBy(Elems(s)) \subseteq AnsweredBy(n)
       /\ \A i \in MessagesBy(n) : i <= L /\ (i = L \/ log[i].calls \subseteq AnsweredBy(n))
       /\ L \in MessagesBy(n) /\ \A y \in Elems(st.held) : IsEvent(y)
  BY <1>1, <1>3 DEF OwesAt
<1> HIDE DEF b, t, a, x, c
<1>14. ASSUME left = {} PROVE SettledAt(NormalizeStep(st, x), n)
  <2>1. got = m.calls
    BY <1>14
  <2>2. b \in Seq(Fine) /\ WellFormed(b)
    BY <1>2, <1>5, <1>8, <1>9, <1>10, <1>12, <1>13, <2>1, ChainMayFollow
  <2> DEFINE h == st.held
             u == b \o h
  <2>3. u \in Seq(Fine) /\ Elems(u) = Elems(b) \cup Elems(h)
    BY <1>8, <2>2, OfConcat
  <2>4. WellFormed(u)
    <3>1. \A y \in Elems(h) : y.kind \notin {"message", "tool"}
      BY <1>13 DEF IsEvent
    <3> HIDE DEF h
    <3>2. h \in Seq(Fine)
      BY <1>8 DEF h
    <3>3. QED
      BY <1>2, <2>2, <3>1, <3>2, OthersMayFollow
  <2>5. ToldBy(Elems(u)) \subseteq AnsweredBy(n)
    <3>1. Elems(b) = (Elems(s) \cup {m}) \cup Elems(t)
      <4>1. Append(s, m) \in Seq(Fine) /\ Elems(Append(s, m)) = Elems(s) \cup {m}
        BY <1>5, <1>8, OfAppend
      <4>2. QED
        <5> DEFINE e == Append(s, m)
        <5> HIDE DEF e
        <5>1. e \in Seq(Fine) /\ Elems(e) = Elems(s) \cup {m} /\ b = e \o t
          BY <1>9, <4>1 DEF e
        <5>2. Elems(e \o t) = Elems(e) \cup Elems(t)
          BY <1>10, <5>1, OfConcat
        <5>3. QED
          BY <5>1, <5>2
    <3>2. \A y \in ResultsOf(m.calls) : y.call \in m.calls
      BY DEF ResultsOf, Tool
    <3>3. m.calls \subseteq AnsweredBy(n)
      BY <1>14
    <3> HIDE DEF u, h
    <3>4. ASSUME NEW y \in Elems(u), y.kind = "tool" PROVE y.call \in AnsweredBy(n)
      <4>1. CASE y \in Elems(s)
        BY <1>13, <3>4, <4>1 DEF ToldBy
      <4>2. CASE y \in Elems(t)
        BY <1>12, <2>1, <3>2, <3>3, <4>2
      <4>3. y # m /\ y \notin Elems(h)
        BY <1>5, <1>13, <3>4 DEF IsEvent, h
      <4>4. QED
        BY <2>3, <3>1, <4>1, <4>2, <4>3
    <3>5. QED
      BY <3>4 DEF ToldBy
  <2>6. \A i \in MessagesBy(n) : log[i].calls \subseteq AnsweredBy(n)
    BY <1>13, <1>14
  <2>7. NormalizeStep(st, x) = [out |-> u, held |-> <<>>, pending |-> {}]
    BY <1>11, <1>14
  <2> DEFINE z == NormalizeStep(st, x)
  <2>8. z.out = u /\ z.held = <<>> /\ z.pending = {}
    BY <2>7
  <2> HIDE DEF u, z
  <2>9. SettledAt(z, n)
    BY <2>3, <2>4, <2>5, <2>6, <2>8 DEF SettledAt
  <2>10. QED
    BY <2>9 DEF z
<1>15. ASSUME left # {} PROVE Owes(NormalizeStep(st, x), n)
  <2>1. NormalizeStep(st, x) = [out |-> b, held |-> st.held, pending |-> left]
    BY <1>11, <1>15
  <2> DEFINE z == NormalizeStep(st, x)
  <2>2. /\ z.out = Append(s, log[L]) \o t /\ z.held = st.held
        /\ z.pending = log[L].calls \ AnsweredBy(n) /\ z.pending # {}
    BY <1>9, <1>15, <2>1
  <2> HIDE DEF z
  <2>3. OwesAt(z, n, L, s, t)
    BY <1>8, <1>10, <1>12, <1>13, <2>2, Zenon DEF OwesAt
  <2>4. QED
    BY <2>3 DEF Owes, z
<1>16. log[n].name = "compact" => left = {}
  <2>1. L \in MessagesBy(n - 1)
    BY <1>3, <1>13
  <2>2. QED
    BY <1>4, <2>1, CompactIsLast DEF c
<1>17. QED
  BY <1>14, <1>15, <1>16 DEF Chained, x, c

\* The pass over the items of the first n rows.
St(n) == Run(HistoryItems(SubSeq(log, 1, n)))

LEMMA TwoMore ==
    ASSUME NEW V, NEW s \in Seq(V), NEW x \in V, NEW y \in V
    PROVE  s \o <<x>> = Append(s, x) /\ s \o <<x, y>> = Append(Append(s, x), y)
  OBVIOUS

\* One row more is one item more, or two.
LEMMA ItemsGrow ==
    ASSUME HistTypes, NEW n \in 1 .. Len(log)
    PROVE  LET h == HistoryItems(SubSeq(log, 1, n - 1))
               g == HistoryItems(SubSeq(log, 1, n))
               r == log[n]
           IN  /\ h \in Seq(Shown)
               /\ r.kind # "tool_call" => r \in Shown /\ g = Append(h, r)
               /\ r.kind = "tool_call" =>
                     /\ Tool(r.call) \in Shown /\ Summary \in Shown
                     /\ IF r.name = "compact" THEN g = Append(Append(h, Tool(r.call)), Summary)
                                              ELSE g = Append(h, Tool(r.call))
<1> DEFINE p == SubSeq(log, 1, n - 1)
           q == SubSeq(log, 1, n)
           r == log[n]
           h == HistoryItems(p)
<1>1. p \in Seq(LogRow) /\ r \in LogRow /\ q = Append(p, r)
  <2>1. log \in Seq(LogRow)
    BY DEF HistTypes
  <2>2. QED
    BY <2>1, PrefixGrows
<1> HIDE DEF p, q, r
<1>2. h \in Seq(Shown)
  BY <1>1, ItemsAll DEF Shown
<1>3. HistoryItems(q) = h \o MessageToHistoryItems(r)
  BY <1>1, HistoryItemsIs, Zenon
<1>4. r \in Shown /\ Tool(r.call) \in Shown /\ Summary \in Shown
  BY <1>1, Kinds DEF Shown, Items
<1> HIDE DEF h
<1>5. CASE r.kind # "tool_call"
  <2>1. MessageToHistoryItems(r) = <<r>>
    BY <1>5 DEF MessageToHistoryItems
  <2>2. h \o <<r>> = Append(h, r)
    BY <1>2, <1>4, TwoMore
  <2>3. HistoryItems(q) = Append(h, r)
    BY <1>3, <2>1, <2>2, Zenon
  <2>4. QED
    BY <1>2, <1>4, <1>5, <2>3 DEF h, p, q, r
<1>6. CASE r.kind = "tool_call" /\ r.name # "compact"
  <2> DEFINE x == Tool(r.call)
  <2>1. MessageToHistoryItems(r) = <<x>>
    BY <1>6 DEF MessageToHistoryItems
  <2>2. h \o <<x>> = Append(h, x)
    BY <1>2, <1>4, TwoMore
  <2>3. HistoryItems(q) = Append(h, x)
    BY <1>3, <2>1, <2>2, Zenon
  <2>4. QED
    BY <1>2, <1>4, <1>6, <2>3 DEF h, p, q, r
<1>7. CASE r.kind = "tool_call" /\ r.name = "compact"
  <2> DEFINE x == Tool(r.call)
  <2>1. MessageToHistoryItems(r) = <<x, Summary>>
    BY <1>7 DEF MessageToHistoryItems
  <2>2. h \o <<x, Summary>> = Append(Append(h, x), Summary)
    BY <1>2, <1>4, TwoMore
  <2>3. HistoryItems(q) = Append(Append(h, x), Summary)
    BY <1>3, <2>1, <2>2, Zenon
  <2>4. QED
    BY <1>2, <1>4, <1>7, <2>3 DEF h, p, q, r
<1>8. QED
  BY <1>5, <1>6, <1>7

LEMMA StateGrows ==
    ASSUME HistTypes, NEW n \in 1 .. Len(log)
    PROVE  LET r == log[n] IN
           /\ r.kind # "tool_call" => St(n) = NormalizeStep(St(n - 1), r)
           /\ r.kind = "tool_call" =>
                 IF r.name = "compact"
                 THEN St(n) = NormalizeStep(NormalizeStep(St(n - 1), Tool(r.call)), Summary)
                 ELSE St(n) = NormalizeStep(St(n - 1), Tool(r.call))
<1> DEFINE h == HistoryItems(SubSeq(log, 1, n - 1))
           g == HistoryItems(SubSeq(log, 1, n))
           r == log[n]
<1>1. /\ h \in Seq(Shown)
      /\ r.kind # "tool_call" => r \in Shown /\ g = Append(h, r)
      /\ r.kind = "tool_call" =>
            /\ Tool(r.call) \in Shown /\ Summary \in Shown
            /\ IF r.name = "compact" THEN g = Append(Append(h, Tool(r.call)), Summary)
                                     ELSE g = Append(h, Tool(r.call))
  BY ItemsGrow
<1>2. St(n) = Run(g) /\ St(n - 1) = Run(h)
  BY DEF St
<1> HIDE DEF h, g, r
<1>3. CASE r.kind # "tool_call"
  <2>1. r \in Shown /\ g = Append(h, r)
    BY <1>1, <1>3
  <2>2. Run(Append(h, r)) = NormalizeStep(Run(h), r)
    BY <1>1, <2>1, RunIs, Zenon
  <2>3. St(n) = NormalizeStep(St(n - 1), r)
    BY <1>2, <2>1, <2>2, Zenon
  <2>4. QED
    BY <1>3, <2>3 DEF r
<1>4. CASE r.kind = "tool_call"
  <2> DEFINE x == Tool(r.call)
             k == Append(h, x)
  <2>1. x \in Shown /\ Summary \in Shown
    BY <1>1, <1>4
  <2> HIDE DEF x
  <2>2. k \in Seq(Shown)
    BY <1>1, <2>1, AppendProperties
  <2>3. Run(k) = NormalizeStep(Run(h), x)
    BY <1>1, <2>1, RunIs, Zenon
  <2> HIDE DEF k
  <2>4. Run(Append(k, Summary)) = NormalizeStep(Run(k), Summary)
    BY <2>1, <2>2, RunIs, Zenon
  <2>5. CASE r.name = "compact"
    <3>1. g = Append(k, Summary)
      BY <1>1, <1>4, <2>5 DEF k, x
    <3>2. St(n) = NormalizeStep(NormalizeStep(St(n - 1), x), Summary)
      BY <1>2, <2>3, <2>4, <3>1, Zenon
    <3>3. QED
      BY <1>4, <2>5, <3>2 DEF r, x
  <2>6. CASE r.name # "compact"
    <3>1. g = k
      BY <1>1, <1>4, <2>6 DEF k, x
    <3>2. St(n) = NormalizeStep(St(n - 1), x)
      BY <1>2, <2>3, <3>1, Zenon
    <3>3. QED
      BY <1>4, <2>6, <3>2 DEF r, x
  <2>7. QED
    BY <2>5, <2>6
<1>5. QED
  BY <1>3, <1>4

LEMMA ChainedStep ==
    ASSUME HistTypes, CallInv, Orderly, NEW n \in 1 .. Len(log), Chained(St(n - 1), n - 1)
    PROVE  Chained(St(n), n)
<1> DEFINE r  == log[n]
           st == St(n - 1)
<1>1. /\ r.kind \in {"event", "message", "tool_call"} /\ Countable(Fine) /\ Summary \in Fine
      /\ r.kind # "tool_call" => r \in Fine
  BY FineIs
<1>2. CASE r.kind = "event"
  <2>1. AnsweredBy(n) = AnsweredBy(n - 1) /\ MessagesBy(n) = MessagesBy(n - 1)
    <3>1. log[n].kind # "tool_call" /\ log[n].kind # "message"
      BY <1>2
    <3>2. /\ AnsweredBy(n) = AnsweredBy(n - 1) \cup (IF log[n].kind = "tool_call" THEN {log[n].call} ELSE {})
          /\ MessagesBy(n) = MessagesBy(n - 1) \cup (IF log[n].kind = "message" THEN {n} ELSE {})
      BY ONLY HistTypes, CallInv, n \in 1 .. Len(log), RowsBy
    <3>3. QED
      BY ONLY <3>1, <3>2
  <2>2. St(n) = NormalizeStep(st, r) /\ r \in Fine
    BY <1>1, <1>2, StateGrows
  <2> HIDE DEF st, r
  <2>3. SettledAt(st, n) \/ Owes(st, n)
    <3>1. CASE SettledAt(st, n - 1)
      BY <2>1, <3>1 DEF SettledAt
    <3>2. CASE Owes(st, n - 1)
      BY <2>1, <3>2 DEF Owes, OwesAt
    <3>3. QED
      BY <3>1, <3>2 DEF Chained, st
  <2>4. CASE SettledAt(st, n)
    BY <1>1, <1>2, <2>2, <2>4, SettledTakes DEF Chained
  <2>5. CASE Owes(st, n)
    BY <1>2, <2>2, <2>5, OwesHolds DEF Chained, IsEvent
  <2>6. QED
    BY <2>3, <2>4, <2>5
<1>3. CASE r.kind = "message"
  <2>1. St(n) = NormalizeStep(st, r)
    BY <1>3, StateGrows
  <2>2. ~Owes(st, n - 1)
    <3> SUFFICES ASSUME NEW L, NEW s, NEW ts, OwesAt(st, n - 1, L, s, ts) PROVE FALSE
      BY DEF Owes
    <3>1. L \in MessagesBy(n - 1)
      BY DEF OwesAt
    <3>2. log[L].calls \subseteq AnsweredBy(n - 1)
      BY <1>3, <3>1, MessageBeforeIsDone
    <3>3. QED
      BY <3>2 DEF OwesAt
  <2>3. SettledAt(st, n - 1)
    BY <2>2 DEF Chained
  <2>4. QED
    BY <1>3, <2>1, <2>3, SettledBegins
<1>4. CASE r.kind = "tool_call"
  <2> DEFINE x == Tool(r.call)
             z == NormalizeStep(st, x)
  <2>1. ~SettledAt(st, n - 1)
    <3> SUFFICES ASSUME SettledAt(st, n - 1) PROVE FALSE
      OBVIOUS
    <3>1. PICK L \in MessagesBy(n - 1) : r.call \in log[L].calls
      BY <1>4, ResultHasMessage
    <3>2. r.call \in AnsweredBy(n - 1)
      BY <3>1 DEF SettledAt
    <3>3. QED
      BY <1>4, <3>2, ResultIsNew
  <2>2. Owes(st, n - 1)
    BY <2>1 DEF Chained
  <2>3. Chained(z, n) /\ (r.name = "compact" => SettledAt(z, n))
    BY <1>4, <2>2, OwesTakes
  <2>4. CASE r.name = "compact"
    <3>1. St(n) = NormalizeStep(z, Summary)
      BY <1>4, <2>4, StateGrows
    <3>2. SettledAt(z, n) /\ Summary.kind \notin {"message", "tool"}
      BY <2>3, <2>4 DEF Summary
    <3> HIDE DEF z
    <3>3. SettledAt(NormalizeStep(z, Summary), n)
      BY <1>1, <3>2, SettledTakes
    <3>4. QED
      BY <3>1, <3>3 DEF Chained
  <2>5. CASE r.name # "compact"
    <3>1. St(n) = z
      BY <1>4, <2>5, StateGrows
    <3>2. QED
      BY <2>3, <3>1
  <2>6. QED
    BY <2>4, <2>5
<1>5. QED
  BY <1>1, <1>2, <1>3, <1>4

LEMMA ChainedAll ==
    ASSUME HistTypes, CallInv, Orderly
    PROVE  \A n \in 0 .. Len(log) : Chained(St(n), n)
<1> DEFINE S == {n \in 0 .. Len(log) : Chained(St(n), n)}
<1>1. Len(log) \in Nat
  BY FineIs
<1>2. 0 \in S
  <2>1. SubSeq(log, 1, 0) = <<>>
    BY SubSeqEmpty
  <2>2. St(0) = Nothing
    BY <2>1, HistoryItemsIs, RunIs DEF St
  <2>3. MessagesBy(0) = {}
    BY DEF MessagesBy
  <2>4. <<>> \in Seq(Fine) /\ Elems(<<>>) = {} /\ WellFormed(<<>>)
    BY WellFormedIs DEF Elems
  <2>5. Nothing.out = <<>> /\ Nothing.held = <<>> /\ Nothing.pending = {}
    BY DEF Nothing
  <2>6. ToldBy({}) = {}
    BY DEF ToldBy
  <2>7. SettledAt(Nothing, 0)
    BY <2>3, <2>4, <2>5, <2>6 DEF SettledAt
  <2>8. QED
    BY <1>1, <2>2, <2>7 DEF Chained
<1>3. ASSUME NEW n \in 0 .. Len(log), n > 0, n - 1 \in S PROVE n \in S
  <2>1. n \in 1 .. Len(log)
    BY <1>1, <1>3
  <2>2. Chained(St(n), n)
    BY <1>3, <2>1, ChainedStep
  <2>3. QED
    BY <2>2
<1> HIDE DEF S
<1>4. 0 .. Len(log) \subseteq S
  BY <1>1, <1>2, <1>3, UpTo
<1>5. QED
  BY <1>4 DEF S

\* trimTrailingEventItems drops the items of the last rows, all events.
LEMMA TrimmedRows ==
    ASSUME HistTypes
    PROVE  \E r \in 0 .. Len(log) :
              /\ TrimTrailingEvents(HistoryItems(log)) = HistoryItems(SubSeq(log, 1, r))
              /\ \A i \in r + 1 .. Len(log) : IsEvent(log[i])
<1> DEFINE I(n) == HistoryItems(SubSeq(log, 1, n))
           Cut(n, r) == /\ TrimTrailingEvents(I(n)) = I(r)
                        /\ \A i \in r + 1 .. n : IsEvent(log[i])
           S == {n \in 0 .. Len(log) : \E r \in 0 .. n : Cut(n, r)}
<1>1. Len(log) \in Nat /\ log \in Seq(LogRow)
  BY DEF HistTypes
<1>2. 0 \in S
  <2>1. SubSeq(log, 1, 0) = <<>>
    BY SubSeqEmpty
  <2>2. TrimTrailingEvents(I(0)) = I(0)
    BY <2>1, HistoryItemsIs, TrimTrailingIs
  <2>3. Cut(0, 0)
    BY <2>2
  <2>4. QED
    BY <1>1, <2>3
<1>3. ASSUME NEW n \in 0 .. Len(log), n > 0, n - 1 \in S PROVE n \in S
  <2>1. n \in 1 .. Len(log)
    BY <1>1, <1>3
  <2> DEFINE h == I(n - 1)
             g == I(n)
             next == log[n]
  <2>2. /\ h \in Seq(Shown)
        /\ next.kind # "tool_call" => next \in Shown /\ g = Append(h, next)
        /\ next.kind = "tool_call" =>
              /\ Tool(next.call) \in Shown /\ Summary \in Shown
              /\ IF next.name = "compact" THEN g = Append(Append(h, Tool(next.call)), Summary)
                                         ELSE g = Append(h, Tool(next.call))
    BY <2>1, ItemsGrow
  <2>3. PICK r \in 0 .. n - 1 : Cut(n - 1, r)
    BY <1>3
  <2> HIDE DEF h, g, next, I
  <2>4. CASE IsEvent(next)
    <3>1. next \in Shown /\ g = Append(h, next)
      BY <2>2, <2>4 DEF IsEvent
    <3>2. TrimTrailingEvents(Append(h, next)) = TrimTrailingEvents(h)
      <4>1. TrimTrailingEvents(Append(h, next)) =
               IF IsEvent(next) THEN TrimTrailingEvents(h) ELSE Append(h, next)
        BY <2>2, <3>1, TrimTrailingIs, Zenon
      <4>2. QED
        BY <2>4, <4>1, Zenon
    <3>3. TrimTrailingEvents(I(n)) = I(r)
      BY <2>3, <3>1, <3>2, Zenon DEF g, h
    <3>4. \A i \in r + 1 .. n : IsEvent(log[i])
      <4>1. \A i \in r + 1 .. n : i \in r + 1 .. n - 1 \/ i = n
        BY <2>1, <2>3
      <4>2. QED
        BY <2>3, <2>4, <4>1 DEF next
    <3>5. r \in 0 .. n
      BY <2>1, <2>3
    <3>6. QED
      BY <3>3, <3>4, <3>5
  <2>5. CASE ~IsEvent(next)
    <3>1. PICK s \in Seq(Shown), x \in Shown : g = Append(s, x) /\ ~IsEvent(x)
      <4>1. CASE next.kind # "tool_call"
        BY <2>2, <2>5, <4>1
      <4>2. CASE next.kind = "tool_call" /\ next.name = "compact"
        <5> DEFINE s == Append(h, Tool(next.call))
        <5>1. s \in Seq(Shown) /\ g = Append(s, Summary) /\ Summary \in Shown
          BY <2>2, <4>2, AppendProperties
        <5>2. ~IsEvent(Summary)
          BY Kinds
        <5> HIDE DEF s
        <5>3. QED
          BY <5>1, <5>2
      <4>3. CASE next.kind = "tool_call" /\ next.name # "compact"
        <5>1. ~IsEvent(Tool(next.call))
          BY Kinds
        <5>2. QED
          BY <2>2, <4>3, <5>1
      <4>4. QED
        BY <4>1, <4>2, <4>3
    <3>2. TrimTrailingEvents(Append(s, x)) = IF IsEvent(x) THEN TrimTrailingEvents(s) ELSE Append(s, x)
      BY <3>1, TrimTrailingIs, Zenon
    <3>3. TrimTrailingEvents(I(n)) = I(n)
      BY <3>1, <3>2, Zenon DEF g
    <3>4. Cut(n, n)
      BY <2>1, <3>3
    <3>5. n \in 0 .. n
      BY <2>1
    <3>6. QED
      BY <3>4, <3>5
  <2>6. QED
    BY <2>4, <2>5
<1> HIDE DEF S
<1>4. 0 .. Len(log) \subseteq S
  BY <1>1, <1>2, <1>3, UpTo
<1>5. PICK r \in 0 .. Len(log) : Cut(Len(log), r)
  BY <1>1, <1>4 DEF S
<1>6. SubSeq(log, 1, Len(log)) = log
  BY <1>1, SubSeqFull
<1>7. QED
  BY <1>5, <1>6

\* What an agent sends that boots from an orderly log.
LEMMA BootFits ==
    ASSUME HistTypes, CallInv, Orderly
    PROVE  WellFormed(Snapshot(TrimDanglingToolCalls(FetchHistory(log))))
<1>1. PICK r \in 0 .. Len(log) :
         /\ TrimTrailingEvents(HistoryItems(log)) = HistoryItems(SubSeq(log, 1, r))
         /\ \A i \in r + 1 .. Len(log) : IsEvent(log[i])
  BY TrimmedRows
<1> DEFINE st == St(r)
           o  == st.out
<1>2. FetchHistory(log) = TrimDanglingToolCallsProto(o)
  BY <1>1, RunIs, Zenon DEF FetchHistory, St
<1>3. Chained(st, r) /\ Countable(Fine)
  BY ChainedAll, FineIs
<1> HIDE DEF st
<1>4. \E s \in Seq(Fine) : WellFormed(s) /\ TrimDanglingToolCallsProto(o) = s
  <2>1. CASE SettledAt(st, r)
    <3>1. o \in Seq(Fine) /\ WellFormed(o)
      BY <2>1 DEF SettledAt
    <3> HIDE DEF o
    <3>2. QED
      BY <1>3, <3>1, TrimsLeaveWellFormed
  <2>2. CASE Owes(st, r)
    <3>1. PICK L, s, ts : OwesAt(st, r, L, s, ts)
      BY <2>2 DEF Owes
    <3> DEFINE m == log[L]
    <3>2. L \in MessagesBy(r) /\ ~(m.calls \subseteq AnsweredBy(r)) /\ L \in 1 .. Len(log)
      <4>1. L \in MessagesBy(r)
        BY <3>1 DEF OwesAt
      <4>2. L \in 1 .. Len(log)
        BY <4>1, FineIs DEF MessagesBy
      <4>3. QED
        BY <3>1, <4>1, <4>2 DEF OwesAt
    <3>3. m.calls \cap AnsweredBy(r) = {}
      BY <1>1, <3>2, LastHasNone
    <3>4. m \in Fine /\ m.kind = "message"
      BY <3>2, FineIs DEF MessagesBy
    <3>5. ts = <<>>
      <4>1. Len(ts) = Cardinality({}) /\ ts \in Seq(Fine)
        BY <3>1, <3>3 DEF OwesAt
      <4>2. Len(ts) = 0
        BY <4>1, FS_EmptySet
      <4>3. QED
        BY <4>1, <4>2, EmptySeq
    <3>6. s \in Seq(Fine) /\ WellFormed(s) /\ ToldBy(Elems(s)) \subseteq AnsweredBy(r)
      BY <3>1 DEF OwesAt
    <3>7. o = Append(s, m)
      <4>1. o = Append(s, m) \o <<>>
        BY <3>1, <3>5 DEF OwesAt
      <4>2. Append(s, m) \o <<>> = Append(s, m)
        BY <3>4, <3>6, AppendProperties, ConcatEmptySeq
      <4>3. QED
        BY <4>1, <4>2, Zenon
    <3>8. ~(m.calls \subseteq Answered(s))
      BY <3>2, <3>3, <3>6, AnsweredIs
    <3> HIDE DEF o, m
    <3>9. TrimDanglingToolCallsProto(Append(s, m)) = s
      BY <1>3, <3>4, <3>6, <3>8, TrimCutsLast
    <3>10. TrimDanglingToolCallsProto(o) = s
      BY <3>7, <3>9, Zenon
    <3>11. QED
      BY <3>6, <3>10
  <2>3. QED
    BY <1>3, <2>1, <2>2 DEF Chained
<1>5. PICK s \in Seq(Fine) : WellFormed(s) /\ FetchHistory(log) = s
  BY <1>2, <1>4
<1>6. TrimDanglingToolCalls(s) = s /\ WellFormed(Snapshot(s))
  BY <1>3, <1>5, TrimsLeaveWellFormed, SnapshotFits
<1>7. QED
  BY <1>5, <1>6

\* From an orderly log, whatever of the last turn was written and wherever
\* events were logged amid results, the conversation an agent boots with is
\* one the provider accepts (FetchHistory and trimTrailingDanglingToolCalls).
THEOREM HistoryAccepted == HistorySpec => HistoryIsValid
<1>1. ASSUME HistInv, CallInv, [HistoryNext]_historyVars
      PROVE  \A a \in Agents : LoadsHistory(a) /\ Orderly => WellFormed(Snapshot(conv'[a]))
  <2> SUFFICES ASSUME NEW a \in Agents, LoadsHistory(a), Orderly
               PROVE  WellFormed(Snapshot(conv'[a]))
    OBVIOUS
  <2>1. HistTypes
    BY <1>1 DEF HistInv
  <2>2. conv'[a] = TrimDanglingToolCalls(FetchHistory(log))
    BY <2>1 DEF LoadsHistory, HistTypes
  <2>3. WellFormed(Snapshot(TrimDanglingToolCalls(FetchHistory(log))))
    BY <1>1, <2>1, BootFits
  <2>4. QED
    BY <2>2, <2>3
<1>2. QED
  BY <1>1, HistInvariant, CallInvariant, PTL DEF HistorySpec, HistoryIsValid
=============================================================================
