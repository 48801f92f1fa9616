------------------------- MODULE WorkflowRun_proofs -------------------------
(***************************************************************************)
(* Safety of one workflow run, for every number of jobs, cancel requests   *)
(* and faults.  The properties of WorkflowRun are not inductive one by     *)
(* one: that a claim never overtakes needs the order of CreateRun's        *)
(* inserts, and that one job is out at a time needs what the row of a job  *)
(* that is out looks like.  Inv collects those facts.                      *)
(***************************************************************************)
EXTENDS WorkflowRun, TLAPS

\* CreateRun inserts the rows in sequence order.
InsertedInOrder ==
    \A i, k \in Seqs : k < i /\ job[i] # "absent" => job[k] # "absent"

\* Until somebody cancels, the row of a job that is out says so.
HeldIsRunning ==
    \A i \in Seqs : cancels = 0 /\ Held(i) => job[i] = "running"

\* A cancel handler only works after a request.
CancelWasAsked == cpc # "idle" => cancels > 0

\* A failed row belongs to a job whose driver has reported and gone, so no
\* report can overwrite it.
FailedIsReported ==
    \A i \in Seqs : job[i] = "failed" => pc[i] \in HandlerStage \cup {"done", "lost"}

\* An AdvanceRun call on its failure path read a failed row.
FailingHasACause ==
    \A i \in Seqs : pc[i] \in {"skip", "fail"} =>
        \E f \in Seqs : job[f] = "failed"

Inv ==
    /\ TypeOK
    /\ InsertedInOrder
    /\ NoDoubleDelivery
    /\ NoOvertaking
    /\ CancelWasAsked
    /\ HeldIsRunning
    /\ OneJobAtATime
    /\ FailedIsReported
    /\ FailingHasACause
    /\ FailureHasACause

----------------------------------------------------------------------------
LEMMA InitInv == Init => Inv
  BY NumJobsAssumption, BoundsAssumption
  DEF Init, Inv, InsertedInOrder, NoDoubleDelivery, NoOvertaking, CancelWasAsked,
     HeldIsRunning, OneJobAtATime, FailedIsReported, FailingHasACause,
     FailureHasACause, TypeOK, Held, Seqs, RunStatus, JobStatus, JobStage,
      ClaimStage, DriverStage, HandlerStage, CancelStage

----------------------------------------------------------------------------
\* Every action keeps the variables in their types.
LEMMA TypeStep == TypeOK /\ [Next]_vars => TypeOK'
<1> SUFFICES ASSUME TypeOK, [Next]_vars PROVE TypeOK'
  OBVIOUS
<1> USE NumJobsAssumption, BoundsAssumption
<1> USE DEF TypeOK, Seqs, RunStatus, JobStatus, JobStage, ClaimStage,
            DriverStage, HandlerStage, CancelStage, Goto
<1>1. CASE CreateRun
  BY <1>1 DEF CreateRun
<1>2. CASE CreateFails
  BY <1>2 DEF CreateFails
<1>3. ASSUME NEW i \in Seqs, CreateJob(i) PROVE TypeOK'
  BY <1>3 DEF CreateJob
<1>4. ASSUME NEW i \in Seqs, Claim(i) PROVE TypeOK'
  BY <1>4 DEF Claim
<1>5. ASSUME NEW i \in Seqs, ClaimReadsRun(i) PROVE TypeOK'
  BY <1>5 DEF ClaimReadsRun
<1>6. ASSUME NEW i \in Seqs, ClaimStartsRun(i) PROVE TypeOK'
  BY <1>6 DEF ClaimStartsRun, MarkRunStarted
<1>7. ASSUME NEW i \in Seqs, ClaimNotifies(i) PROVE TypeOK'
  BY <1>7 DEF ClaimNotifies, NotifyStatusChanged
<1>8. ASSUME NEW i \in Seqs, DriverStarts(i) PROVE TypeOK'
  BY <1>8 DEF DriverStarts, MarkJobRunning
<1>9. ASSUME NEW i \in Seqs, DriverStartLost(i) PROVE TypeOK'
  BY <1>9 DEF DriverStartLost
<1>10. ASSUME NEW i \in Seqs, NEW status \in {"success", "failed"}, TerminateJob(i, status)
      PROVE  TypeOK'
  BY <1>10 DEF TerminateJob, MarkJobTerminal
<1>11. ASSUME NEW i \in Seqs, Abandon(i) PROVE TypeOK'
  BY <1>11 DEF Abandon
<1>12. ASSUME NEW i \in Seqs, AdvanceLists(i) PROVE TypeOK'
  <2>1. pc' \in [Seqs -> JobStage]
    BY <1>12 DEF AdvanceLists
  <2>2. failedAt' \in [Seqs -> Seqs \cup {-1}]
    <3>1. CASE UNCHANGED failedAt
      BY <3>1
    <3>2. CASE \E f \in Seqs : failedAt' = [failedAt EXCEPT ![i] = f]
      BY <3>2
    <3>3. QED
      BY <1>12, <3>1, <3>2 DEF AdvanceLists
  <2>3. QED
    BY <1>12, <2>1, <2>2 DEF AdvanceLists
<1>13. ASSUME NEW i \in Seqs, AdvanceSkips(i) PROVE TypeOK'
  BY <1>13 DEF AdvanceSkips, SkipRemainingJobs
<1>14. ASSUME NEW i \in Seqs, AdvanceMarks(i) PROVE TypeOK'
  BY <1>14 DEF AdvanceMarks, MarkRunTerminal
<1>15. ASSUME NEW i \in Seqs, AdvanceNotifies(i) PROVE TypeOK'
  BY <1>15 DEF AdvanceNotifies, NotifyStatusChanged
<1>16. CASE CancelReads
  BY <1>16 DEF CancelReads
<1>17. CASE CancelJobs
  BY <1>17 DEF CancelJobs, CancelRunningJobs
<1>18. CASE CancelSkips
  BY <1>18 DEF CancelSkips, SkipRemainingJobs
<1>19. CASE CancelMarks
  BY <1>19 DEF CancelMarks, MarkRunTerminal
<1>20. CASE CancelNotifies
  BY <1>20 DEF CancelNotifies, NotifyStatusChanged
<1>21. CASE UNCHANGED vars
  BY <1>21 DEF vars
<1>22. QED
  BY <1>1, <1>2, <1>3, <1>4, <1>5, <1>6, <1>7, <1>8, <1>9, <1>10, <1>11, <1>12,
     <1>13, <1>14, <1>15, <1>16, <1>17, <1>18, <1>19, <1>20, <1>21 DEF Next,
     CreateStep, CancelStep, JobStep

----------------------------------------------------------------------------
LEMMA InvStep == Inv /\ [Next]_vars => Inv'
<1> SUFFICES ASSUME Inv, [Next]_vars PROVE Inv'
  OBVIOUS
<1>0. TypeOK'
  BY TypeStep DEF Inv
<1> USE <1>0, NumJobsAssumption, BoundsAssumption
<1> USE DEF Inv, InsertedInOrder, NoDoubleDelivery, NoOvertaking, CancelWasAsked,
        HeldIsRunning, OneJobAtATime, FailedIsReported, FailingHasACause,
        FailureHasACause, TypeOK, Held, Seqs, RunStatus, JobTerminal, JobStatus,
            JobStage, ClaimStage, DriverStage, HandlerStage, CancelStage, Goto
<1>1. CASE CreateRun
  BY <1>1 DEF CreateRun
<1>2. CASE CreateFails
  BY <1>2 DEF CreateFails
<1>3. ASSUME NEW i \in Seqs, CreateJob(i) PROVE Inv'
  BY <1>3 DEF CreateJob
<1>4. ASSUME NEW i \in Seqs, Claim(i) PROVE Inv'
  <2>1. InsertedInOrder'
    BY <1>4 DEF Claim
  <2>2. NoDoubleDelivery'
    BY <1>4 DEF Claim
  <2>3. NoOvertaking'
    <3>1. \A k \in Seqs : k < i => job[k] \notin {"absent", "pending"}
      BY <1>4 DEF Claim
    <3>2. QED
      BY <1>4, <3>1 DEF Claim
  <2>4. CancelWasAsked'
    BY <1>4 DEF Claim
  <2>5. HeldIsRunning'
    BY <1>4 DEF Claim
  <2>6. OneJobAtATime'
    <3>1. ASSUME NEW k \in Seqs, cancels = 0, Held(k) PROVE FALSE
      <4>1. job[k] = "running"
        BY <3>1
      <4>2. CASE k < i
        BY <1>4, <4>1, <4>2 DEF Claim
      <4>3. CASE i < k
        BY <1>4, <3>1, <4>3 DEF Claim
      <4>4. CASE i = k
        BY <1>4, <4>1, <4>4 DEF Claim
      <4>5. QED
        BY <4>2, <4>3, <4>4
    <3>2. QED
      BY <1>4, <3>1 DEF Claim
  <2>7. FailedIsReported'
    BY <1>4 DEF Claim
  <2>8. FailingHasACause'
    BY <1>4 DEF Claim
  <2>9. FailureHasACause'
    BY <1>4 DEF Claim
  <2>10. QED
    BY <2>1, <2>2, <2>3, <2>4, <2>5, <2>6, <2>7, <2>8, <2>9
<1>5. ASSUME NEW i \in Seqs, ClaimReadsRun(i) PROVE Inv'
  BY <1>5 DEF ClaimReadsRun
<1>6. ASSUME NEW i \in Seqs, ClaimStartsRun(i) PROVE Inv'
  BY <1>6 DEF ClaimStartsRun, MarkRunStarted
<1>7. ASSUME NEW i \in Seqs, ClaimNotifies(i) PROVE Inv'
  BY <1>7 DEF ClaimNotifies, NotifyStatusChanged
<1>8. ASSUME NEW i \in Seqs, DriverStarts(i) PROVE Inv'
  <2>1. InsertedInOrder'
    BY <1>8 DEF DriverStarts, MarkJobRunning
  <2>2. NoDoubleDelivery'
    BY <1>8 DEF DriverStarts, MarkJobRunning
  <2>3. NoOvertaking'
    BY <1>8 DEF DriverStarts, MarkJobRunning
  <2>4. CancelWasAsked'
    BY <1>8 DEF DriverStarts, MarkJobRunning
  <2>5. HeldIsRunning'
    BY <1>8 DEF DriverStarts, MarkJobRunning
  <2>6. OneJobAtATime'
    BY <1>8 DEF DriverStarts, MarkJobRunning
  <2>7. FailedIsReported'
    BY <1>8 DEF DriverStarts, MarkJobRunning
  <2>8. FailingHasACause'
    BY <1>8 DEF DriverStarts, MarkJobRunning
  <2>9. FailureHasACause'
    BY <1>8 DEF DriverStarts, MarkJobRunning
  <2>10. QED
    BY <2>1, <2>2, <2>3, <2>4, <2>5, <2>6, <2>7, <2>8, <2>9
<1>9. ASSUME NEW i \in Seqs, DriverStartLost(i) PROVE Inv'
  BY <1>9 DEF DriverStartLost
<1>10. ASSUME NEW i \in Seqs, NEW status \in {"success", "failed"}, TerminateJob(i, status)
      PROVE  Inv'
  <2>1. InsertedInOrder'
    BY <1>10 DEF TerminateJob, MarkJobTerminal
  <2>2. NoDoubleDelivery'
    BY <1>10 DEF TerminateJob, MarkJobTerminal
  <2>3. NoOvertaking'
    BY <1>10 DEF TerminateJob, MarkJobTerminal
  <2>4. CancelWasAsked'
    BY <1>10 DEF TerminateJob, MarkJobTerminal
  <2>5. HeldIsRunning'
    BY <1>10 DEF TerminateJob, MarkJobTerminal
  <2>6. OneJobAtATime'
    BY <1>10 DEF TerminateJob, MarkJobTerminal
  <2>7. FailedIsReported'
    BY <1>10 DEF TerminateJob, MarkJobTerminal
  <2>8. FailingHasACause'
    BY <1>10 DEF TerminateJob, MarkJobTerminal
  <2>9. FailureHasACause'
    BY <1>10 DEF TerminateJob, MarkJobTerminal
  <2>10. QED
    BY <2>1, <2>2, <2>3, <2>4, <2>5, <2>6, <2>7, <2>8, <2>9
<1>11. ASSUME NEW i \in Seqs, Abandon(i) PROVE Inv'
  BY <1>11 DEF Abandon
<1>12. ASSUME NEW i \in Seqs, AdvanceLists(i) PROVE Inv'
  <2>1. InsertedInOrder'
    BY <1>12 DEF AdvanceLists
  <2>2. NoDoubleDelivery'
    BY <1>12 DEF AdvanceLists
  <2>3. NoOvertaking'
    BY <1>12 DEF AdvanceLists
  <2>4. CancelWasAsked'
    BY <1>12 DEF AdvanceLists
  <2>5. HeldIsRunning'
    BY <1>12 DEF AdvanceLists
  <2>6. OneJobAtATime'
    BY <1>12 DEF AdvanceLists
  <2>7. FailedIsReported'
    BY <1>12 DEF AdvanceLists
  <2>8. FailingHasACause'
    BY <1>12 DEF AdvanceLists
  <2>9. FailureHasACause'
    BY <1>12 DEF AdvanceLists
  <2>10. QED
    BY <2>1, <2>2, <2>3, <2>4, <2>5, <2>6, <2>7, <2>8, <2>9
<1>13. ASSUME NEW i \in Seqs, AdvanceSkips(i) PROVE Inv'
  BY <1>13 DEF AdvanceSkips, SkipRemainingJobs
<1>14. ASSUME NEW i \in Seqs, AdvanceMarks(i) PROVE Inv'
  BY <1>14 DEF AdvanceMarks, MarkRunTerminal
<1>15. ASSUME NEW i \in Seqs, AdvanceNotifies(i) PROVE Inv'
  BY <1>15 DEF AdvanceNotifies, NotifyStatusChanged
<1>16. CASE CancelReads
  BY <1>16 DEF CancelReads
<1>17. CASE CancelJobs
  BY <1>17 DEF CancelJobs, CancelRunningJobs
<1>18. CASE CancelSkips
  BY <1>18 DEF CancelSkips, SkipRemainingJobs
<1>19. CASE CancelMarks
  BY <1>19 DEF CancelMarks, MarkRunTerminal
<1>20. CASE CancelNotifies
  BY <1>20 DEF CancelNotifies, NotifyStatusChanged
<1>21. CASE UNCHANGED vars
  BY <1>21 DEF vars
<1>22. QED
  BY <1>1, <1>2, <1>3, <1>4, <1>5, <1>6, <1>7, <1>8, <1>9, <1>10, <1>11, <1>12,
     <1>13, <1>14, <1>15, <1>16, <1>17, <1>18, <1>19, <1>20, <1>21 DEF Next,
     CreateStep, CancelStep, JobStep

----------------------------------------------------------------------------
\* A step moves the run's status up its ranking or leaves it alone.
LEMMA RunStep == TypeOK /\ [Next]_vars => run' = run \/ Rank(run') > Rank(run)
<1> SUFFICES ASSUME TypeOK, [Next]_vars PROVE run' = run \/ Rank(run') > Rank(run)
  OBVIOUS
<1>1. CASE run' = run
  BY <1>1
<1>2. CASE CreateRun
  BY <1>2 DEF CreateRun, Rank
<1>3. CASE MarkRunStarted
  BY <1>3 DEF MarkRunStarted, Rank
<1>4. ASSUME NEW status \in RunTerminal, MarkRunTerminal(status)
      PROVE  run' = run \/ Rank(run') > Rank(run)
  BY <1>4 DEF MarkRunTerminal, Rank, RunTerminal
<1>5. QED
  BY <1>1, <1>2, <1>3, <1>4
  DEF vars, Next, CreateStep, CancelStep, JobStep, RunTerminal, CreateFails,
      CreateJob, Claim, ClaimReadsRun, ClaimStartsRun, ClaimNotifies,
      DriverStarts, DriverStartLost, TerminateJob, Abandon, AdvanceLists,
      AdvanceSkips, AdvanceMarks, AdvanceNotifies, CancelReads, CancelJobs,
      CancelSkips, CancelMarks, CancelNotifies

----------------------------------------------------------------------------
\* The inductive invariant holds of every reachable state.
THEOREM Invariance == Spec => []Inv
  BY InitInv, InvStep, PTL DEF Spec

\* Every variable keeps its type: the statuses are those of the CHECK
\* constraints, and every AdvanceRun call holds a sequence_index or none.
THEOREM TypeCorrect == Spec => []TypeOK
<1>1. Inv => TypeOK
  BY DEF Inv
<1>2. QED
  BY <1>1, Invariance, PTL

\* No job is handed to two runners, whatever CreateRun, the polls, the
\* reports and the cancels interleave (ClaimNextWorkflowJobs).
THEOREM DeliveredOnce == Spec => []NoDoubleDelivery
<1>1. Inv => NoDoubleDelivery
  BY DEF Inv
<1>2. QED
  BY <1>1, Invariance, PTL

\* A job is never handed out before an earlier job of its run has left
\* "pending", although CreateRun inserts the rows one by one.
THEOREM InOrder == Spec => []NoOvertaking
<1>1. Inv => NoOvertaking
  BY DEF Inv
<1>2. QED
  BY <1>1, Invariance, PTL

\* Both together: every job is handed out once and in its turn.
THEOREM Delivered == Spec => []DeliveredInOrder
  BY DeliveredOnce, InOrder, PTL DEF DeliveredInOrder

\* Without a CancelRun, at most one job of a run is with a runner.
THEOREM Sequential == Spec => []OneJobAtATime
<1>1. Inv => OneJobAtATime
  BY DEF Inv
<1>2. QED
  BY <1>1, Invariance, PTL

\* A run reported failed keeps the failed job row that explains it.
THEOREM FailureExplained == Spec => []FailureHasACause
<1>1. Inv => FailureHasACause
  BY DEF Inv
<1>2. QED
  BY <1>1, Invariance, PTL

\* No handler moves a run's status backwards or out of a terminal status.
THEOREM StatusForward == Spec => RunMovesForward
<1>1. TypeOK /\ [Next]_vars => [Rank(run') > Rank(run)]_run
  BY RunStep
<1>2. QED
  BY <1>1, TypeCorrect, PTL DEF Spec, RunMovesForward

----------------------------------------------------------------------------
\* RunLife's view of a run: which steps leave which part of it alone.
RowsKeep(i) ==
    /\ (job'[i] \in {"absent", "pending"} <=> job[i] \in {"absent", "pending"})
    /\ (job'[i] = "failed" <=> job[i] = "failed")

LEMMA LifeInit == Init => Life!Init
  BY DEF Init, Life!Init, Left, Out, Bad, Held, ClaimStage, DriverStage

\* Statements that neither claim, report nor withdraw a job.
LEMMA LifeStutters ==
    ASSUME \A i \in Seqs : RowsKeep(i) /\ Held(i)' = Held(i), UNCHANGED <<run, cancels>>
    PROVE  UNCHANGED Life!vars
<1>1. Left' = Left /\ Bad' = Bad
  BY DEF Left, Bad, RowsKeep
<1>2. Out' = Out
  BY DEF Out
<1>3. QED
  BY <1>1, <1>2 DEF Life!vars

\* Only the status of the run changes.
LEMMA LifeMoves ==
    ASSUME Inv, Inv', run' # run, run = "absent" => run' = "pending",
           run' \in RunStatus, Rank(run') > Rank(run), UNCHANGED <<job, cancels>>,
           \A i \in Seqs : Held(i)' = Held(i)
    PROVE  Life!Next
<1>1. UNCHANGED <<Left, Bad, Out>>
  BY DEF Left, Bad, Out
<1>2. run' \in Life!After(run)
  BY DEF Life!After, Rank, RunStatus, Inv, TypeOK
<1>3. run' = "failed" => Bad # {}
  BY DEF Inv, FailureHasACause, Bad
<1>4. Life!Moves(run')
  BY <1>1, <1>2, <1>3 DEF Life!Moves
<1>5. QED
  BY <1>2, <1>4 DEF Life!Next

\* Jobs are skipped: they leave the queue without having been given out.
LEMMA LifeWithdraws ==
    ASSUME \A i \in Seqs : /\ job'[i] \in {"absent", "pending"} => job[i] \in {"absent", "pending"}
                           /\ job'[i] = "failed" <=> job[i] = "failed"
                           /\ Held(i)' = Held(i),
           UNCHANGED <<run, cancels>>
    PROVE  Life!Next
<1> DEFINE S == Left \ Left'
<1>1. S \in SUBSET Seqs /\ S \subseteq Left /\ Left' = Left \ S
  BY DEF Left
<1>2. Bad' = Bad /\ Out' = Out
  BY DEF Bad, Out
<1>3. Life!Withdraw(S)
  BY <1>1, <1>2 DEF Life!Withdraw
<1>4. QED
  BY <1>1, <1>3 DEF Life!Next

\* A job is reported, or lost with whoever had it.
LEMMA LifeGivesBack ==
    ASSUME NEW i \in Seqs, Held(i), ~Held(i)', job[i] \notin {"absent", "pending", "failed"},
           job'[i] \notin {"absent", "pending"},
           \A k \in Seqs \ {i} : RowsKeep(k) /\ Held(k)' = Held(k), UNCHANGED <<run, cancels>>
    PROVE  Life!Next
<1>1. Left' = Left
  BY DEF Left, RowsKeep
<1>2. Out' = Out \ {i} /\ i \in Out
  BY DEF Out
<1>3. Bad' = Bad \/ Bad' = Bad \cup {i}
  <2>1. CASE job'[i] = "failed"
    BY <2>1 DEF Bad, RowsKeep
  <2>2. CASE job'[i] # "failed"
    BY <2>2 DEF Bad, RowsKeep
  <2>3. QED
    BY <2>1, <2>2
<1>4. Life!GiveBack(i)
  BY <1>1, <1>2, <1>3 DEF Life!GiveBack
<1>5. QED
  BY <1>4 DEF Life!Next

\* Every statement is a step of RunLife or leaves its view alone.
LEMMA LifeStep == Inv /\ Inv' /\ [Next]_vars => [Life!Next]_Life!vars
<1> SUFFICES ASSUME Inv, Inv', [Next]_vars PROVE [Life!Next]_Life!vars
  OBVIOUS
<1> USE DEF Goto
<1>0. /\ pc \in [Seqs -> JobStage] /\ job \in [Seqs -> {"absent"} \cup JobStatus]
      /\ cancels \in Nat /\ run \in {"absent"} \cup RunStatus
  BY BoundsAssumption DEF Inv, TypeOK
<1>1. ASSUME UNCHANGED <<job, cancels>>, \A i \in Seqs : Held(i)' = Held(i),
             run = "absent" => run' \in {"absent", "pending"}
      PROVE  [Life!Next]_Life!vars
  <2>1. CASE run' = run
    BY <1>1, <2>1, LifeStutters DEF RowsKeep
  <2>2. CASE run' # run
    <3>1. Rank(run') > Rank(run)
      BY <2>2, RunStep DEF Inv
    <3>2. run' \in RunStatus
      BY <3>1 DEF Rank, Inv, TypeOK, RunStatus
    <3>3. QED
      BY <1>1, <2>2, <3>1, <3>2, LifeMoves
  <2>3. QED
    BY <2>1, <2>2
<1>2. CASE CreateRun
  BY <1>1, <1>2 DEF CreateRun, Held
<1>3. CASE CreateFails \/ CancelNotifies
  BY <1>1, <1>3 DEF CreateFails, CancelNotifies, Held
<1>4. CASE CancelMarks
  <2>1. run # "absent" \/ run' = "absent"
    BY <1>4 DEF CancelMarks, MarkRunTerminal
  <2>2. QED
    BY <1>1, <1>4, <2>1 DEF CancelMarks, Held
<1>5. ASSUME NEW i \in Seqs, CreateJob(i) PROVE [Life!Next]_Life!vars
  BY <1>0, <1>5, LifeStutters DEF CreateJob, RowsKeep, Held
<1>6. ASSUME NEW i \in Seqs, Claim(i) PROVE [Life!Next]_Life!vars
  <2>1. i \in Left /\ \A k \in Left : i <= k
    <3>1. \A k \in Left : k < i => job[k] = "absent"
      BY <1>6 DEF Claim, Left, JobTerminal
    <3>2. \A k \in Seqs : k < i => job[k] # "absent"
      BY <1>6 DEF Claim, Inv, InsertedInOrder
    <3>3. \A k \in Left : k \in Seqs /\ k \in Int
      BY NumJobsAssumption DEF Left, Seqs
    <3>4. QED
      BY <1>6, <3>1, <3>2, <3>3 DEF Claim, Left, Seqs
  <2>2. Out' = Out \cup {i}
    BY <1>0, <1>6 DEF Claim, Out, Held, ClaimStage
  <2>3. cancels > 0 \/ Out = {}
    <3>1. ASSUME cancels = 0, NEW k \in Out PROVE FALSE
      <4>1. k \in Seqs /\ job[k] = "running"
        BY <3>1 DEF Out, Inv, HeldIsRunning
      <4>2. i # k /\ ~(k < i)
        BY <1>6, <4>1 DEF Claim, JobTerminal
      <4>3. i < k
        BY <4>1, <4>2, NumJobsAssumption DEF Seqs
      <4>4. pc[k] # "none"
        BY <3>1 DEF Out, Held, ClaimStage, DriverStage
      <4>5. QED
        BY <1>6, <4>1, <4>3, <4>4 DEF Claim, Inv, NoOvertaking
    <3>2. QED
      BY <1>0, <3>1
  <2>4. Left' = Left \ {i} /\ Bad' = Bad
    BY <1>0, <1>6 DEF Claim, Left, Bad
  <2>5. Life!HandOut(i)
    BY <1>6, <2>1, <2>2, <2>3, <2>4 DEF Claim, Life!HandOut
  <2>6. QED
    BY <2>5 DEF Life!Next
<1>7. ASSUME NEW i \in Seqs, ClaimReadsRun(i) \/ ClaimNotifies(i) \/ DriverStartLost(i)
      PROVE  [Life!Next]_Life!vars
  <2>1. \A k \in Seqs : Held(k)' = Held(k)
    BY <1>0, <1>7 DEF ClaimReadsRun, ClaimNotifies, DriverStartLost, Held, ClaimStage, DriverStage
  <2>2. QED
    BY <1>1, <1>7, <2>1 DEF ClaimReadsRun, ClaimNotifies, DriverStartLost
<1>8. ASSUME NEW i \in Seqs, ClaimStartsRun(i) PROVE [Life!Next]_Life!vars
  <2>1. \A k \in Seqs : Held(k)' = Held(k)
    BY <1>0, <1>8 DEF ClaimStartsRun, Held, ClaimStage, DriverStage
  <2>2. QED
    BY <1>1, <1>8, <2>1 DEF ClaimStartsRun, MarkRunStarted
<1>9. ASSUME NEW i \in Seqs, DriverStarts(i) PROVE [Life!Next]_Life!vars
  <2>1. \A k \in Seqs : Held(k)' = Held(k)
    BY <1>0, <1>9 DEF DriverStarts, Held, ClaimStage, DriverStage
  <2>2. job[i] \notin {"absent", "pending", "failed"}
    BY <1>9 DEF DriverStarts, Inv, NoDoubleDelivery, FailedIsReported, HandlerStage
  <2>3. \A k \in Seqs : RowsKeep(k)
    BY <1>0, <1>9, <2>2 DEF DriverStarts, MarkJobRunning, RowsKeep
  <2>4. QED
    BY <1>9, <2>1, <2>3, LifeStutters DEF DriverStarts
<1>10. ASSUME NEW i \in Seqs, NEW status \in {"success", "failed"}, TerminateJob(i, status)
       PROVE  [Life!Next]_Life!vars
  <2>1. job[i] \notin {"absent", "pending", "failed"}
    BY <1>10 DEF TerminateJob, Inv, NoDoubleDelivery, FailedIsReported, HandlerStage
  <2>2. Held(i) /\ ~Held(i)' /\ \A k \in Seqs \ {i} : Held(k)' = Held(k)
    BY <1>0, <1>10 DEF TerminateJob, Held, ClaimStage, DriverStage
  <2>3. job'[i] = status /\ \A k \in Seqs \ {i} : RowsKeep(k)
    BY <1>0, <1>10 DEF TerminateJob, MarkJobTerminal, RowsKeep
  <2>4. QED
    BY <1>10, <2>1, <2>2, <2>3, LifeGivesBack DEF TerminateJob
<1>11. ASSUME NEW i \in Seqs, Abandon(i) PROVE [Life!Next]_Life!vars
  <2>1. ~Held(i)' /\ \A k \in Seqs \ {i} : Held(k)' = Held(k)
    BY <1>0, <1>11 DEF Abandon, Held, ClaimStage, DriverStage
  <2>2. CASE Held(i)
    <3>1. job[i] \notin {"absent", "pending", "failed"}
      BY <2>2 DEF Held, ClaimStage, DriverStage, Inv, NoDoubleDelivery, FailedIsReported, HandlerStage
    <3>2. QED
      BY <1>11, <2>1, <2>2, <3>1, LifeGivesBack DEF Abandon, RowsKeep
  <2>3. CASE ~Held(i)
    <3>1. Held(i)' = Held(i)
      <4>1. Held(i) \in BOOLEAN /\ Held(i)' \in BOOLEAN
        BY DEF Held
      <4>2. QED
        BY <2>1, <2>3, <4>1
    <3>2. \A k \in Seqs : Held(k)' = Held(k)
      BY <2>1, <3>1
    <3>3. QED
      BY <1>1, <1>11, <3>2 DEF Abandon
  <2>4. QED
    BY <2>2, <2>3
<1>12. ASSUME NEW i \in Seqs, AdvanceLists(i) PROVE [Life!Next]_Life!vars
  <2>1. \A k \in Seqs : Held(k)' = Held(k)
    BY <1>0, <1>12 DEF AdvanceLists, Held, ClaimStage, DriverStage
  <2>2. QED
    BY <1>1, <1>12, <2>1 DEF AdvanceLists
<1>13. ASSUME NEW i \in Seqs, AdvanceSkips(i) PROVE [Life!Next]_Life!vars
  <2>1. \A k \in Seqs : Held(k)' = Held(k)
    BY <1>0, <1>13 DEF AdvanceSkips, Held, ClaimStage, DriverStage
  <2>2. QED
    BY <1>13, <2>1, LifeWithdraws DEF AdvanceSkips, SkipRemainingJobs
<1>14. ASSUME NEW i \in Seqs, AdvanceMarks(i) PROVE [Life!Next]_Life!vars
  <2>1. \A k \in Seqs : Held(k)' = Held(k)
    BY <1>0, <1>14 DEF AdvanceMarks, Held, ClaimStage, DriverStage
  <2>2. run = "absent" => run' = "absent"
    BY <1>14 DEF AdvanceMarks, MarkRunTerminal
  <2>3. QED
    BY <1>1, <1>14, <2>1, <2>2 DEF AdvanceMarks
<1>15. ASSUME NEW i \in Seqs, AdvanceNotifies(i) PROVE [Life!Next]_Life!vars
  <2>1. \A k \in Seqs : Held(k)' = Held(k)
    BY <1>0, <1>15 DEF AdvanceNotifies, Held, ClaimStage, DriverStage
  <2>2. QED
    BY <1>1, <1>15, <2>1 DEF AdvanceNotifies
<1>16. CASE CancelReads
  <2>1. UNCHANGED <<Left, Out, Bad, run>> /\ run \in {"pending", "running"} /\ (cancels' > 0) = TRUE
    BY <1>0, <1>16 DEF CancelReads, Left, Out, Bad, Held, RunStatus, RunTerminal
  <2>2. Life!Ask
    BY <2>1 DEF Life!Ask
  <2>3. QED
    BY <2>2 DEF Life!Next
<1>17. CASE CancelJobs
  <2>1. \A k \in Seqs : RowsKeep(k)
    BY <1>0, <1>17 DEF CancelJobs, CancelRunningJobs, RowsKeep
  <2>2. QED
    BY <1>17, <2>1, LifeStutters DEF CancelJobs, Held
<1>18. CASE CancelSkips
  BY <1>18, LifeWithdraws DEF CancelSkips, SkipRemainingJobs, Held
<1>19. CASE UNCHANGED vars
  BY <1>1, <1>19 DEF vars, Held
<1>20. QED
  BY <1>2, <1>3, <1>4, <1>5, <1>6, <1>7, <1>8, <1>9, <1>10, <1>11, <1>12, <1>13,
     <1>14, <1>15, <1>16, <1>17, <1>18, <1>19 DEF Next, CreateStep, CancelStep, JobStep

\* A run keeps the promise of RunLife: whatever CreateRun, polls, reports,
\* faults and cancels interleave, its jobs are given out in their order and
\* once, and it ends once, and as failed only for a job that failed.
THEOREM ImplementsLife == Spec => KeepsLife
<1>1. Inv /\ Inv' /\ [Next]_vars => [Life!Next]_Life!vars
  BY LifeStep
<1>2. QED
  BY LifeInit, <1>1, Invariance, PTL DEF Spec, KeepsLife, Life!Spec
=============================================================================
