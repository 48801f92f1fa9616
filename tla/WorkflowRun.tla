---------------------------- MODULE WorkflowRun ----------------------------
(***************************************************************************)
(* One workflow run and its jobs, from CreateRun to the last notification. *)
(*                                                                         *)
(* Every database statement is one step, because the code runs them one by *)
(* one with no transaction around them.  The actors that interleave are    *)
(* the CreateRun call inserting the job rows, the runners claiming jobs    *)
(* (one driver per claimed job), the TerminateWorkflowJob handlers with    *)
(* the AdvanceRun call each of them makes, and users calling CancelRun.    *)
(*                                                                         *)
(* Runs share no row: every statement is scoped by a run id or a job id,   *)
(* and a batch claimed by one poll is as many single claims of different   *)
(* runs.  One run is therefore modelled.                                   *)
(***************************************************************************)
EXTENDS Integers, Sequences, FiniteSets

CONSTANTS
    NumJobs,        \* jobs the workflow declares
    MaxCancels,     \* bound: CancelRun requests
    MaxFaults       \* bound: lost calls and crashes

ASSUME NumJobsAssumption == NumJobs \in Nat \ {0}
ASSUME BoundsAssumption  == MaxCancels \in Nat /\ MaxFaults \in Nat

VARIABLES
    run,        \* workflow_runs.status, "absent" before the insert
    job,        \* workflow_job_runs.status by sequence_index
    creating,   \* CreateRun is still inserting job rows
    pc,         \* where the work on each claimed job stands
    failedAt,   \* failedJobSeq read by the AdvanceRun call made for each job
    cpc,        \* where the CancelRun call stands
    told,       \* statuses handed to the RunStatusObservers, in order
    cancels,    \* CancelRun requests made (bounded by MaxCancels)
    faults      \* faults injected (bounded by MaxFaults)

vars == <<run, job, creating, pc, failedAt, cpc, told, cancels, faults>>

Seqs        == 0 .. NumJobs - 1
RunStatus   == {"pending", "running", "success", "failed", "cancelled"}
RunTerminal == {"success", "failed", "cancelled"}
JobStatus   == {"pending", "running", "success", "failed", "skipped", "cancelled"}
JobTerminal == {"success", "failed", "skipped", "cancelled"}

\* The stages of a claimed job: the claim's follow-up on the server, the
\* driver on the runner, the TerminateWorkflowJob handler on the server.
ClaimStage   == {"claimed", "start", "tellStart"}
DriverStage  == {"delivered", "working"}
HandlerStage == {"list", "skip", "fail", "succeed", "tell"}
JobStage     == {"none", "done", "lost"} \cup ClaimStage \cup DriverStage
                    \cup HandlerStage
CancelStage  == {"idle", "cancelJobs", "skipJobs", "mark", "tell", "returned"}

\* Job i is with a runner, or on its way to one.
Held(i) == pc[i] \in ClaimStage \cup DriverStage

Goto(i, stage) == pc' = [pc EXCEPT ![i] = stage]

Init ==
    /\ run = "absent"
    /\ job = [i \in Seqs |-> "absent"]
    /\ creating = FALSE
    /\ pc = [i \in Seqs |-> "none"]
    /\ failedAt = [i \in Seqs |-> -1]
    /\ cpc = "idle"
    /\ told = <<>>
    /\ cancels = 0
    /\ faults = 0

----------------------------------------------------------------------------
(* The guarded and unguarded UPDATE statements.                             *)

MarkRunStarted == run' = IF run = "pending" THEN "running" ELSE run

\* Mutant: the status of a run that has ended is overwritten.
MarkRunTerminalAgain(status) == run' = status

MarkRunTerminal(status) ==
    run' = IF run \in {"pending", "running"} THEN status ELSE run

MarkJobRunning(i) == job' = [job EXCEPT ![i] = "running"]

MarkJobTerminal(i, status) == job' = [job EXCEPT ![i] = status]

\* Mutant: jobs already running are skipped as well.
SkipRemainingAndRunning(after) ==
    job' = [i \in Seqs |-> IF job[i] \in {"pending", "running"} /\ i > after
                           THEN "skipped" ELSE job[i]]

SkipRemainingJobs(after) ==
    job' = [i \in Seqs |-> IF job[i] = "pending" /\ i > after
                           THEN "skipped" ELSE job[i]]

CancelRunningJobs ==
    job' = [i \in Seqs |-> IF job[i] = "running" THEN "cancelled" ELSE job[i]]

\* Mutant: observers are not called.
NotifyNobody == UNCHANGED told

\* The run is read again after the change, so an observer sees the status
\* of that later moment.
NotifyStatusChanged == told' = Append(told, run)

----------------------------------------------------------------------------
(* CreateRun: the run row, then the job rows one by one.                    *)

CreateRun ==
    /\ run = "absent"
    /\ run' = "pending"
    /\ creating' = TRUE
    /\ UNCHANGED <<job, pc, failedAt, cpc, told, cancels, faults>>

\* Mutant: the rows are inserted in no particular order.
CreateJobAnyOrder(i) ==
    /\ creating
    /\ job[i] = "absent"
    /\ job' = [job EXCEPT ![i] = "pending"]
    /\ creating' = (\E k \in Seqs \ {i} : job[k] = "absent")
    /\ UNCHANGED <<run, pc, failedAt, cpc, told, cancels, faults>>

CreateJob(i) ==
    /\ creating
    /\ job[i] = "absent"
    /\ \A k \in Seqs : k < i => job[k] # "absent"
    /\ job' = [job EXCEPT ![i] = "pending"]
    /\ creating' = (i + 1 \in Seqs)
    /\ UNCHANGED <<run, pc, failedAt, cpc, told, cancels, faults>>

\* An insert fails, or the server stops: the rows already there stay.
CreateFails ==
    /\ creating
    /\ faults < MaxFaults
    /\ creating' = FALSE
    /\ faults' = faults + 1
    /\ UNCHANGED <<run, job, pc, failedAt, cpc, told, cancels>>

----------------------------------------------------------------------------
(* ClaimNextJobs: a poll takes a pending job with no unfinished predecessor *)
(* in its run.  The run's own status plays no part.                         *)

\* Mutant: the claim does not change the row's status.
ClaimWithoutUpdate(i) ==
    /\ job[i] = "pending"
    /\ \A k \in Seqs : k < i => job[k] \in JobTerminal \cup {"absent"}
    /\ Goto(i, "claimed")
    /\ UNCHANGED <<run, job, creating, failedAt, cpc, told, cancels, faults>>

\* Mutant: only a predecessor that succeeded unblocks a job.
ClaimAfterSuccess(i) ==
    /\ job[i] = "pending"
    /\ \A k \in Seqs : k < i => job[k] \in {"success", "skipped", "absent"}
    /\ job' = [job EXCEPT ![i] = "running"]
    /\ Goto(i, "claimed")
    /\ UNCHANGED <<run, creating, failedAt, cpc, told, cancels, faults>>

Claim(i) ==
    /\ job[i] = "pending"
    /\ \A k \in Seqs : k < i => job[k] \in JobTerminal \cup {"absent"}
    /\ job' = [job EXCEPT ![i] = "running"]
    /\ Goto(i, "claimed")
    /\ UNCHANGED <<run, creating, failedAt, cpc, told, cancels, faults>>

ClaimReadsRun(i) ==
    /\ pc[i] = "claimed"
    /\ Goto(i, IF run = "pending" THEN "start" ELSE "delivered")
    /\ UNCHANGED <<run, job, creating, failedAt, cpc, told, cancels, faults>>

ClaimStartsRun(i) ==
    /\ pc[i] = "start"
    /\ MarkRunStarted
    /\ Goto(i, "tellStart")
    /\ UNCHANGED <<job, creating, failedAt, cpc, told, cancels, faults>>

ClaimNotifies(i) ==
    /\ pc[i] = "tellStart"
    /\ NotifyStatusChanged
    /\ Goto(i, "delivered")
    /\ UNCHANGED <<run, job, creating, failedAt, cpc, cancels, faults>>

----------------------------------------------------------------------------
(* The driver on the runner: report the job as running (again), work, and  *)
(* report how it ended.  Neither report looks at the row's status.         *)

DriverStarts(i) ==
    /\ pc[i] = "delivered"
    /\ MarkJobRunning(i)
    /\ Goto(i, "working")
    /\ UNCHANGED <<run, creating, failedAt, cpc, told, cancels, faults>>

\* The call fails: the driver logs it and carries on.
DriverStartLost(i) ==
    /\ pc[i] = "delivered"
    /\ faults < MaxFaults
    /\ faults' = faults + 1
    /\ Goto(i, "working")
    /\ UNCHANGED <<run, job, creating, failedAt, cpc, told, cancels>>

\* Mutant: the run is not advanced when a job has failed.
TerminateJobQuietly(i, status) ==
    /\ pc[i] = "working"
    /\ MarkJobTerminal(i, status)
    /\ Goto(i, IF status = "failed" THEN "done" ELSE "list")
    /\ UNCHANGED <<run, creating, failedAt, cpc, told, cancels, faults>>

TerminateJob(i, status) ==
    /\ pc[i] = "working"
    /\ MarkJobTerminal(i, status)
    /\ Goto(i, "list")
    /\ UNCHANGED <<run, creating, failedAt, cpc, told, cancels, faults>>

\* The runner crashes or is stopped, the response carrying the task is
\* lost, the report is lost, or the server stops inside the handler:
\* nothing takes this work up again.
Abandon(i) ==
    /\ pc[i] \in ClaimStage \cup DriverStage \cup HandlerStage
    /\ faults < MaxFaults
    /\ faults' = faults + 1
    /\ Goto(i, "lost")
    /\ UNCHANGED <<run, job, creating, failedAt, cpc, told, cancels>>

----------------------------------------------------------------------------
(* AdvanceRun, called by each TerminateWorkflowJob handler.                 *)

\* Mutant: a run with a finished job is failed whatever the job's status.
AdvanceAlwaysFails(i) ==
    /\ pc[i] = "list"
    /\ failedAt' = [failedAt EXCEPT ![i] = i]
    /\ Goto(i, "skip")
    /\ UNCHANGED <<run, job, creating, cpc, told, cancels, faults>>

AdvanceLists(i) ==
    /\ pc[i] = "list"
    /\ \/ \E f \in Seqs :
            /\ job[f] = "failed"
            /\ \A k \in Seqs : k > f => job[k] # "failed"
            /\ failedAt' = [failedAt EXCEPT ![i] = f]
            /\ Goto(i, "skip")
       \/ /\ \A k \in Seqs : job[k] # "failed"
          /\ \E k \in Seqs : job[k] \in {"pending", "running"}
          /\ Goto(i, "done")
          /\ UNCHANGED failedAt
       \/ /\ \A k \in Seqs : job[k] \notin {"failed", "pending", "running"}
          /\ Goto(i, "succeed")
          /\ UNCHANGED failedAt
    /\ UNCHANGED <<run, job, creating, cpc, told, cancels, faults>>

AdvanceSkips(i) ==
    /\ pc[i] = "skip"
    /\ SkipRemainingJobs(failedAt[i])
    /\ Goto(i, "fail")
    /\ UNCHANGED <<run, creating, failedAt, cpc, told, cancels, faults>>

AdvanceMarks(i) ==
    /\ \/ pc[i] = "fail"    /\ MarkRunTerminal("failed")
       \/ pc[i] = "succeed" /\ MarkRunTerminal("success")
    /\ Goto(i, "tell")
    /\ UNCHANGED <<job, creating, failedAt, cpc, told, cancels, faults>>

AdvanceNotifies(i) ==
    /\ pc[i] = "tell"
    /\ NotifyStatusChanged
    /\ Goto(i, "done")
    /\ UNCHANGED <<run, job, creating, failedAt, cpc, cancels, faults>>

----------------------------------------------------------------------------
(* CancelRun: read the run, then three UPDATEs and the notification.        *)

CancelReads ==
    /\ cpc \in {"idle", "returned"}
    /\ cancels < MaxCancels
    /\ run \in RunStatus \ RunTerminal
    /\ cancels' = cancels + 1
    /\ cpc' = "cancelJobs"
    /\ UNCHANGED <<run, job, creating, pc, failedAt, told, faults>>

CancelJobs ==
    /\ cpc = "cancelJobs"
    /\ CancelRunningJobs
    /\ cpc' = "skipJobs"
    /\ UNCHANGED <<run, creating, pc, failedAt, told, cancels, faults>>

CancelSkips ==
    /\ cpc = "skipJobs"
    /\ SkipRemainingJobs(-1)
    /\ cpc' = "mark"
    /\ UNCHANGED <<run, creating, pc, failedAt, told, cancels, faults>>

CancelMarks ==
    /\ cpc = "mark"
    /\ MarkRunTerminal("cancelled")
    /\ cpc' = "tell"
    /\ UNCHANGED <<job, creating, pc, failedAt, told, cancels, faults>>

CancelNotifies ==
    /\ cpc = "tell"
    /\ NotifyStatusChanged
    /\ cpc' = "returned"
    /\ UNCHANGED <<run, job, creating, pc, failedAt, cancels, faults>>

----------------------------------------------------------------------------
CreateStep  == CreateRun \/ CreateFails \/ \E i \in Seqs : CreateJob(i)
CancelStep  == CancelJobs \/ CancelSkips \/ CancelMarks \/ CancelNotifies
JobStep(i)  ==
    \/ Claim(i)
    \/ ClaimReadsRun(i)
    \/ ClaimStartsRun(i)
    \/ ClaimNotifies(i)
    \/ DriverStarts(i)
    \/ \E status \in {"success", "failed"} : TerminateJob(i, status)
    \/ AdvanceLists(i)
    \/ AdvanceSkips(i)
    \/ AdvanceMarks(i)
    \/ AdvanceNotifies(i)

Next ==
    \/ CreateStep
    \/ CancelReads
    \/ CancelStep
    \/ \E i \in Seqs : JobStep(i) \/ DriverStartLost(i) \/ Abandon(i)

Spec == Init /\ [][Next]_vars

\* Runners poll for ever, a driver works through its job (steps are bounded
\* by the job timeout), and a handler that was entered runs to its end
\* unless a fault is injected.  Nobody has to create or cancel a run.
Fairness ==
    /\ WF_vars(\E i \in Seqs : CreateJob(i))
    /\ WF_vars(CancelStep)
    /\ \A i \in Seqs : WF_vars(JobStep(i))

FairSpec == Spec /\ Fairness

----------------------------------------------------------------------------
TypeOK ==
    /\ run \in {"absent"} \cup RunStatus
    /\ job \in [Seqs -> {"absent"} \cup JobStatus]
    /\ creating \in BOOLEAN
    /\ pc \in [Seqs -> JobStage]
    /\ failedAt \in [Seqs -> Seqs \cup {-1}]
    /\ cpc \in CancelStage
    /\ told \in Seq({"absent"} \cup RunStatus)
    /\ cancels \in 0 .. MaxCancels
    /\ faults \in 0 .. MaxFaults

\* A job row that a poll could still claim has never been handed to a
\* runner: no two runners execute the same job (ClaimNextWorkflowJobs).
NoDoubleDelivery ==
    \A i \in Seqs : job[i] \in {"absent", "pending"} => pc[i] = "none"

\* A job that was handed out never overtook an earlier job of the run: every
\* earlier row exists and has left "pending", although CreateRun may still
\* be inserting rows while runners claim.
NoOvertaking ==
    \A i, k \in Seqs :
        k < i /\ pc[i] # "none" => job[k] \notin {"absent", "pending"}

\* A job is handed out once and in its turn, whatever polls, reports, a
\* cancel and CreateRun interleave.
DeliveredInOrder == NoDoubleDelivery /\ NoOvertaking

\* Until somebody cancels the run, at most one of its jobs is with a runner.
OneJobAtATime ==
    \A i, k \in Seqs : cancels = 0 /\ Held(i) /\ Held(k) => i = k

\* A run is only reported failed for a job of it that failed, and that
\* job's status stays there to explain it.
FailureHasACause ==
    run = "failed" => \E i \in Seqs : job[i] = "failed"

\* A run's status only moves forward: absent, pending, running, one of the
\* terminal statuses, which AdvanceRun and CancelRun never overwrite.
Rank(s) == CASE s = "absent"  -> 0
             [] s = "pending" -> 1
             [] s = "running" -> 2
             [] OTHER -> 3
RunMovesForward == [][Rank(run') > Rank(run)]_run

\* The statements, in whatever order they run, keep the promise of RunLife:
\* jobs are given out in their order and once, the run ends once, and not as
\* failed without a job that failed.
Left == {i \in Seqs : job[i] \in {"absent", "pending"}}
Out  == {i \in Seqs : Held(i)}
Bad  == {i \in Seqs : job[i] = "failed"}
Life == INSTANCE RunLife WITH Job <- Seqs, phase <- run, left <- Left, out <- Out,
                              bad <- Bad, asked <- (cancels > 0)
KeepsLife == Life!Spec

\* While no call is lost, a run that was created reaches a terminal status,
\* and its job rows settle: AdvanceRun's stale reads and CancelRun's partial
\* updates never leave the run waiting for a job nobody will report, and a
\* row inserted after the run ended, or revived by MarkJobRunning after a
\* cancel, does not stay open.
Unsettled  == {i \in Seqs : job[i] \in {"pending", "running"}}
RunEnds ==
    /\ run = "pending" ~> (run \in RunTerminal \/ faults > 0)
    /\ Unsettled # {} ~> (Unsettled = {} \/ faults > 0)

\* While no call is lost, the observers learn the status a run ends with.
EndIsAnnounced ==
    run \in RunTerminal ~> (faults > 0 \/ \E n \in 1 .. Len(told) : told[n] = run)
============================================================================
