----------------------------- MODULE RunnerLoop -----------------------------
(***************************************************************************)
(* The task loop of the runners: a dispatcher that asks the server for as  *)
(* many jobs as there are idle slots, the channel it feeds, the workers    *)
(* that run them, and the server that claims jobs for whoever asks.        *)
(*                                                                         *)
(* A slot is a token.  The dispatcher empties the channel of tokens before *)
(* it asks, spends one on each job it delivers and puts back the rest; a   *)
(* worker puts one back after a job.  Workers are alike and counted; the   *)
(* order of jobs in the channel is left out.  Which jobs of a workflow may *)
(* be claimed, and what running one reports, is WorkflowRun's subject.     *)
(***************************************************************************)
EXTENDS Naturals, FiniteSets

CONSTANTS
    Job,          \* the jobs there can be
    Runner,       \* the runners
    Nobody,       \* the owner of a job that was not claimed
    Parallelism,  \* slots and workers of each runner, a setting of its process
    MaxPerPoll,   \* maxTasksPerPoll
    MaxFaults     \* bound: failed polls and reports, panics and runner crashes

ASSUME RunnerAssumption ==
    /\ Nobody \notin Runner
    /\ IsFiniteSet(Job)
    /\ Parallelism \in [Runner -> Nat \ {0}]
    /\ MaxPerPoll \in Nat \ {0} /\ MaxFaults \in Nat

VARIABLES
    status,     \* workflow_job_runs.status
    owner,      \* workflow_job_runs.runner_id
    at,         \* where each dispatcher stands
    slots,      \* tokens in the channel of slots
    hand,       \* tokens the dispatcher holds: batch - delivered
    reply,      \* jobs claimed for a poll whose answer is under way
    tasks,      \* jobs received and not delivered yet
    jobs,       \* the channel of jobs
    running,    \* jobs in the hands of workers
    returning,  \* workers about to put their token back
    ended,      \* workers that have returned
    cancelled,  \* whether the runner's context is cancelled
    lost,       \* history: jobs let go without the server hearing of their end
    faults      \* failed polls and reports, panics and crashes so far

server == <<status, owner>>
tokens == <<at, slots, hand>>
work   == <<reply, tasks, jobs, running, returning, ended>>
vars   == <<server, tokens, work, cancelled, lost, faults>>

Status == {"absent", "pending", "running", "ended"}
Place  == {"take", "poll", "deliver", "backoff", "done"}

Pending == {j \in Job : status[j] = "pending"}
Held(r) == reply[r] \cup tasks[r] \cup jobs[r] \cup running[r]
Busy(r) == Cardinality(running[r]) + returning[r] + ended[r]

Init ==
    /\ status = [j \in Job |-> "absent"] /\ owner = [j \in Job |-> Nobody]
    /\ at = [r \in Runner |-> "take"]
    /\ slots = [r \in Runner |-> Parallelism[r]] /\ hand = [r \in Runner |-> 0]
    /\ reply = [r \in Runner |-> {}] /\ tasks = [r \in Runner |-> {}]
    /\ jobs = [r \in Runner |-> {}] /\ running = [r \in Runner |-> {}]
    /\ returning = [r \in Runner |-> 0] /\ ended = [r \in Runner |-> 0]
    /\ cancelled = [r \in Runner |-> FALSE]
    /\ lost = {} /\ faults = 0

-----------------------------------------------------------------------------
(* The server.                                                             *)

Submit(j) ==
    /\ status[j] = "absent"
    /\ status' = [status EXCEPT ![j] = "pending"]
    /\ UNCHANGED <<owner, tokens, work, cancelled, lost, faults>>

(* Mutants: the batch size is not a limit; a job that another claim has    *)
(* just taken is claimed again.                                            *)
ClaimUnbounded(r, S) ==
    /\ at[r] = "poll" /\ reply[r] = {}
    /\ S # {} /\ S \subseteq Pending /\ Cardinality(S) <= MaxPerPoll
    /\ status' = [j \in Job |-> IF j \in S THEN "running" ELSE status[j]]
    /\ owner' = [j \in Job |-> IF j \in S THEN r ELSE owner[j]]
    /\ reply' = [reply EXCEPT ![r] = S]
    /\ UNCHANGED <<tokens, tasks, jobs, running, returning, ended, cancelled, lost, faults>>

ClaimUnlocked(r, S) ==
    /\ at[r] = "poll" /\ reply[r] = {}
    /\ S # {} /\ S \subseteq Pending \cup UNION {reply[q] : q \in Runner}
    /\ Cardinality(S) <= hand[r] /\ Cardinality(S) <= MaxPerPoll
    /\ status' = [j \in Job |-> IF j \in S THEN "running" ELSE status[j]]
    /\ owner' = [j \in Job |-> IF j \in S THEN r ELSE owner[j]]
    /\ reply' = [reply EXCEPT ![r] = S]
    /\ UNCHANGED <<tokens, tasks, jobs, running, returning, ended, cancelled, lost, faults>>

(* A poll that waits claims as many jobs as it asked for, or fewer when    *)
(* there are fewer or another claim has locked them.                       *)
Claim(r, S) ==
    /\ at[r] = "poll" /\ reply[r] = {}
    /\ S # {} /\ S \subseteq Pending
    /\ Cardinality(S) <= hand[r] /\ Cardinality(S) <= MaxPerPoll
    /\ status' = [j \in Job |-> IF j \in S THEN "running" ELSE status[j]]
    /\ owner' = [j \in Job |-> IF j \in S THEN r ELSE owner[j]]
    /\ reply' = [reply EXCEPT ![r] = S]
    /\ UNCHANGED <<tokens, tasks, jobs, running, returning, ended, cancelled, lost, faults>>

-----------------------------------------------------------------------------
(* The dispatcher.                                                         *)

(* One token, then whatever else the channel holds.                        *)
TakesSlots(r) ==
    /\ at[r] = "take" /\ slots[r] > 0
    /\ hand' = [hand EXCEPT ![r] = slots[r]]
    /\ slots' = [slots EXCEPT ![r] = 0]
    /\ at' = [at EXCEPT ![r] = "poll"]
    /\ UNCHANGED <<server, work, cancelled, lost, faults>>

Receives(r) ==
    /\ at[r] = "poll" /\ reply[r] # {}
    /\ tasks' = [tasks EXCEPT ![r] = reply[r]]
    /\ reply' = [reply EXCEPT ![r] = {}]
    /\ at' = [at EXCEPT ![r] = "deliver"]
    /\ UNCHANGED <<server, slots, hand, jobs, running, returning, ended, cancelled, lost, faults>>

TimesOut(r) ==
    /\ at[r] = "poll" /\ reply[r] = {}
    /\ at' = [at EXCEPT ![r] = "deliver"]
    /\ UNCHANGED <<server, slots, hand, work, cancelled, lost, faults>>

(* The poll fails, with the answer lost when jobs were claimed for it; the *)
(* tokens go back.                                                         *)
PollFails(r) ==
    /\ at[r] = "poll" /\ faults < MaxFaults
    /\ faults' = faults + 1
    /\ reply' = [reply EXCEPT ![r] = {}] /\ lost' = lost \cup reply[r]
    /\ slots' = [slots EXCEPT ![r] = @ + hand[r]]
    /\ hand' = [hand EXCEPT ![r] = 0]
    /\ at' = [at EXCEPT ![r] = "backoff"]
    /\ UNCHANGED <<server, tasks, jobs, running, returning, ended, cancelled>>

Backoff(r) ==
    /\ at[r] = "backoff"
    /\ at' = [at EXCEPT ![r] = "take"]
    /\ UNCHANGED <<server, slots, hand, work, cancelled, lost, faults>>

(* Mutant: a cancelled poll waits for its answer.                          *)
PollOutlastsCancel(r) ==
    /\ at[r] = "poll" /\ cancelled[r] /\ reply[r] # {}
    /\ reply' = [reply EXCEPT ![r] = {}] /\ lost' = lost \cup reply[r]
    /\ at' = [at EXCEPT ![r] = "deliver"]
    /\ UNCHANGED <<server, slots, hand, tasks, jobs, running, returning, ended, cancelled, faults>>

(* A cancelled poll looks like one without work.                           *)
PollIsCancelled(r) ==
    /\ at[r] = "poll" /\ cancelled[r]
    /\ reply' = [reply EXCEPT ![r] = {}] /\ lost' = lost \cup reply[r]
    /\ at' = [at EXCEPT ![r] = "deliver"]
    /\ UNCHANGED <<server, slots, hand, tasks, jobs, running, returning, ended, cancelled, faults>>

Delivers(r, j) ==
    /\ at[r] = "deliver" /\ j \in tasks[r]
    /\ Cardinality(jobs[r]) < Parallelism[r]
    /\ tasks' = [tasks EXCEPT ![r] = @ \ {j}]
    /\ jobs' = [jobs EXCEPT ![r] = @ \cup {j}]
    /\ hand' = [hand EXCEPT ![r] = @ - 1]
    /\ UNCHANGED <<server, at, slots, reply, running, returning, ended, cancelled, lost, faults>>

(* Mutants: tokens that were not used are dropped; the channel of slots is *)
(* one too small.                                                          *)
GivesBackNothing(r) ==
    /\ at[r] = "deliver" /\ tasks[r] = {}
    /\ hand' = [hand EXCEPT ![r] = 0]
    /\ at' = [at EXCEPT ![r] = "take"]
    /\ UNCHANGED <<server, slots, work, cancelled, lost, faults>>
GivesBackBlocked(r) ==
    /\ at[r] = "deliver" /\ tasks[r] = {}
    /\ slots[r] + hand[r] < Parallelism[r]
    /\ slots' = [slots EXCEPT ![r] = @ + hand[r]]
    /\ hand' = [hand EXCEPT ![r] = 0]
    /\ at' = [at EXCEPT ![r] = "take"]
    /\ UNCHANGED <<server, work, cancelled, lost, faults>>

(* Sending a token blocks when the channel is full.                        *)
GivesBack(r) ==
    /\ at[r] = "deliver" /\ tasks[r] = {}
    /\ slots[r] + hand[r] <= Parallelism[r]
    /\ slots' = [slots EXCEPT ![r] = @ + hand[r]]
    /\ hand' = [hand EXCEPT ![r] = 0]
    /\ at' = [at EXCEPT ![r] = "take"]
    /\ UNCHANGED <<server, work, cancelled, lost, faults>>

(* Every select of the dispatcher may choose the cancelled context; jobs   *)
(* it had not delivered are lost.                                          *)
DispatcherStops(r) ==
    /\ at[r] \in {"take", "deliver", "backoff"} /\ cancelled[r]
    /\ at' = [at EXCEPT ![r] = "done"]
    /\ tasks' = [tasks EXCEPT ![r] = {}] /\ lost' = lost \cup tasks[r]
    /\ hand' = [hand EXCEPT ![r] = 0]
    /\ UNCHANGED <<server, slots, reply, jobs, running, returning, ended, cancelled, faults>>

-----------------------------------------------------------------------------
(* The workers.                                                            *)

WorkerTakes(r, j) ==
    /\ j \in jobs[r] /\ Busy(r) < Parallelism[r]
    /\ jobs' = [jobs EXCEPT ![r] = @ \ {j}]
    /\ running' = [running EXCEPT ![r] = @ \cup {j}]
    /\ UNCHANGED <<server, tokens, reply, tasks, returning, ended, cancelled, lost, faults>>

(* A job's driver returns and the server has its last report.              *)
JobEnds(r, j) ==
    /\ j \in running[r]
    /\ status' = [status EXCEPT ![j] = "ended"]
    /\ running' = [running EXCEPT ![r] = @ \ {j}]
    /\ returning' = [returning EXCEPT ![r] = @ + 1]
    /\ UNCHANGED <<owner, tokens, reply, tasks, jobs, ended, cancelled, lost, faults>>

(* The driver panics, which runJob recovers without a report, or its last  *)
(* report fails, which terminate only logs; a cancelled context is enough  *)
(* for that.  The row stays running.                                       *)
EndsUnreported(r, j) ==
    /\ j \in running[r]
    /\ faults' = IF cancelled[r] THEN faults ELSE faults + 1
    /\ faults' <= MaxFaults
    /\ running' = [running EXCEPT ![r] = @ \ {j}] /\ lost' = lost \cup {j}
    /\ returning' = [returning EXCEPT ![r] = @ + 1]
    /\ UNCHANGED <<server, tokens, reply, tasks, jobs, ended, cancelled>>

WorkerReturnsSlot(r) ==
    /\ returning[r] > 0 /\ slots[r] < Parallelism[r]
    /\ returning' = [returning EXCEPT ![r] = @ - 1]
    /\ slots' = [slots EXCEPT ![r] = @ + 1]
    /\ UNCHANGED <<server, at, hand, reply, tasks, jobs, running, ended, cancelled, lost, faults>>

WorkerStops(r) ==
    /\ cancelled[r]
    /\ \/ Busy(r) < Parallelism[r] /\ UNCHANGED returning
       \/ returning[r] > 0 /\ returning' = [returning EXCEPT ![r] = @ - 1]
    /\ ended' = [ended EXCEPT ![r] = @ + 1]
    /\ UNCHANGED <<server, tokens, reply, tasks, jobs, running, cancelled, lost, faults>>

-----------------------------------------------------------------------------
(* The runner's process.                                                   *)

Cancel(r) ==
    /\ ~cancelled[r]
    /\ cancelled' = [cancelled EXCEPT ![r] = TRUE]
    /\ UNCHANGED <<server, tokens, work, lost, faults>>

(* The process dies and is started again; nobody tells the server.  One    *)
(* that was told to stop stays down.                                       *)
Crash(r) ==
    /\ faults < MaxFaults /\ ~cancelled[r]
    /\ faults' = faults + 1
    /\ at' = [at EXCEPT ![r] = "take"]
    /\ slots' = [slots EXCEPT ![r] = Parallelism[r]] /\ hand' = [hand EXCEPT ![r] = 0]
    /\ reply' = [reply EXCEPT ![r] = {}] /\ tasks' = [tasks EXCEPT ![r] = {}]
    /\ jobs' = [jobs EXCEPT ![r] = {}] /\ running' = [running EXCEPT ![r] = {}]
    /\ returning' = [returning EXCEPT ![r] = 0] /\ lost' = lost \cup Held(r)
    /\ UNCHANGED <<server, ended, cancelled>>

Stopped(r) == at[r] = "done" /\ ended[r] = Parallelism[r]

-----------------------------------------------------------------------------
GoesOn(r) ==
    \/ TakesSlots(r) \/ Receives(r) \/ Backoff(r) \/ GivesBack(r) \/ PollIsCancelled(r)
    \/ \E j \in Job : Delivers(r, j)

Works(r) ==
    \/ WorkerReturnsSlot(r)
    \/ \E j \in Job : WorkerTakes(r, j) \/ JobEnds(r, j)

Stops(r) == DispatcherStops(r) \/ WorkerStops(r)

ServerClaims(r) == \E S \in SUBSET Job : Claim(r, S)

Next ==
    \/ \E j \in Job : Submit(j)
    \/ \E r \in Runner :
        \/ ServerClaims(r) \/ GoesOn(r) \/ Works(r) \/ Stops(r)
        \/ TimesOut(r) \/ PollFails(r) \/ Cancel(r) \/ Crash(r)
        \/ \E j \in Job : EndsUnreported(r, j)

Spec == Init /\ [][Next]_vars

(* Goroutines go on; the server tries to claim whenever it is asked; Go's  *)
(* select draws among the branches that are ready, so the branch of the    *)
(* cancelled context is not passed over for ever.                          *)
FairSpec ==
    /\ Spec
    /\ \A r \in Runner :
        /\ WF_vars(GoesOn(r)) /\ WF_vars(Works(r))
        /\ SF_vars(ServerClaims(r)) /\ SF_vars(Stops(r))

-----------------------------------------------------------------------------
(* Properties.                                                             *)

TypeOK ==
    /\ status \in [Job -> Status] /\ owner \in [Job -> Runner \cup {Nobody}]
    /\ at \in [Runner -> Place]
    /\ slots \in [Runner -> Nat] /\ hand \in [Runner -> Nat]
    /\ reply \in [Runner -> SUBSET Job] /\ tasks \in [Runner -> SUBSET Job]
    /\ jobs \in [Runner -> SUBSET Job] /\ running \in [Runner -> SUBSET Job]
    /\ returning \in [Runner -> Nat] /\ ended \in [Runner -> Nat]
    /\ \A r \in Runner :
          {slots[r], hand[r], returning[r], ended[r]} \subseteq 0..Parallelism[r]
    /\ cancelled \in [Runner -> BOOLEAN]
    /\ lost \subseteq Job /\ faults \in 0..MaxFaults

(* Run's invariant: idle slots, jobs on their way and busy workers add up  *)
(* to the parallelism, with the tokens in the dispatcher's hand counted,   *)
(* until a shutdown drops some of them.                                    *)
Tokens(r) ==
    slots[r] + hand[r] + Cardinality(jobs[r]) + Cardinality(running[r]) + returning[r]
SlotsConserved ==
    \A r \in Runner : IF cancelled[r] THEN Tokens(r) <= Parallelism[r]
                                      ELSE Tokens(r) = Parallelism[r]

(* A job that is running for the server is in the hands of the runner that *)
(* asked for it and of no other, in whichever answer, channel or worker,   *)
(* as long as it was not one of those the code does lose: claimed for a    *)
(* poll whose answer did not arrive, in the hands of a runner when it died *)
(* or stopped delivering, or run to an end that was not reported.  What    *)
(* befell another job, or another runner, is no excuse.                    *)
ClaimedIsHeld ==
    \A j \in Job : status[j] = "running" =>
        /\ \A r \in Runner : j \in Held(r) => r = owner[j]
        /\ owner[j] \in Runner /\ (j \in Held(owner[j]) \/ j \in lost)

(* The runners keep the promise of TaskPool.                               *)
HeldBy == [r \in Runner |-> Held(r)]
LetGo  == {j \in Job : status[j] \in {"running", "ended"} /\ \A r \in Runner : j \notin Held(r)}
Pool   == INSTANCE TaskPool WITH waiting <- Pending, held <- HeldBy, gone <- LetGo
KeepsPromise == Pool!Spec

(* Every job is run to an end the server knows of, but for the ones that   *)
(* were lost and the ones whose runner was told to stop, as long as some   *)
(* runner is not: a failed poll, a panic, a crash or the stop of another   *)
(* runner never starves the others.                                        *)
Outstanding ==
    {j \in Job \ lost : \/ status[j] = "pending"
                        \/ status[j] = "running" /\ ~cancelled[owner[j]]}
QueueDrains == Outstanding # {} ~> (Outstanding = {} \/ \A r \in Runner : cancelled[r])

(* Runners told to stop come to an end, whatever they were doing.          *)
StopsWhenCancelled ==
    (\E r \in Runner : cancelled[r]) ~> (\A r \in Runner : cancelled[r] => Stopped(r))
=============================================================================
