------------------------------ MODULE JobDriver ------------------------------
(***************************************************************************)
(* WorkflowJobDriver.Run: how the runner carries one claimed workflow job  *)
(* through its working directory, its phases (image, container_start) and  *)
(* its steps, and what it tells the server on the way.                     *)
(*                                                                         *)
(* Calls to the server are logged and passed over when they fail, except   *)
(* those that make a release.  Two contexts can end under the driver: the  *)
(* runner's own, when it is stopped, and the deadline of the phase or of   *)
(* all the steps.  How a step's output reaches the log is left out.        *)
(*                                                                         *)
(* A step is known by its place in the job, which stands for its id; ids   *)
(* are distinct.  Outputs of a step are there or not.  Git, docker and the *)
(* processes in the container are external: a clone and the small docker   *)
(* commands end, a phase or a step may hang.                               *)
(***************************************************************************)
EXTENDS Integers, Sequences, FiniteSets

CONSTANTS
    Jobs,       \* sequences of steps
    MaxBroken   \* bound: calls and commands that fail

StepTypes == {"run", "script", "release"}

\* refs are the steps whose outputs a step's text names.
Steps == [type : StepTypes, refs : SUBSET Nat, assets : Nat, draft : BOOLEAN]

ASSUME JobsAssumption ==
    /\ MaxBroken \in Nat
    /\ Jobs \subseteq Seq(Steps)
    /\ \A steps \in Jobs : \A i \in DOMAIN steps : steps[i].refs \subseteq 1 .. (i - 1)

Phases == 1 .. 2
Settled == {"success", "skipped"}

VARIABLES
    job,        \* what is to be done
    pc,         \* where the driver stands
    n,          \* the phase or the step it is at
    outputs,    \* steps whose outputs the driver can put into later ones
    verdict,    \* what it reports of the job in the end
    returned,   \* "nil", or "error" when it never got to a step
    workdir,    \* the directory on the host is there
    container,  \* "none", "up", "cut": made by a command killed before it told
                \* the id, or "left": its removal failed
    stopping,   \* the runner is being stopped: its context has ended
    expired,    \* the deadline of the phase or of the steps has passed
    broken,     \* calls and commands that failed
    passed,     \* steps that ended well
    wrote,      \* those among them that produced outputs
    releases,   \* step -> what the server has of its release
    result,     \* the job on the server
    phases,     \* its phases there
    saved       \* steps whose outputs are stored there

driverVars == <<job, pc, n, outputs, verdict, returned, workdir, container, stopping, expired,
                broken, passed, wrote, releases, result, phases, saved>>
hostVars   == <<workdir, container>>
ghostVars  == <<passed, wrote>>
serverVars == <<releases, result, phases, saved>>
endVars    == <<verdict, returned>>

NoRelease == [exists |-> FALSE, assets |-> 0, published |-> FALSE]

DriverInit ==
    /\ job \in Jobs
    /\ pc = "begins" /\ n = 1
    /\ outputs = {} /\ verdict = "success" /\ returned = "nil"
    /\ workdir = FALSE /\ container = "none"
    /\ stopping = FALSE /\ expired = FALSE /\ broken = 0
    /\ passed = {} /\ wrote = {}
    /\ releases = [i \in DOMAIN job |-> NoRelease]
    /\ result = "running" /\ phases = [p \in Phases |-> "none"] /\ saved = {}

----------------------------------------------------------------------------
Fault == broken < MaxBroken /\ broken' = broken + 1

\* A call or command under a context that has ended (dead) does not happen.
Happens(dead) == ~dead /\ UNCHANGED broken
Breaks(dead) == (dead /\ UNCHANGED broken) \/ (~dead /\ Fault)

StepsDead == stopping \/ expired
Step == job[n]

RunnerStops ==
    /\ ~stopping /\ pc # "ended"
    /\ stopping' = TRUE
    /\ UNCHANGED <<job, pc, n, outputs, endVars, hostVars, expired, broken, ghostVars, serverVars>>

\* Mutant: a phase has no deadline.
ExpiresInSteps ==
    /\ ~expired /\ pc \in {"steps", "runs", "creates", "uploads", "made",
                           "captures", "reports", "failed"}
    /\ expired' = TRUE
    /\ UNCHANGED <<job, pc, n, outputs, endVars, hostVars, stopping, broken, ghostVars, serverVars>>

Expires ==
    /\ ~expired /\ pc \in {"works", "steps", "runs", "creates", "uploads", "made",
                           "captures", "reports", "failed"}
    /\ expired' = TRUE
    /\ UNCHANGED <<job, pc, n, outputs, endVars, hostVars, stopping, broken, ghostVars, serverVars>>

----------------------------------------------------------------------------
(* Before the steps.                                                        *)

\* The claim has already made the job running, so MarkWorkflowJobRunning
\* changes nothing.  The directory is removed later only if it was made.
MakesWorkdir ==
    /\ pc = "begins"
    /\ \/ workdir' = TRUE /\ pc' = "clones" /\ UNCHANGED <<broken, endVars>>
       \/ /\ Fault
          /\ verdict' = "failed" /\ returned' = "error" /\ pc' = "ends"
          /\ UNCHANGED workdir
    /\ UNCHANGED <<job, n, outputs, container, stopping, expired, ghostVars, serverVars>>

\* The clone, the image and the environment.
Clones ==
    /\ pc = "clones"
    /\ \/ Happens(stopping) /\ pc' = "registers" /\ UNCHANGED endVars
       \/ /\ Breaks(stopping)
          /\ verdict' = "failed" /\ returned' = "error" /\ pc' = "ends"
    /\ UNCHANGED <<job, n, outputs, hostVars, stopping, expired, ghostVars, serverVars>>

RegistersPhase ==
    /\ pc = "registers"
    /\ \/ Happens(stopping) /\ phases' = [phases EXCEPT ![n] = "pending"]
       \/ Breaks(stopping) /\ UNCHANGED phases
    /\ IF n = 2 THEN n' = 1 /\ pc' = "marks" ELSE n' = n + 1 /\ UNCHANGED pc
    /\ UNCHANGED <<job, outputs, endVars, hostVars, stopping, expired, ghostVars,
                   releases, result, saved>>

\* A new deadline begins with each phase.
MarksPhase ==
    /\ pc = "marks"
    /\ \/ /\ Happens(stopping)
          /\ phases' = IF phases[n] = "pending" THEN [phases EXCEPT ![n] = "running"] ELSE phases
       \/ Breaks(stopping) /\ UNCHANGED phases
    /\ pc' = "works" /\ expired' = FALSE
    /\ UNCHANGED <<job, n, outputs, endVars, hostVars, stopping, ghostVars, releases, result, saved>>

\* EnsureImagePulled or BuildImage.
ImageReady ==
    /\ pc = "works" /\ n = 1
    /\ Happens(StepsDead)
    /\ pc' \in {"skipped", "success"}
    /\ UNCHANGED <<job, n, outputs, endVars, hostVars, stopping, expired, ghostVars, serverVars>>

ContainerUp ==
    /\ pc = "works" /\ n = 2
    /\ Happens(StepsDead)
    /\ container' = "up" /\ pc' = "success"
    /\ UNCHANGED <<job, n, outputs, endVars, workdir, stopping, expired, ghostVars, serverVars>>

\* A docker create that is killed may have made the container; one that fails
\* to start is removed whether or not the context has ended.
PhaseFails ==
    /\ pc = "works"
    /\ Breaks(StepsDead)
    /\ pc' = "broke"
    /\ container' \in (IF n = 2 /\ StepsDead THEN {"none", "cut"} ELSE {"none"})
    /\ UNCHANGED <<job, n, outputs, endVars, workdir, stopping, expired, ghostVars, serverVars>>

SettlesPhase ==
    /\ pc \in Settled
    /\ \/ Happens(stopping) /\ phases' = IF phases[n] # "none" THEN [phases EXCEPT ![n] = pc] ELSE phases
       \/ Breaks(stopping) /\ UNCHANGED phases
    /\ IF n = 2 THEN n' = 1 /\ pc' = "opens" ELSE n' = n + 1 /\ pc' = "marks"
    /\ UNCHANGED <<job, outputs, endVars, hostVars, stopping, expired, ghostVars,
                   releases, result, saved>>

FailsPhase ==
    /\ pc = "broke"
    /\ \/ /\ Happens(stopping)
          /\ phases' = IF phases[n] # "none" THEN [phases EXCEPT ![n] = "failed"] ELSE phases
       \/ Breaks(stopping) /\ UNCHANGED phases
    /\ verdict' = "failed" /\ pc' = "ends"
    /\ UNCHANGED <<job, n, outputs, returned, hostVars, stopping, expired, ghostVars,
                   releases, result, saved>>

----------------------------------------------------------------------------
(* The steps, under one deadline.                                           *)

\* ensureStepOutputDir, whose failure is passed over; the image may have the
\* directory, so a step may write outputs all the same.
OpensSteps ==
    /\ pc = "opens"
    /\ expired' = FALSE /\ pc' = "steps"
    /\ UNCHANGED <<job, n, outputs, endVars, hostVars, stopping, broken, ghostVars, serverVars>>

\* expandStepOutputRefs.  A script is given the outputs as they are.
Expanded == Step.type = "script" \/ outputs = {} \/ Step.refs \subseteq outputs

StartsStep ==
    /\ pc = "steps" /\ n <= Len(job)
    /\ pc' = CASE ~Expanded -> "failed"
               [] Step.type = "release" -> "creates"
               [] OTHER -> "runs"
    /\ UNCHANGED <<job, n, outputs, endVars, hostVars, stopping, expired, broken, ghostVars, serverVars>>

\* Mutant: only an error of the command counts, not its exit code.
StepEndsAnyhow ==
    /\ pc = "runs"
    /\ \/ /\ Happens(StepsDead)
          /\ \E writes \in BOOLEAN :
                /\ passed' = passed \cup {n}
                /\ wrote' = IF writes THEN wrote \cup {n} ELSE wrote
          /\ pc' = "captures"
       \/ UNCHANGED <<broken, ghostVars>> /\ pc' = "captures"
    /\ UNCHANGED <<job, n, outputs, endVars, hostVars, stopping, expired, serverVars>>

\* runStep and scriptbridge's Run: an exit code, or an error.
StepEnds ==
    /\ pc = "runs"
    /\ \/ /\ Happens(StepsDead)
          /\ \E writes \in BOOLEAN :
                /\ passed' = passed \cup {n}
                /\ wrote' = IF writes THEN wrote \cup {n} ELSE wrote
          /\ pc' = "captures"
       \/ UNCHANGED <<broken, ghostVars>> /\ pc' = "failed"
    /\ UNCHANGED <<job, n, outputs, endVars, hostVars, stopping, expired, serverVars>>

\* The context that reads and reports outputs: a script, like a release, is
\* still under the deadline of the steps.
CaptureDead == IF Step.type = "run" THEN stopping ELSE StepsDead

Captures ==
    /\ pc = "captures"
    /\ \/ Happens(CaptureDead) /\ outputs' = IF n \in wrote THEN outputs \cup {n} ELSE outputs
       \/ Breaks(CaptureDead) /\ UNCHANGED outputs
    /\ pc' = "reports"
    /\ UNCHANGED <<job, n, endVars, hostVars, stopping, expired, ghostVars, serverVars>>

\* SetStepOutputs stores what it is given under the step's id.
Reports ==
    /\ pc = "reports"
    /\ \/ /\ Happens(CaptureDead)
          /\ saved' = IF n \in outputs THEN saved \cup {n} ELSE saved \ {n}
       \/ Breaks(CaptureDead) /\ UNCHANGED saved
    /\ pc' = "steps" /\ n' = n + 1
    /\ UNCHANGED <<job, outputs, endVars, hostVars, stopping, expired, ghostVars,
                   releases, result, phases>>

ReportsFailure ==
    /\ pc = "failed"
    /\ \/ Happens(stopping) /\ saved' = saved \ {n}
       \/ Breaks(stopping) /\ UNCHANGED saved
    /\ verdict' = "failed" /\ pc' = "ends"
    /\ UNCHANGED <<job, n, outputs, returned, hostVars, stopping, expired, ghostVars,
                   releases, result, phases>>

----------------------------------------------------------------------------
(* runReleaseStep.  A call whose answer is lost has happened all the same.  *)

AssetMissing ==
    /\ pc \in {"creates", "uploads"} /\ releases[n].assets < Step.assets
    /\ pc' = "failed"
    /\ UNCHANGED <<job, n, outputs, endVars, hostVars, stopping, expired, broken, ghostVars, serverVars>>

CreatesRelease ==
    /\ pc = "creates"
    /\ \/ Happens(StepsDead) /\ pc' = "uploads"
       \/ Fault /\ ~StepsDead /\ pc' = "failed"
    /\ releases' = [releases EXCEPT ![n].exists = TRUE]
    /\ UNCHANGED <<job, n, outputs, endVars, hostVars, stopping, expired, ghostVars,
                   result, phases, saved>>

UploadsAsset ==
    /\ pc = "uploads" /\ releases[n].assets < Step.assets
    /\ \/ Happens(StepsDead) /\ UNCHANGED pc
       \/ Fault /\ ~StepsDead /\ pc' = "failed"
    /\ releases' = [releases EXCEPT ![n].assets = @ + 1]
    /\ UNCHANGED <<job, n, outputs, endVars, hostVars, stopping, expired, ghostVars,
                   result, phases, saved>>

PublishesRelease ==
    /\ pc = "uploads" /\ releases[n].assets = Step.assets /\ ~Step.draft
    /\ \/ Happens(StepsDead) /\ pc' = "made"
       \/ Fault /\ ~StepsDead /\ pc' = "failed"
    /\ releases' = [releases EXCEPT ![n].published = TRUE]
    /\ UNCHANGED <<job, n, outputs, endVars, hostVars, stopping, expired, ghostVars,
                   result, phases, saved>>

KeepsDraft ==
    /\ pc = "uploads" /\ releases[n].assets = Step.assets /\ Step.draft
    /\ pc' = "made"
    /\ UNCHANGED <<job, n, outputs, endVars, hostVars, stopping, expired, broken, ghostVars, serverVars>>

\* A call that does not reach the server.
ReleaseFails ==
    /\ \/ pc = "creates"
       \/ pc = "uploads" /\ (releases[n].assets < Step.assets \/ ~Step.draft)
    /\ Breaks(StepsDead)
    /\ pc' = "failed"
    /\ UNCHANGED <<job, n, outputs, endVars, hostVars, stopping, expired, ghostVars, serverVars>>

\* The outputs of a release are fixed; they need no capture.
ReleaseMade ==
    /\ pc = "made"
    /\ passed' = passed \cup {n} /\ wrote' = wrote \cup {n}
    /\ outputs' = outputs \cup {n}
    /\ pc' = "reports"
    /\ UNCHANGED <<job, n, endVars, hostVars, stopping, expired, broken, serverVars>>

----------------------------------------------------------------------------
(* The end, and what is deferred.                                           *)

AllStepsDone ==
    /\ pc = "steps" /\ n > Len(job)
    /\ pc' = "ends"
    /\ UNCHANGED <<job, n, outputs, endVars, hostVars, stopping, expired, broken, ghostVars, serverVars>>

Terminates ==
    /\ pc = "ends"
    /\ \/ Happens(stopping) /\ result' = verdict
       \/ Breaks(stopping) /\ UNCHANGED result
    /\ pc' = IF container = "up" THEN "removes" ELSE "cleans"
    /\ UNCHANGED <<job, n, outputs, endVars, hostVars, stopping, expired, ghostVars,
                   releases, phases, saved>>

\* Mutant: the container is removed under the runner's context.
RemovesUnderContext ==
    /\ pc = "removes"
    /\ \/ Happens(stopping) /\ container' = "none"
       \/ Breaks(stopping) /\ UNCHANGED container
    /\ pc' = "cleans"
    /\ UNCHANGED <<job, n, outputs, endVars, workdir, stopping, expired, ghostVars, serverVars>>

RemovesContainer ==
    /\ pc = "removes"
    /\ \/ UNCHANGED broken /\ container' = "none"
       \/ Fault /\ container' = "left"
    /\ pc' = "cleans"
    /\ UNCHANGED <<job, n, outputs, endVars, workdir, stopping, expired, ghostVars, serverVars>>

RemovesWorkdir ==
    /\ pc = "cleans"
    /\ \/ UNCHANGED broken /\ workdir' = FALSE
       \/ workdir /\ Fault /\ UNCHANGED workdir
    /\ pc' = "ended"
    /\ UNCHANGED <<job, n, outputs, endVars, container, stopping, expired, ghostVars, serverVars>>

----------------------------------------------------------------------------
\* What the driver does by itself, not waiting for a command that may hang.
Proceeds ==
    \/ MakesWorkdir \/ Clones \/ RegistersPhase \/ MarksPhase
    \/ SettlesPhase \/ FailsPhase \/ OpensSteps \/ StartsStep
    \/ Captures \/ Reports \/ ReportsFailure
    \/ CreatesRelease \/ UploadsAsset \/ PublishesRelease \/ KeepsDraft \/ ReleaseFails
    \/ AssetMissing \/ ReleaseMade
    \/ AllStepsDone \/ Terminates \/ RemovesContainer \/ RemovesWorkdir

\* A command whose context has ended is killed.
Killed ==
    \/ StepsDead /\ PhaseFails
    \/ StepsDead /\ StepEnds

DriverNext ==
    \/ Proceeds
    \/ ImageReady \/ ContainerUp \/ PhaseFails \/ StepEnds
    \/ Expires \/ RunnerStops

DriverSpec == DriverInit /\ [][DriverNext]_driverVars

DriverFairness == WF_driverVars(Proceeds) /\ WF_driverVars(Killed) /\ WF_driverVars(Expires)

FairDriverSpec == DriverSpec /\ DriverFairness

----------------------------------------------------------------------------
\* A job the server has as a success is one: every step ended well, and every
\* release is complete and, unless it is a draft, published.  Nor does a job
\* that failed leave a release published without all its assets.
SuccessIsWhole ==
    /\ result = "success" =>
        /\ passed = DOMAIN job
        /\ \A i \in DOMAIN job : job[i].type = "release" =>
              releases[i] = [exists |-> TRUE, assets |-> job[i].assets,
                             published |-> ~job[i].draft]
    /\ \A i \in DOMAIN job : releases[i].published => releases[i].assets = job[i].assets

\* A container that came up is no longer there in the end, unless its removal
\* was tried and failed.
ContainerRemoved == pc = "ended" => container # "up"

\* The driver gets to its end although phases and steps may hang, and a
\* container that came up is then no longer there, even when the runner is
\* being stopped, unless the removal was tried and failed.
DriverEnds == <>[](pc = "ended" /\ container # "up")
=============================================================================
