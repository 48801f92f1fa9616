# Hangrix, specified

Hangrix is a git host whose issues are worked on by agents. A server (Go, one
Postgres) keeps repositories, issues, workflow runs and agent sessions; runners
poll it for jobs; a job either runs the steps of a CI workflow or boots an agent
process, which holds a conversation with a language model and is fed events by
the server over a stream.

This directory holds TLA+ models of the parts whose correctness depends on the
order of things, the TLC runs that check them and the TLAPS proofs about them.
Everything is translated from the code; a property states what the code is
meant to do; where the code does otherwise, section 4 says against which line of
the docs or comments.

    tlc -workers 2 -config AgentSession_serial.cfg MCAgentSession
    tlapm Session_proofs.tla

## 1. The system

| Part | State | Operations | What is hard | Module |
|---|---|---|---|---|
| workflow service and tables (`modules/workflow`) | a run, its jobs, their statuses | CreateRun, ClaimNextJobs, MarkJobRunning, TerminateJob, AdvanceRun, CancelRun, notification of observers | no transaction spans two statements; many runners poll; CancelRun overlaps all of it | `WorkflowRun`, `RunLife` |
| runner's job driver (`hangrix-runner/internal/loop/workflow.go`) | the job in hand, its directory and container, captured outputs | phases, steps, releases, reports, what is removed in the end | two contexts that end under it; calls that fail and are passed over; commands that hang | `JobDriver`; its reports in `WorkflowRun` |
| runner's task loop (`loop.go`) | slots, jobs channel, workers | poll, deliver, run, return the slot | slot accounting, shutdown with undelivered tasks | `RunnerLoop`, `TaskPool` |
| cleanup sweeper (`cleanup.go`) | the server's cleanup flags | list, remove, acknowledge | errors between list and acknowledge | none (section 7) |
| spawner (`agent_session/service/spawner.go`) | session rows, inputs queues | OnTrigger: gates, list, then enqueue, rewake or create; dispatch | several triggers at once; an agent leaving while it is being fed; a failure half-way | `AgentSession`, `SessionLife` |
| controller and archiver | the same rows | Stop, Reset, Delete, Resume, Recover, OnIssueClosed | they overlap OnTrigger and the agent | `AgentSession`, `SessionLife` |
| session streams (`runner/handler/agent_connect.go`) | unconsumed inputs | StreamInputs, FetchHistory, AppendMessage, MarkIdle | inputs consumed before they are sent; repair of a history cut in mid-turn | `AgentSession`, `SessionHistory`, `History` |
| agent transport (`connect_transport.go`) | frame queue, stream, last frame time | relay, StreamFrame, idle grace, keep-alive, Shutdown | end of stream against buffered frames; the grace against a long turn | `AgentLoop` |
| agent loop (`runtime/loop.go`) | conversation, inbox, pending items, suspended | turns, folding events into a turn, compaction, nudges, sleep | input at every point of a turn; suspension; window of the conversation | `AgentLoop` |
| background jobs (`tools/local/bash.go`) | tasks, schedules, notification channel | start, finish, sleep, clean up | the wake-up against the end of the process | `AgentLoop` |
| issues, contributions, merge (`modules/issue`, `modules/git`) | issue state, contribution rows, branches, votes | create, push, sync, review, apply, merge, close, clean up | git and database change separately; requests overlap without locks | `Contribution` |
| plan engine (`modules/plan_engine`) | dependencies, dispatch table, steps used | OnChildClosed, add and remove an edge | what was read goes stale; cycles closed by two requests; the table dies with the server | `PlanEngine` |
| questionnaires (`modules/questionnaire`) | the form, its answer, its status; the schedule of the agent that waits | ask, submit, close, build the result, wake the asker | users who submit at once; an answer against a close; an answer before the agent waits | planned |
| repository silence (`modules/repo_silence`) | one row per repository, the last firing of each schedule | Enter, Exit, scan | people and the scheduler write the same row under an optimistic lock | `RepoSilence` |
| automations (`modules/automation`) | runs, a map of tasks seen first | scan, trigger, dedup, execute, change of the configuration file | look before insert; a run that is not known to have succeeded; restarts | planned |
| branches of a repository (`modules/git`, `modules/repo`) | refs, objects, a temporary index | push, online edit, merge, create, configuration commit | some writers compare before they set a ref, others do not | `Contribution`; blind writes planned |
| provider group router (`modules/llm_provider`, `modules/llm_proxy`) | groups, members and their health, providers | resolve, call, report; switch, replace, delete | reports of many requests cross; administrators change the list while it is used | `ModelRouter` |
| ioc container (`src/pkg/ioc`) | bindings, scopes, singletons | register, resolve, close | scope inheritance, construction once | planned |
| the rest | rows and files | CRUD, rendering, HTTP | see section 7 | none (section 7) |

How the parts interact. A **trigger** (an issue event, a comment that mentions a
role, a push, a finished CI run, a questionnaire answer) is a call of
`Spawner.OnTrigger`. It reads the session rows of the issue, and per role
creates a row, rewakes one, or only appends an event frame to the queue of a row
that is live. Creating and rewaking end with `CreateAgentRun`: a workflow run
with one job whose driver boots the agent. The agent authenticates with the
session's token, fetches its history, opens `StreamInputs` and works through
the frames; when none has come for five minutes it leaves and calls `MarkIdle`,
so that the next trigger rewakes the row. An ordinary **workflow run** is
created by a push or an issue event and moved on by the runners' reports; its
observers (the CI observer, check results, automations) are called on each
status change and may themselves trigger sessions. When a child of an epic is
merged the **plan engine** looks for issues that have become ready and triggers
their roles. An agent works on a **contribution**: it pushes a branch, other roles
review it, and once approved it is applied to the issue's branch, which a merge
brings into its base. Every request an agent makes of the model goes through the
**proxy**, which picks a member of the group the role is configured with. The
**silence** of a repository is one of the gates of OnTrigger.

## 2. What has to be true

For each part, what makes it correct, and the module that states it.

- workflow runs: a job is executed by one runner; jobs run in order, one at a
  time; a failed run has a failed job; every run that nobody abandons ends and
  the observers hear of it (`WorkflowRun`).
- sessions: a role has one open session per issue; a session has one agent; the
  event that opened a session is queued on it once; an archived session stays
  archived; a queued event is read, or its session rests and can be woken
  (`AgentSession`).
- history: what an agent boots with is a conversation the provider accepts, it
  keeps what was answered, and shows no event twice (`SessionHistory`).
- agent loop: events are folded into the conversation in order and none is
  forgotten; a request is one the provider accepts; no turn runs while
  suspended; no turn ends with an input unseen; a shutdown is honoured; work
  that is done wakes the model (`AgentLoop`).
- runner loop: slots, workers and undelivered tasks add up to the parallelism; a
  claimed job is in its runner's hands and no other's, or is one of those the
  code is known to lose; the rest of the queue drains; a runner told to stop
  stops (`RunnerLoop`, which implements `TaskPool`).
- contributions: only commits the review approved land, with two exceptions the
  code leaves open; an applied contribution is on a branch; a merged issue left
  nothing open; decisions are final (`Contribution`).
- plans: an issue is announced once, when what it waits for was done, within the
  budget, and in the end; dependencies have no cycle (`PlanEngine`).
- model groups: a request that is refused has tried everything it could, and
  the preferred member is tried first, but for members whose provider it could
  not read; a member rests as long as its failures ask for (`ModelRouter`).
- silence: a tick of a schedule opens its window once, unless the opening could
  not be audited; a silence that goes on keeps its beginning; a window closes
  (`RepoSilence`).
- jobs on the runner: a success is whole, releases included; nothing is published
  half-made; the container is removed; the driver gets to its end (`JobDriver`).

## 3. The modules

### WorkflowRun

One run and `NumJobs` jobs. A step is one database statement, because the code
issues them one at a time without a transaction (also `CreateRun`, whose comment
says otherwise).

- `run`, `job` are the two status columns. A row that has not been inserted is
  "absent"; a job's `sequence_index` is its name.
- `pc[i]` is where the work on a claimed job stands: in the poll that claimed it
  (`claimed`, `start`, `tellStart`: ClaimNextJobs re-reads the run, starts it,
  notifies), with the driver on the runner (`delivered`, `working`), or in the
  TerminateWorkflowJob handler with its AdvanceRun call (`list` ... `tell`).
  `failedAt` is the `failedJobSeq` that call computed from its list.
- `cpc` is where CancelRun stands: read, cancel the running rows, skip the
  pending ones, mark the run, notify.
- `told` is the sequence of statuses handed to the observers. The notifier reads
  the run again, so it passes on the status of that later moment.
- `CreateFails`, `DriverStartLost` and `Abandon` are the faults: a failed
  insert, a lost start report, and the loss of the work in any stage (the
  runner dies, a response or a report is lost, the server stops in a handler).

The statements keep their guards: MarkRunStarted and MarkRunTerminal look at the
run's status, the job updates do not. `Claim` is the whole claiming statement:
`FOR UPDATE SKIP LOCKED` with the status test makes it atomic, and a batch is a
sequence of such claims of different runs. Runs share no rows, hence one run.

`RunLife` is what somebody outside may rely on, in five variables: the run's
`phase` moves forward and ends once, not as failed unless a job was given back
as failed (`bad`); jobs that nobody has had yet (`left`) are handed out from the
first to the last, each once, and one at a time until a cancel is `asked` for;
what is `out` is given back or lost; what is left may be withdrawn.
`WorkflowRun!Life` is `RunLife` with `phase` the run's status, `left`, `out` and
`bad` computed from rows and runners (`Left`, `Out`, `Bad`), and `asked` whether
a CancelRun was called.

Left out: log lines, phases and outputs of steps, which trigger creates a run,
and agent runs (one job, no steps), which obey the same statements.

### AgentSession

The sessions of one role on one issue. No row is shared between roles or issues,
hence one of each. An OnTrigger call `t` is numbered, and so are the agent it
may dispatch and the event frame it may enqueue; frame 0 is `control:shutdown`.

- `status`, `cause`, `queue` are a row's status, the event it was created for
  and its unconsumed inputs. The statuses claimed, succeeded and cancelled are
  written by no code and have no value here. A row id is never used again
  ("deleted").
- `pc`, `event`, `row` are the local state of each call: where it stands, what
  it was called for and the row it works on. Between the list and the statement
  that acts on it anything may happen: that is the point of the module.
- `agent`, `stream` are the process the call dispatched (queued as a job, up,
  leaving, gone) and the server's StreamInputs handler for it, which outlives
  it: `StreamInputs` of a leaving agent consumes frames nobody reads (`lost`).
  The token is checked when a call or stream begins. Sessions keep their token
  when they are rewoken, so an agent of an earlier wake still counts for the
  row: its MarkIdle acts on it.
- `user` is the Stop, Reset or Delete being served, statement by statement.
  Resume and Recover are calls of OnTrigger with their own cause. No code sets
  `container_id` any more, so Delete removes the row.
- `issue` closes in two steps: the state, then the archiver.
- The silence gate answers from `SilenceReads`, at will. The batch limit of 50
  inputs is left out (a later poll takes the rest). `CallDies`, `DispatchFails`
  and `AgentDies` are the faults.

`SessionLife` is what somebody outside may rely on: a session is opened, wakes
and rests until it is archived, and what is archived can only be removed;
sessions are opened in their order; an agent works for one session; an event is
queued on one session or turned away, and read by an agent of that session once,
or by none. Two promises are conditional, as they are in the code. While events
come one at a time (`OneByOne`), a session is opened only when no other is open.
While besides nobody has asked to stop or reset a session (`meddled`), an agent
starts only on an awake session that has none, and a session that has an agent
does not change between awake and asleep under it. `AgentSession!Life` is
`SessionLife` with the state of a session read off the row's status (`State`),
its agents those that have booted and are not gone (`AtWork`), its events the
unconsumed frames but for shutdowns (`Waiting`), and `New` the events whose call
has neither queued nor dropped them.

Left out: which roles a trigger matches and the snapshot of their configuration
(inputs of a call), messages appended by the agent, token expiry.

### AgentLoop

One agent process, from its first stream to its exit.

- `inbox` is the frame queue of the transport, the pump's hand and the inbox
  channel in one; a frame that is still in the queue when the stream ends is
  taken for one that was not sent. `streaming` says that the pump still reads,
  `holding` is what `keepAlive` answered when StreamFrame last asked: it asks
  when it is called, after each frame, and again every 30 seconds as long as
  the answer is yes.
- `pending` is `pendingItems`, `msgs` the messages of the Context, reduced to
  their kinds and the number of the event, job or calls they stand for.
- `stage` is where the loop stands: `idle` in Run's select, `round` before the
  request, `call` while it is out, `tools` while the calls of a reply are
  carried out. `seen` is `preCallLen`, `shown` the inputs that were part of some
  request; `batch`, `todo`, `mention`, `summary` are the locals of a round;
  `nudged` and `empties` the one-shot flags and the empty-reply counter.
- `job` is the state of each piece of background work: running, asked (the
  endless schedule of `ask_question`), finished (its notification is on the
  channel), told, cancelled.

`drainPending` is the action `Fold` taken until the inbox is empty: `StartRound`
and the replies have the empty inbox in their guards. `Replay` comes before
`Receive` and `Wake`, as in Run. A reply is any of: empty, plain text, text that
earns a reminder, or a batch of up to `MaxBatch` calls; a call starts a job, sets
the summary, or does neither (it failed, or does nothing that matters here).

Left out: what messages say; retries of the same request (they change nothing);
malformed frames; the cap of 999999 rounds; a full inbox (64) or notification
channel (64). The fetched history is empty (see `SessionHistory`).

### SessionHistory and History

The message log of one session, and the agents that follow one another on it.
`AgentLoop` starts from an empty history; this module is about the other ones.

- `log` holds the rows by seq, `inputs` the unconsumed inputs. The two are filled
  by different statements: the event of a live session is only queued
  (`QueuesOntoLive`), a rewake queues and logs it, one statement after the
  other (`RewakeQueues`, `RewakeLogs`, `RewakeDispatches`; `call` says where it
  stands).
- Each agent `a` has its `stage`, its conversation `conv`, the `inbox` it has
  claimed, and the locals of its turn (`seen`, `todo`, `batch`, `stopping`). It
  logs each reply and each result with an RPC whose error is ignored:
  `AppendMessage` writes the row or, within `MaxLosses`, does not. `Dies` may come
  between any two of them.
- `History` holds the pure functions. `FetchHistory` is the composition the
  handler computes: rows become history items (a row of compact_session becomes
  two), trailing events are trimmed since the queue will deliver them, events
  inside a chain of results are put behind it (`NormalizeInterruptedChains`, a
  pass of `NormalizeStep`), and a tail of messages without their results is cut
  off. `LoadsHistory` adds the agent's own trim, and `Snapshot` is what a
  request contains.
- `WellFormed` is the provider's rule, which is not in this repository: the
  results of a message's calls follow it at once, and there are no others.

Left out: rows FetchHistory drops, and the notes an agent keeps only in memory.
OnTrigger calls do not overlap here; that is the subject of `AgentSession`.

### Contribution

Two issues, "root" and its sub-issue "sub", and the contributions to them.

- `state` is issues.state, `refs` and `tip` are git: the branches that exist and
  the commits reachable from each. `row` and `vote` are the contributions' rows
  and the last vote of each voter. Git and the database have no common
  transaction, which is the point of the module.
- `req[p]` is the request in slot `p`: a sequence of steps, one statement or one
  git call at a time, with what it has read so far. A push is authorised,
  received (`PushReceives`: it moves the ref or git refuses it, and the
  observers are told in either case) and then synced. A review loads the row,
  records the vote and recomputes the status. `ApplyLoads` ... `ApplyMarks`
  apply a contribution, `MergeLoads` ... `CleanEnds` merge an issue with its
  gates, its cleanup and the branches it deletes.
- `MergeReads` and `MergeSetsRef` are MergeBranch of the git module: both tips
  are read, then the ref is set, without comparing it to what was read.
- `PushMovesRef`: the new commit stands on the issue branch, on any contribution
  branch or on neither, as git lets it. `content` remembers what is reachable
  from each pushed commit.
- `config` is the host configuration, a file on the default branch that is read
  again for each review: for a contribution, the roles its rules name and the
  fallback (`RequiredReviewers`). `ConfigChanges` computes nothing anew. A review
  without a readable configuration requires nobody (`Review`), and a push whose
  diff fails has changed no paths (`SyncUpserts`, `row.paths`): both fail open, as
  in the code, and `blind` remembers the commits concerned.
- `EndsHalfWay` is a failed statement or a dead server between any two steps.
- `passed` remembers which commits the votes approved at some time by the
  configuration as it was then; `astray` the contributions whose row may have
  been behind their branch when it was applied: one was pushed while a push or
  an application of it was under way, a push was refused, or a sync came to
  nothing.

Left out: merge commits as such, mergeability columns, todos, permissions
checked before the first read, direct pushes of people to base and issue
branches. The rules that match a contribution are the same for each of its
commits. An abstention counts as an approval does, and is one here.

### PlanEngine

- `state` and `deps` are the issues and the edges between them; `Parent` is a
  constant forest, in which any inner issue is an epic. `used` is
  `auto_steps_used`, `dispatched` the in-memory table.
- `req[p]` is a request: merging or closing an issue (`Loads`, `Gate` or
  `GateFails`, `Writes`), adding an edge (cycle check, insert) or OnChildClosed
  (mutex and tree, edges and plan state, then one announcement and its
  bookkeeping per ready issue). `fired` counts announcements since the restart.
- The state is written without a look at what it is by then, as the code's
  UPDATE does: an issue that was merged may be closed by a late request, or
  settled with an open issue below it. `done` remembers what was ever merged.
  The git side of a merge is in `Contribution`; here `Gate` may refuse at will.
- `Path` states reachability through closed sets, without recursion: j can be
  reached from i when every set that is closed under the edges and holds i holds
  j. It stands for the breadth-first search of the code, and a set is what a
  proof can exhibit.
- `Restart` empties the table and ends the calls.

### RunnerLoop and TaskPool

The runners and the claiming of jobs. Slots are tokens: `slots` are in the
channel, `hand` those the dispatcher has taken. A job claimed for runner `r` is
in one of four places: in the answer under way (`reply`), received (`tasks`), in
the channel (`jobs`) or with a worker (`running`); `returning` workers are about
to give their token back, `ended` ones have left. Every select of the code that
has a branch for the cancelled context may take it (`DispatcherStops`,
`WorkerStops`, `PollIsCancelled`). Faults are a failed poll, whose answer may
have claimed jobs, a crash of the runner, and an end that is not reported
(`EndsUnreported`): runJob recovers a panic without a report, and terminate only
logs that its report failed, as under a cancelled context it does by itself.
Nothing in the code takes such a job back; `lost` remembers which ones they are:
those of a poll whose answer did not arrive, those in the hands of a runner that
died or stopped delivering, and those whose end was not reported. Heartbeats and
the cleanup sweeper run beside the loop and share nothing with it.

`TaskPool` is what the server may rely on, in three variables: jobs wait, are
handed out once to a runner that never holds more than its parallelism, and are
let go for good. `RunnerLoop!Pool` is `TaskPool` with `waiting`, `held` and
`gone` read off the four places; `KeepsPromise` is its specification.

### ModelRouter

One model group. Rows of members are numbered in the order of insertion, which
is their priority within a list; ReplaceMembers inserts new ones. A deadline is
kept as the time left, in units of backoffBase. A request resolves the name,
lists the available members once, and then calls, fails over and reports; the
report is a read and a write (`ReportReads`, `ReportWrites`), between which other
reports, time and administrators may come. ResolveModel leaves out each member
whose provider it cannot read, for whatever reason, and tells nobody: these are
`unread`, and any set of members may be (one fault). A member of a type that no
adapter serves (`Unserved`) is passed over when its turn comes, with a line in the
usage log and no report (`SkipUnserved`). `steady[r]` remembers which members
have been available ever since request `r` resolved the name.

Left out: keys (a key that cannot be decrypted is `Breaks`), the conversion of
requests, usage rows, deletion of a provider (refused by a foreign key while a
member refers to it).

### RepoSilence

The row of one repository and those who write it. A call of Enter or Exit reads
the row, writes it under the optimistic lock on `updated_at` (a version number
here) and appends to the audit log: three statements, with `WriteFails`,
`AuditFails` and `Crash` between them. `scan` is the scheduler's pass: it takes
the time and the row, looks at each schedule in turn (`FirstSeen`, `NotDue`,
`Fires`, `EnterReturns`) and then decides on closing (`ProcessExit`). `lastFire`
is its memory, lost in a crash. Two histories speak of the windows: when each
schedule's was last `opened`, by the time of the scan, and whether that opening
was written but not audited, so that it may happen `again`. Cron expressions are
the set of their ticks.

Left out: overrides per session, changes of agents.yml while the server runs,
several servers.

### JobDriver

`WorkflowJobDriver.Run`, call by call and command by command: `pc` is where it
stands, `n` the phase or step. `Happens(dead)` and `Breaks(dead)` are the two ways
a call or command can go under a context that has ended or not: all calls use
the runner's context (`stopping`), phases and steps one with a deadline
(`expired`), the removal of the container none. A call to the server that breaks
is passed over, except those of a release, which may also break after the server
has carried them out. `phases`, `saved`, `releases` and `result` are the server's
side; `wrote` remembers which steps have produced outputs.

Left out: environments, masking, formats, and what a lost answer of the job's
last report does to the run (`WorkflowRun`). The ids of steps are taken to be
distinct, which the parser of workflow files does not check.

### The modules for TLC

`MCAgentSession`, `MCContribution`, `MCJobDriver`, `MCModelRouter`,
`MCPlanEngine`, `MCRepoSilence` and `MCRunnerLoop` add to their module what a
configuration needs and cannot write down: sets of permutations for symmetry,
configurations, a tree, edges, lists, ticks, slots, jobs, and the one state
constraint (`StopsComeAlone`). The other modules are run as they are.

## 4. The runs

| Run | Question | Bounds | Result |
|---|---|---|---|
| `WorkflowRun_jobs` | are jobs delivered once, in order, one at a time; does a failed run have a cause; do the statements implement `RunLife`; does a run end and its end get announced | 3 jobs, 1 CancelRun, 1 fault | holds |
| `AgentSession_serial` | one agent per row, one open row per role, do the statements implement `SessionLife` | 3 calls one at a time, 2 causes, 1 Stop or Reset, or else 1 Delete and 1 fault; silence, closing | holds |
| `AgentSession_live` | is the opening event queued once; do pending rows and queued events move on | 3 calls, 2 at a time, 2 causes, no fault | holds |
| `SessionHistory_wakes` | is what FetchHistory returns acceptable, complete, and without repetition | 3 tools in batches of 2, 2 events, 2 wakes, 2 replies, 1 Stop, 1 lost write, 1 death; 1.0 M states | holds |
| `AgentLoop_safety` | order and completeness of events, form of requests, ends of turns | 2 events, 2 control frames (suspend, resume), sleep and compaction in batches of 2, 1 job, 1 broken stream | holds |
| `AgentLoop_live` | are events, finished work and shutdowns acted upon | 2 events, 1 shutdown, commands and questionnaires, reminders and 1 empty reply, no fault | holds |
| `RunnerLoop_tasks` | do slots add up, is a claimed job with its runner and no other unless it was lost, does the loop implement `TaskPool`, are the other jobs run, does a runner stop | 2 runners, one with 1 slot and one with 2, 2 jobs, 2 per poll, 2 faults, a shutdown of each at any time; 0.15 M states | holds |
| `Contribution_reviews` | is landed code approved; without overlap, is what was applied on a branch, nothing left open, the cached status right, a decision final | 2 contributions to the sub-issue, 1 reviewer, 2 pushes to each, 2 configurations (a reviewer is named, or nobody) and 1 change between them, 4 requests of which 1 overlaps another, 1 fault; 2.4 M states | holds |
| `PlanEngine_dispatch` | are issues announced once, when what they wait for was done, in the end; have the edges no cycle | an epic with 3 children, 2 requests at a time; one child merged and closed, one merged, the epic closed; budget 1, 2 opposite edges, 1 fault or restart; 0.18 M states | holds |
| `ModelRouter_calls` | is a refusal honest, the preferred member tried first | 2 requests, 2 lists of 2 members of which one begins with a type nobody serves, cap 2, 4 rows, 2 changes, 1 fault (unread providers among them); 3.6 M states | holds |
| `RepoSilence_windows` | is a window opened once per tick, does a silence keep its beginning, do windows close | 1 person with 2 requests, 2 schedules with windows that overlap, 5 units of time, 1 fault; 0.6 M states | holds |
| `JobDriver_ends` | is a success whole, a release published whole or not at all; is the container removed; does the driver end | 4 jobs of 2 or 3 steps of every type, 2 faults, a stop, deadlines | holds |

Why the bounds are enough. Three jobs have a first, a middle and a last: a
failure with a job before it and two after it, and a claim that races the
skipping of the job after next. One CancelRun interleaves with every statement
of everything else; a second one is refused once the run is terminal and repeats
the same updates before. Three calls are the first creation, a rewake and one
more that finds what the two left behind; two at once are enough for any race
between a pair of them, and a third overlapping call reads no more than one of
the two. In `AgentLoop` two events give an order and a turn that one of them
interrupts; two control frames a suspension and its end; two replies before the
last one a batch and what follows it in the same turn or the next; two calls in
a batch a result with another one behind it, and a refused call beside a sleep.
In `SessionHistory` the second agent is the one whose history is interesting,
and a batch of two can be cut before, between and behind its results. Two runners
race for the same jobs; the narrow one has a job that waits while it is busy,
the wide one a poll that claims a batch or leaves tokens over, and two faults
take a job from each, or one from a runner that another one has to make up for.
Four requests are a push, an approval, an application and a merge, or a second
push, with or without a vote, between the approval and the application, and the
configurations name a reviewer or nobody, so that a contribution may also land
without a vote; the overlapping request meets every step of another one. Two
opposite edges are the shortest cycle; a merge and a closing of the same child
overlap, and the third child starts the pass that has read one of them. Two
requests to the proxy are enough for two reports that cross, and four rows for a
list replaced while it is in use; a list with an unserved member has one that
can be called behind it. The second schedule fires when the first one's window
ends, and the first one fires again before the second one's has ended.

In `JobDriver` two faults are a lost report and another one behind it; a release
of two assets can break before, between and behind them, and the last step of a
job is once of each type.

Symmetry is used for safety runs only, over what the module does not tell apart:
the causes of `AgentSession` (numbers of calls carry the order), slots and
contributions, and requests to the proxy. `StopsComeAlone` keeps runs with a
Stop or a Reset free of deletes and faults: what is stated about stopped
sessions does not need them, and what is stated about faults excludes stops.

CHECK_DEADLOCK is off in every configuration: with the bounds used up, or with
nothing left to trigger, the system rests. The type invariants are theorems
(section 5).

**Fairness.** `WorkflowRun`: an insert loop that was entered goes on, runners
poll for ever (a claimable job is claimed, weakly fair per job), a driver works
through its job (steps have a timeout), handlers run to their end. Creating and
cancelling need not happen. `AgentSession`: a call, an agent, a stream and a
user's request once begun go on; the archiver is called in the handler that
closed the issue. Nobody has to trigger, stop or close anything. `AgentLoop`:
the loop goes on, a request gets a reply (the client has timeouts), the model
ends its turn with plain text once the `MaxReplies` other replies of the run are
used up, sleeps and commands end. A stream need not end, an answer to a
questionnaire need not come. Its liveness run has no suspension and no sleep,
for the reasons below. `RunnerLoop`: goroutines go on (weak); the server claims
for a poll that waits, and a branch for the cancelled context is taken in the
end (strong: a poll may time out and come back, and Go's select draws among the
branches that are ready). `PlanEngine`: a call that is in goes on (weak) and a
call that waits gets the mutex (strong: Go hands a mutex over to the longest
waiter). `RepoSilence`: the scheduler's scan with its writes and audits, and
time, go on; people's calls need not. Faults are never fair, and a liveness
property promises nothing after one: a server or a runner that dies leaves rows
nobody takes up (see below); only `WindowCloses` holds through them.
`JobDriver`: the driver goes on, a deadline passes, a command
whose context has ended is killed; a phase or a step need not end by itself. That
a clone and the small docker commands end is assumed: the clone has no deadline
of its own in the code (workflow.go:92), nor has the reading of outputs.
`Contribution`, `ModelRouter` and `SessionHistory` have no liveness property:
requests go to their end by themselves, and what they wait for is outside.

**What the models also show.** No run is spent on the following, which can be
read off the actions.

*Runs and sessions.* A runner that dies leaves its job running for ever, as
there is no lease (`Abandon`); an agent whose MarkIdle is lost leaves its row
running, though a comment in loop.go trusts a reaper with it (`AgentDies`); a
late report turns a cancelled job row back into running or success
(`MarkJobRunning`, `MarkJobTerminal`); a run whose remaining jobs were skipped or
cancelled may be marked a success (service.go:383), and a job behind the first
failed one may still be claimed, though docs/workflow-system.md:218 says the
first failure ends the run; the same final status may be announced twice
(`NotifyStatusChanged` after a guarded update that changed nothing); an issue
closed after the gate was read gets an open row all the same (`CheckIssue`,
`CreateSession`); two calls at a time may give a role two sessions, against
docs/agent-config.md:239; the loser of two rewakes marks the row failed under
the winner's agent (`ResumeSession`, `MarkFailed`); an event enqueued on a row
whose agent is just leaving waits for the next trigger or is lost with the
closing stream (`StreamInputs`); a row whose dispatch or first enqueue failed
stays pending, and later events are only enqueued onto it, though the comment at
spawner.go:206 expects a retry (`ListSessionsByIssue`, `Live`); after a Stop the
row is failed while its agent runs on, so the next trigger puts a second agent
beside it (`ShutdownMarks`, `Resumable`); Stop on an idle session leaves a
shutdown frame for the agent of the next trigger (`StopReads`).

*The agent.* A batch with a sleep ends the turn also when the sleep was refused,
and whatever arrived during the call waits for the next wake-up (`EndBatch`; with
"sleep" among the tools `InputsAnswered` fails). An event that arrives while the
agent is suspended goes round in pendingItems, which is emptied before the inbox
is read, so a resume or shutdown behind it is never read (`HandleEvent`,
`Replay`), though loop.go:179 says that control frames are consumed; no server
code sends suspend frames at present. A notification while suspended is dropped,
as the code says. Work that starts after keepAlive was asked does not hold the
idle grace open, against connect_transport.go:139 (`holding`). An event folded
while the request is in flight whose reply calls compact_session stands before
the summary that is appended after the results, and is cut from every later
request, against loop.go:863 (`Fold`, `EndBatch`, `Window`).

*History.* An event consumed by an agent that dies, or that leaves early on a
stale shutdown frame, is trimmed from the history although the queue will not
deliver it again. A Stop that overlaps a live agent can put an event into the
history and the queue. A batch with compact_session before another call is
replayed as a summary amid results; a batch that a crash left partly answered is
not repaired, and when a wake's event comes behind a message without results the
scan from the end stops at that event, so that the message stays inside the
history and later requests are refused, against agent_connect.go:232.
`Orderly` names the logs for which the repair is promised.

*Contributions and plans.* The review fails open: when the host configuration
cannot be loaded nobody has to vote (contribution_sync.go:228), and a push whose
diff fails matches no rule, so that only the fallback does
(contribution_sync.go:94); `LandedWasApproved` excepts what was reviewed so. What
lands is the branch as it is when it is merged, not the head whose votes were
counted: a push in between lands unreviewed (`ApplyReviews`, `ApplyMerges`), and
so may one whose sync failed or found the issue closed. A branch may stand on
another contribution's, and applying it lands the commits of both, though only
its own head was reviewed (`PushMovesRef`). A changed configuration recomputes no
status, so the merge gate goes by the old one (`ConfigChanges`). Two merges into
one branch at a time lose one of them (`MergeReads`, `MergeSetsRef`). A push git
refuses still moves the row's head (`PushReceives`). Terminal states are not
guarded in the updates: an application that overlaps a closing overwrites it. A
maintainer may apply a contribution of an issue that is closed. The gate of the
open sub-issues opens when its query fails (`SubIssueGate`, `GateFails`). The plan
engine's ticker is never started, and only a merge by a person calls the engine;
what it announces may depend on an issue that was merged and has been closed by
a late request since (`Writes`); after a restart it announces again what it had
announced before (`Restart`); two opposite edges added together close a cycle,
since the check and the insert are two statements (`AddChecks`, `AddInserts`);
the budget is only looked at between passes, so one pass may exceed it.

*The runner.* A panic in a driver, a last report that is lost, a poll whose
answer is lost, a crash, and a stop with tasks not yet delivered all leave rows
that stay running and are held by nobody (`EndsUnreported`, `PollFails`, `Crash`,
`DispatcherStops`): there is no lease. `ClaimedIsHeld` and `QueueDrains` name them
by `lost` and promise the rest.

*Model groups.* A member whose provider cannot be read is left out without a
word. The comment at group_router.go:68 thinks of a provider that has just been
deleted, but any error counts, so that a failing query makes a request call a
less preferred member, or refuse as unavailable a group that is not
(`ResolveModel`). The comment at queries.sql:216 says that one statement avoids a
race on backoff_step, but ReportAttempt reads first: failures that cross count
once, and a late failure after a success disables the member with the old step
plus one. Failures of the network fail over but never rest the member. A key
that cannot be decrypted ends the request instead of failing over. A PATCH of a
provider without `disabled` writes back what it read, and so may undo a switch
made in between. Replacing the members forgets their health, and reports under
way to the old rows are dropped.

*Silence.* The scan takes the row before it looks at the schedules, and Exit
reads it again: a silence entered by hand during the scan is ended by the
scheduler, against scheduler.go:217. A schedule that fires over a manual silence
takes it over and ends it later; a window entered again in the scan that found
the previous one over is ended at once. When the audit entry of an opening fails
after the write, the firing is not recorded and the next scan opens the window
of the same tick once more, also when a person has ended it in between
(`AuditFails`, `again`): `FiresOncePerTick` excepts that. The first row of a
repository is written without a witness, so that overlapping first calls may
move entered_at.

*Jobs on the runner.* Without any outputs so far, a step that names a missing
one is run all the same (`Expanded`), against workflow.go:851. A phase whose
registration was lost is marked in vain, against workflow.go:169 (`MarksPhase`).
A runner that is stopped reports the end of its job under a context that has
ended, so that the job stays running on the server (`Terminates`), against
workflow.go:53. The deadline may pass between the end of a script and the
reading of its outputs, and the job is a success without them (`Captures`). A
`docker create` that is killed may leave a container whose id nobody knows
(`PhaseFails`). When the first phase fails, the second stays pending on the
server.

## 5. The proofs

Eight modules prove, with TLAPS and for every value of the constants:

| Module | Theorem | Property |
|---|---|---|
| `WorkflowRun_proofs` | `TypeCorrect` | TypeOK |
| | `DeliveredOnce`, `InOrder`, `Delivered` | NoDoubleDelivery, NoOvertaking, and DeliveredInOrder, which is both |
| | `Sequential` | OneJobAtATime |
| | `FailureExplained` | FailureHasACause |
| | `StatusForward` | RunMovesForward |
| | `ImplementsLife` | KeepsLife: `WorkflowRun` implements `RunLife` |
| `Session_proofs` | `TypeCorrect` | TypeOK of `AgentSession` |
| | `OpenedOnce` | OpeningCauseOnce |
| | `SingleAgent` | OneAgentPerRow |
| | `SingleOpenRow` | OneOpenRow |
| | `ArchiveHolds` | ArchivedIsFinal |
| | `ImplementsSessionLife` | KeepsLife: `AgentSession` implements `SessionLife` |
| | `EventsShownOnce` | EventsOnce |
| | `AnsweredStays` | AnsweredIsKept |
| | `HistoryAccepted` | HistoryIsValid |
| `AgentLoop_proofs` | `TypeCorrect` | TypeOK |
| | `SuspendedRests` | NoTurnWhileSuspended |
| | `RequestsWhole` | RequestWellFormed |
| | `EndsSeen` | SeenBeforeEnd |
| | `EventsKept` | NothingForgotten |
| `Contribution_proofs` | `TypeCorrect` | TypeOK |
| | `LandedCodeWasReviewed` | LandedWasApproved |
| | `AppliedCodeStays` | AloneAppliedIsOnBranch |
| | `NothingIsLeftOpen` | AloneNothingLeftOpen |
| | `CacheIsVerdict` | AloneCacheIsVerdict |
| | `DecisionsAreFinal` | AloneDecisionsAreFinal |
| `PlanEngine_proofs` | `TypeCorrect` | TypeOK |
| | `AnnouncedOnce` | FiredOnce |
| | `AnnouncedReady` | FiredWhenReady |
| | `BudgetKeptTo` | BudgetHolds |
| | `NoCycle` | AloneAcyclic |
| `Runner_proofs` | `TypeCorrect` | TypeOK of `RunnerLoop` |
| | `Conserved` | SlotsConserved |
| | `HeldByOwner` | ClaimedIsHeld |
| | `Implements` | KeepsPromise: `RunnerLoop` implements `TaskPool` |
| | `SuccessWhole` | SuccessIsWhole |
| | `ContainerGone` | ContainerRemoved |
| `ModelRouter_proofs` | `TypeCorrect` | TypeOK |
| | `Honest` | FailureIsHonest |
| | `Preferred` | PreferenceKept |
| | `RestIsCounted` | RestsAsCounted |
| `RepoSilence_proofs` | `TypeCorrect` | TypeOK |
| | `SinceHolds` | SinceIsKept |
| | `OncePerTick` | FiresOncePerTick |

`Session_proofs` and `Runner_proofs` extend two components each, one after the
other in the life of a session or of a task: hence the longer names in
`SessionHistory` and `JobDriver` (`HistorySpec`, `DriverSpec`).

They assume only what the named assumptions of the modules say of the constants:
that bounds are numbers, `NumJobs`, the slots, the wakes of a session and the
poll limit positive ones, switches Booleans, tools and control frames among those
the code knows, the jobs of `RunnerLoop`, the slots of `Contribution` and the
issues of `PlanEngine` finite, the jobs of `JobDriver` sequences of steps that
name outputs of earlier steps only, and that names which mean nobody or nothing
are not names of somebody or something.

**WorkflowRun.** The properties are not inductive. `Inv` adds:
`InsertedInOrder` (rows are inserted in order, so an absent row has only absent
rows after it: without it, `NoOvertaking` could be broken by an insert behind a
claimed job); `HeldIsRunning` (until a CancelRun, a job with a runner has a
running row: this is what blocks the claim of another, hence `OneJobAtATime`);
`CancelWasAsked` (no statement of CancelRun runs with `cancels = 0`);
`FailedIsReported` and `FailingHasACause` (a failed row has no driver left that
could overwrite it, and an AdvanceRun about to mark the run failed saw one: this
carries `FailureHasACause` across the unguarded job updates). One lemma per
group of actions shows that `Inv` is kept; the theorems are its conjuncts.
`ImplementsLife` takes one step per action, each under `Inv` before and after
it, and four lemmas for what an action can be in `RunLife`: nothing, a move of
the phase, a withdrawal or a job given back. That a claim is a `HandOut` of the
first job that is left is `NoOvertaking` after the step and `OneJobAtATime`
before it; that MarkRunTerminal may say failed is `FailureHasACause` after it;
that a finished job was `out` and not yet `bad` is `FailedIsReported`.

**AgentSession.** Two invariants. `AimInv` holds with any number of overlapping
calls: a call's row was created, by one call, for that call's event when it is
the creating one; a call that has not listed has no row; a stream belongs to a
dispatched agent. `OpeningCauseOnce` is one of its conjuncts: only the creating
call can bear the cause of the row, since every later call with that cause is
turned away by `AlreadyForCause`. `SerialInv` adds, for `MaxAtOnce = 1` and no
Stop: at most one call runs; a resting row (idle or failed) has no agent; nor
has a row that is being woken; a dispatched agent's row is awake. Without the
middle two `OneAgentPerRow` is not inductive: the step that breaks it is a
dispatch, and what excludes it was decided statements earlier. `ArchiveHolds` is
a step property and needs the types only. `SingleOpenRow` rests on `OpenInv`,
with `SerialInv` beside it: rows are created in order, of a role's rows only the
latest is open, and a call that stands before its INSERT sees no open row
(`CreatingSawNone`, which is what the other statements of that call, of users
and of dying agents must not break). A Stop or Reset needs no exception here:
every statement but the INSERT opens nothing (`OpensNothing`).

`ImplementsSessionLife` has no bound on the calls that overlap. It takes one step
per action under `SerialInv` and `OpenInv`, with a lemma for each thing an action
can be in `SessionLife` (`LifeOpens` ... `LifeReads`) and lemmas for how an
assignment to a row, a process, a queue or a call shows there (`StateSet`,
`TeamSet`, `QueueAdds`, `NewSet`). The conditions of `SessionLife` are where the
invariants are needed: `CreatingSawNone` for opening, `RestingHasNoAgent` for
waking and for an agent's start, `BeingWokenHasNoAgent` for the row a call marks
failed, `NoStopServed` for the one a Stop marks failed. `ServedIsThere`, the part
of `OpenInv` that says a row a user deals with is still there, is what keeps a
Reset from archiving and a Delete from removing what was removed.

**SessionHistory.** The functions of `History` are recursive functions and cuts
of sequences, and the library's induction theorems cannot be used (they take an
operator). Induction is done on sets of numbers instead: of a set without the
property there would be a least member (`LeastOf`, `UpTo`). With that, the first
part says what each function does, item by item (`RunIs`, `HistoryItemsIs`,
`TrimTrailingIs`, `ProtoIs`, `AgentTrimIs`) and keeps, for every log: which events
remain and in which place, and that a message all of whose calls were answered is
cut by none of the trims (`TrimKeepsAnswered`). `AnsweredStays` is that, and needs
only the types of the rows.

`EventsShownOnce` needs `HistInv`. Frames and rows carry numbers already used
(`Numbered`), a frame is in one place (`QueuedOnce`), an event is logged once
(`LoggedOnce`). As long as no session was woken over a living agent: at most one
agent lives and none while a call rewakes the session (`Alone`); who is away
holds nothing; an event both logged and still queued has nothing but events
behind it in the log (`WaitingIsLast`), so that the trim drops it, and whoever
boots meanwhile has not begun to write (`WaitingIsUnread`); and what an agent was
shown is in none of the frames to come (`ShownOnce`). `WaitingIsLast` is what
ties trimTrailingEventItems to the order of the statements in `RewakeQueues` and
`RewakeLogs`.

`HistoryAccepted` needs `CallInv` besides: the calls of a batch are taken in
their order and by the agent that had the reply, so that the results of a
message are logged in the order of its calls, each once (`ResultsInOrder`), and
no two messages share a call (`MessagesApart`). From there the proof follows the
pass over the items of an orderly log, row by row (`ChainedAll`): behind n rows it
is settled, what it has passed on is well formed and every message so far is
answered, or it owes results of the last message, holding the events that came
amid them (`SettledAt`, `OwesAt`). At the end of the rows it is settled, or owes
every result of the last message; the first is well formed and the trims leave it
as it is (`TrimsLeaveWellFormed`), in the second the trim cuts that message, which
ends the history, off (`TrimCutsLast`). Last, cutting at a summary leaves what is
well formed well formed (`SnapshotFits`).

**AgentLoop.** `Inv` is the types, `NoTurnWhileSuspended` and `TooManyFail`: the
reply that exhausts the retries has failed the process, without which the range
of the counter in the type invariant is not inductive. `NoTurnWhileSuspended` is
kept because only the handlers between two turns change `suspended`, and they
begin no turn when it is set. `SeenBeforeEnd` is a step property: plain text is
the only reply that leaves `call` for `idle`, it needs `Len(msgs) <= seen`, and
what it appends is not an input.

`EventsKept` needs `OrderInv`, in terms of the numbers of the events in each
place: those in `msgs` lie below those in `pending`, these below those in
`inbox`, each place is in rising order, and together they are `1 .. events`
(`InPlace`). That alone is not inductive: an event that a turn folds into the
conversation, or one appended behind others on `pendingItems`, could pass one
that waits there. What excludes it is `DeferredAlone`: only a suspended loop
puts an event on `pendingItems`, there it is the only item, and a suspended loop
runs no turn (`NoTurnWhileSuspended`, hence `Inv` is used too). Lemmas on
sequences say what appending, taking the head and concatenating do to numbers
and order; actions that put no event anywhere are `Quiet` and share one lemma.
`PlacesSuffice` reads the property off the invariant.

`RequestsWhole` needs `CallInv`, about the whole conversation at every moment
and not only about what is sent: each message with calls is followed by its
results, but for the last one, which may still owe as many results as `todo`
holds calls (`Answered`, `Owing`); every result has its calls (`Called`); and
what is being sent is not cut inside a batch (`RequestWhole`). Nothing but
results is appended as long as some are owed, which is why folding an event or a
notification waits for the end of a batch. The window that follows a compaction
starts at a summary, and summaries come behind the results.

**Contribution.** `Inv` is the types and `Room`, which counts the pushes that
are authorised and not received: on it the bound of the commits rests.
`LandedCodeWasReviewed` rests on `Landing`. What lands is copied twice, from a
branch into a request and from there onto another branch, with other requests in
between; so `Landing` speaks of both (`LandedWasApproved`, `AllLand`). What was
pushed as a commit is never pushed again (`Blank`), so what is reachable from it
stays, and a contribution's branch is empty or one of these commits with what it
stands on (`OnBranch`). What the votes approve now is among what they approved
at some time (`Voted`): each step that could change it, a vote, a push and a
change of the configuration, adds it. A head whose diff could not be read is
known to be (`RowsRead`). The heart is `Straight`, of a contribution that did
not go astray: it has at most one push under way and no application beside it;
its branch is the head the row has, or will have once the sync has written it;
and an application holds that head. So what is read from the branch when it is
applied is the head whose votes were computed (`Applied`). A lemma sorts the
steps first (`Shape`): all but nine of them neither push, sync nor apply, and
keep `Landing` for one reason (`Quiet`).

The four properties about requests that do not overlap share `AloneInv`. It says
what the one request under way may rely on at each of its steps: of its
contribution (`ContribFacts`: the row read is still the row, the verdict about
to be written is the verdict, a contribution about to be settled is not settled,
the code about to be set contains the branch and a commit of the contribution)
and of its issue (`IssueFacts`: what each gate has found still holds when the
state is written, and the branch about to be deleted is contained in its base).
None of this is in the properties, and each is lost as soon as a second request
comes in between; that is what `overlaps = 0` excludes. `CacheKept` is the
cached status while a request is under way: it is right or being recomputed.
`TipInv` adds that a missing branch has no commits and that a contribution's
branch has one of its own, for any overlaps: without it an application that
finds its branch contained could mark as merged what is on no branch. Each
group of actions has a lemma (`AlonePush` ... `AloneCleans`); what an action
does to the slots is said once (`Starts`, `Loads`, `Goes`, `Ends`).

**PlanEngine.** `Alone`: the mutex of an epic lets one call in. `Marked`: what
was announced is in the table, or the one who announced it is about to put it
there; with `Alone` that is nobody else, so the announcement is not repeated.
The steps of merging and closing, and requests that fail, concern neither a pass
that announces nor an edge (`Aside`), which is said once for all of them.
`Orderly`: as long as no two edges were being added together, one at most is on
its way, the way back is still missing when it is inserted, and there is no
cycle. A path is refuted by a set closed under the edges (`Refuted`), and
`OneMoreEdge` combines two such sets into one that refutes a cycle through the
new edge. `AnnouncedReady` is a step property over `ReadyInv`. The state a pass
has read may no longer be true, since the final UPDATE is unguarded; what stays
true is that an issue which is not open does not open again and that one which
was ever merged was merged (`StatesLast`, `MergedDone`). So what a pass has read
as settled is settled, what it has read as merged is in `done` (`SeenLasts`),
and what it has found ready keeps having no open child and nothing undone to
wait for until it is announced, edges added meanwhile aside (`ReadyLasts`). For
`BudgetKeptTo`, a pass that entered below the budget spends at most the ready
issues it holds (`Spends`), and the mutex keeps other passes out.

**RunnerLoop.** `Places`: a job is in one of the four places, and in the first two
only while a poll or a delivery is under way. `Owned` and `Kept` relate them to
the rows: what a runner holds is running for the server and its own, and what is
running for the server is held by its owner or lost; each step that empties a
hand without a report says whose jobs they were. `Sums`: no poll claims more than
the dispatcher's hand covers, and tokens and workers add up to the slots of that
runner. That a runner holds no more jobs than it has slots
(`HeldBound`), which `TaskPool` demands, is a fact about tokens, and this is what
makes the refinement more than bookkeeping: each job held stands for a token.
`PoolStep` maps every step to handing out, letting go, submitting or a stutter.

**JobDriver.** `DriverInv` follows the job step by step. What lies before the
step at hand has passed, and its release, if it is one, is published whole with
the assets it names (`StepsInTurn`, `PassedAreWhole`); what lies behind it is
untouched; of the release at hand it is known how far it has got
(`ReleaseInHand`), also after calls that broke on the way back; a failure is
final and the server hears it or nothing (`VerdictStands`). `SuccessWhole` reads
the verdict off the last step. `PublishedInFull` is the part that holds of failed
jobs too. `ContainerGone` needs less: the only way to the end leads past the
removal, which has no context that could have ended under it.

**ModelRouter.** What was available all along only shrinks, so it is enough to
follow one request: what it has not called is in its list, unless its provider
was unread (`Gone`), and the list loses its smallest member at each call or when
that one is passed over (`Good`). `Paired` says that step and deadline
belong together, of the rows and of the patches under way.

**RepoSilence.** For `SinceIsKept`, a version that was read and is still there
stands for the same row (`Read`). For `FiresOncePerTick`, the last opening of a
schedule is no later than lastCronFire (`Recorded`), except while Enter is on
its way back, after an opening that was not audited, and while lastCronFire is
not known; a crash forgets it, and the first scan that follows sets it to its
own time, which is no earlier than any opening. A schedule about to be opened is
due after lastCronFire, and hence after its last opening.

Only checked by TLC: the liveness properties and what depends on ENABLED, which
are beyond the prover. Every invariant and step property a run checks is a
theorem. BudgetHolds, NoDoubleDelivery, NoOvertaking, RunMovesForward,
NoTurnWhileSuspended, RestsAsCounted, ContainerRemoved, ArchivedIsFinal (which
KeepsLife includes) and the types are proved and are in no run. Nothing is proved
of `WellFormed` itself: it is read off what providers document, and section 3
says so.

## 6. Plan

Done: `WorkflowRun` with `RunLife`, `AgentSession` with `SessionLife`,
`AgentLoop`, `SessionHistory` with `History`, `RunnerLoop` with `TaskPool`,
`Contribution`, `PlanEngine`, `ModelRouter`, `RepoSilence`, `JobDriver`, with
their runs and the theorems above. Next, in order of what matters:

1. `Questionnaire` (blocking questions, their answers and the closing),
   `Automation` (scheduled and triggered automations with their windows),
   `BranchWrites` (files committed through the API next to pushes),
   `OutputDrain` (the buffered log of a container).
2. `JobOutputs` (resolving the outputs of a job), `BashJobs` (processes and
   output files of background commands), `SeqRetry` (numbering of messages under
   concurrent writers), `Container` (ioc), the cleanup sweeper.

## 7. Not modelled

CRUD modules (users, organisations, tokens, projects, releases, attachments,
settings, skills, dashboards), the web front end, parsers of configuration,
generated code and wire conversion, git below the refs, the HTTP side of the
language model proxy, prompts and rendering: they keep no protocol between
concurrent actors. They are most of the code by lines: HTTP handlers, generated
queries and protocol types, and rows carried from one to the other. What the
models cover is the part in which the order of events decides the outcome.

The session reaper's and the cleanup sweeper's lists select rows by
`container_id`, which nothing sets any more (SetSessionContainer has no caller).
The parts planned in section 6 are listed in `PROJECT.json` as not modelled
until they are.
