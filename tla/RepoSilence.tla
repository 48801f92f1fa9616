---------------------------- MODULE RepoSilence ----------------------------
(***************************************************************************)
(* The silence of one repository: people enter and leave it over HTTP, and *)
(* a scheduler in the server enters it when the cron expression of a       *)
(* schedule falls due and leaves it when the window is over.  All of them  *)
(* go through Controller.Enter and Controller.Exit, which read the row,    *)
(* write it back under an optimistic lock on updated_at, and append to the *)
(* audit log, in three statements.                                         *)
(*                                                                         *)
(* updated_at is a version number, time is counted from 1, and 0 is NULL.  *)
(***************************************************************************)
EXTENDS Integers, Sequences, FiniteSets

CONSTANTS
    Person,       \* who may manage the repository
    Scheduler,    \* the server's scheduler
    Ticks,        \* of each schedule in agents.yml, in order: when its cron falls due
    Duration,     \* of each schedule: how long its window lasts
    MaxTime,      \* bound: the time
    MaxRequests,  \* bound: requests made by people
    MaxFaults     \* bound: statements that fail, and crashes

ASSUME SilenceAssumption ==
    /\ Scheduler \notin Person
    /\ Ticks \in Seq(SUBSET Nat)
    /\ Duration \in [DOMAIN Ticks -> Nat \ {0}]
    /\ MaxTime \in Nat /\ MaxRequests \in Nat /\ MaxFaults \in Nat

VARIABLES
    now,        \* the clock
    row,        \* the repository's row of repo_silence_state
    call,       \* Controller.Enter and Controller.Exit under way
    scan,       \* where the scheduler's scan stands
    lastFire,   \* Scheduler.lastCronFire
    opened,     \* history: the time of the scan that last opened each schedule's window
    again,      \* history: schedules whose last opening was written and not audited
    requests, faults

vars == <<now, row, call, scan, lastFire, opened, again, requests, faults>>

Caller   == Person \cup {Scheduler}
Schedule == DOMAIN Ticks

State == [ver : Nat, active : BOOLEAN, source : {"none", "manual", "schedule"},
          since : Nat, exit : Nat]
NoRow == [ver |-> 0, active |-> FALSE, source |-> "none", since |-> 0, exit |-> 0]

\* A call has the version it read, and the entered_at and expected_exit_at it
\* is going to write.
Calls == [at : {"idle", "write", "audit", "ok", "failed"}, kind : {"none", "enter", "exit"},
          ver : Nat, since : Nat, exit : Nat]
NoCall == [at |-> "idle", kind |-> "none", ver |-> 0, since |-> 0, exit |-> 0]

\* A scan has its next schedule, the time it began at, and whether the row it
\* began with was a window to be closed.
Scans  == [at : {"idle", "enter", "exit"}, next : Nat, time : Nat, over : BOOLEAN]
NoScan == [at |-> "idle", next |-> 1, time |-> 0, over |-> FALSE]

Init ==
    /\ now = 1
    /\ row = NoRow
    /\ call = [p \in Caller |-> NoCall]
    /\ scan = NoScan
    /\ lastFire = [s \in Schedule |-> 0]
    /\ opened = [s \in Schedule |-> 0] /\ again = {}
    /\ requests = 0 /\ faults = 0

TimePasses ==
    /\ now < MaxTime
    /\ now' = now + 1
    /\ UNCHANGED <<row, call, scan, lastFire, opened, again, requests, faults>>

-----------------------------------------------------------------------------
(* Controller.Enter and Controller.Exit.                                   *)

At(p, a) == call[p].at = a

\* Only the scheduler looks at what a call returns.
Returns(p, result) ==
    call' = [call EXCEPT ![p] = IF p = Scheduler THEN [NoCall EXCEPT !.at = result] ELSE NoCall]

\* A silence that goes on keeps the time it began at.
Enter(p, exit) ==
    call' = [call EXCEPT ![p] =
               [at |-> "write", kind |-> "enter", ver |-> row.ver,
                since |-> IF row.active THEN row.since ELSE now, exit |-> exit]]

Exit(p) ==
    IF row.active
    THEN call' = [call EXCEPT ![p] = [NoCall EXCEPT !.at = "write", !.kind = "exit", !.ver = row.ver]]
    ELSE Returns(p, "ok")

Replacement(p) ==
    [ver |-> row.ver + 1, active |-> call[p].kind = "enter",
     source |-> IF p = Scheduler THEN "schedule" ELSE "manual",
     since |-> call[p].since, exit |-> call[p].exit]

\* The history: the scheduler's scan has opened the window of its schedule.
Opens(p) ==
    IF p = Scheduler /\ call[p].kind = "enter"
    THEN opened' = [opened EXCEPT ![scan.next] = scan.time] /\ again' = again \ {scan.next}
    ELSE UNCHANGED <<opened, again>>

\* Mutant: the row is replaced whatever has become of it.
WritesUnwitnessed(p) ==
    /\ At(p, "write")
    /\ row' = Replacement(p) /\ Opens(p)
    /\ call' = [call EXCEPT ![p].at = "audit"]
    /\ UNCHANGED <<now, scan, lastFire, requests, faults>>

\* UpdateState finds the row as it was read, or fails; UpsertState, for a
\* repository without a row, asks for nothing.
Writes(p) ==
    /\ At(p, "write")
    /\ IF call[p].ver \in {0, row.ver}
       THEN row' = Replacement(p) /\ Opens(p) /\ call' = [call EXCEPT ![p].at = "audit"]
       ELSE UNCHANGED <<row, opened, again>> /\ Returns(p, "failed")
    /\ UNCHANGED <<now, scan, lastFire, requests, faults>>

WriteFails(p) ==
    /\ At(p, "write") /\ faults < MaxFaults
    /\ faults' = faults + 1
    /\ Returns(p, "failed")
    /\ UNCHANGED <<now, row, scan, lastFire, opened, again, requests>>

Audits(p) ==
    /\ At(p, "audit")
    /\ Returns(p, "ok")
    /\ UNCHANGED <<now, row, scan, lastFire, opened, again, requests, faults>>

\* The row has been written all the same: a firing whose audit entry fails is
\* reported as failed although it has opened the window.
AuditFails(p) ==
    /\ At(p, "audit") /\ faults < MaxFaults
    /\ faults' = faults + 1
    /\ Returns(p, "failed")
    /\ again' = IF p = Scheduler /\ call[p].kind = "enter" THEN again \cup {scan.next} ELSE again
    /\ UNCHANGED <<now, row, scan, lastFire, opened, requests>>

\* Handler.enter and Handler.exit; a silence entered by hand has no end.
PersonAsks(p) ==
    /\ At(p, "idle") /\ requests < MaxRequests
    /\ requests' = requests + 1
    /\ Enter(p, 0) \/ Exit(p)
    /\ UNCHANGED <<now, row, scan, lastFire, opened, again, faults>>

-----------------------------------------------------------------------------
(* The scan.                                                               *)

\* Mutant: a window that should have been closed before is left open.
IsOverNow == row.active /\ row.source = "schedule" /\ row.exit = now

\* processExit only closes what a schedule has opened.
IsOver == row.active /\ row.source = "schedule" /\ row.exit # 0 /\ row.exit <= now

\* The row is read, and the time taken, before the schedules are looked at.
ScanBegins ==
    /\ scan.at = "idle" /\ Schedule # {}
    /\ scan' = [at |-> "enter", next |-> 1, time |-> now, over |-> IsOver]
    /\ UNCHANGED <<now, row, call, lastFire, opened, again, requests, faults>>

IsDue(s)   == \E t \in Ticks[s] : lastFire[s] < t /\ t <= scan.time
NextOne    == scan' = [scan EXCEPT !.next = @ + 1]
Entering   == scan.at = "enter" /\ scan.next \in Schedule /\ At(Scheduler, "idle")

\* A schedule that is seen for the first time does not fire for the past.
FirstSeen ==
    /\ Entering /\ lastFire[scan.next] = 0
    /\ lastFire' = [lastFire EXCEPT ![scan.next] = scan.time]
    /\ NextOne
    /\ UNCHANGED <<now, row, call, opened, again, requests, faults>>

NotDue ==
    /\ Entering /\ lastFire[scan.next] # 0 /\ ~IsDue(scan.next)
    /\ NextOne
    /\ UNCHANGED <<now, row, call, lastFire, opened, again, requests, faults>>

Fires ==
    /\ Entering /\ lastFire[scan.next] # 0 /\ IsDue(scan.next)
    /\ Enter(Scheduler, scan.time + Duration[scan.next])
    /\ UNCHANGED <<now, row, scan, lastFire, opened, again, requests, faults>>

\* Mutant: the firing is not recorded.
EnterReturnsOnly ==
    /\ scan.at = "enter" /\ call[Scheduler].at \in {"ok", "failed"}
    /\ call' = [call EXCEPT ![Scheduler] = NoCall]
    /\ NextOne
    /\ UNCHANGED <<now, row, lastFire, opened, again, requests, faults>>

\* A firing that failed is tried again by the next scan.
EnterReturns ==
    /\ scan.at = "enter" /\ call[Scheduler].at \in {"ok", "failed"}
    /\ lastFire' = IF At(Scheduler, "ok")
                   THEN [lastFire EXCEPT ![scan.next] = scan.time] ELSE lastFire
    /\ call' = [call EXCEPT ![Scheduler] = NoCall]
    /\ NextOne
    /\ UNCHANGED <<now, row, opened, again, requests, faults>>

\* It decides on the row the scan began with; Exit reads it again.
ProcessExit ==
    /\ scan.at = "enter" /\ scan.next \notin Schedule /\ At(Scheduler, "idle")
    /\ IF scan.over
       THEN Exit(Scheduler) /\ scan' = [scan EXCEPT !.at = "exit"]
       ELSE scan' = NoScan /\ UNCHANGED call
    /\ UNCHANGED <<now, row, lastFire, opened, again, requests, faults>>

\* The next scan tries again what failed.
ExitReturns ==
    /\ scan.at = "exit" /\ call[Scheduler].at \in {"ok", "failed"}
    /\ call' = [call EXCEPT ![Scheduler] = NoCall]
    /\ scan' = NoScan
    /\ UNCHANGED <<now, row, lastFire, opened, again, requests, faults>>

\* The server stops wherever its calls stand, and forgets what has fired.
Crash ==
    /\ faults < MaxFaults
    /\ faults' = faults + 1
    /\ call' = [p \in Caller |-> NoCall]
    /\ scan' = NoScan
    /\ lastFire' = [s \in Schedule |-> 0] /\ again' = {}
    /\ UNCHANGED <<now, row, opened, requests>>

-----------------------------------------------------------------------------
Scanning ==
    \/ ScanBegins \/ FirstSeen \/ NotDue \/ Fires \/ EnterReturns
    \/ ProcessExit \/ ExitReturns
    \/ Writes(Scheduler) \/ Audits(Scheduler)

Next ==
    \/ TimePasses \/ Crash \/ Scanning
    \/ \E p \in Person : PersonAsks(p) \/ Writes(p) \/ Audits(p)
    \/ \E p \in Caller : WriteFails(p) \/ AuditFails(p)

Spec == Init /\ [][Next]_vars

\* The ticker scans for ever, the statements return and time goes on.  People
\* need not ask for anything, nor do their calls have to end.
FairSpec == Spec /\ WF_vars(Scanning) /\ WF_vars(TimePasses)

-----------------------------------------------------------------------------
TypeOK ==
    /\ now \in Nat
    /\ row \in State
    /\ call \in [Caller -> Calls]
    /\ scan \in Scans
    /\ lastFire \in [Schedule -> Nat]
    /\ opened \in [Schedule -> Nat] /\ again \subseteq Schedule
    /\ requests \in Nat /\ faults \in Nat

\* A call that found no row, and writes without a witness.
First(p) == At(p, "write") /\ call[p].ver = 0

\* People and schedules may enter a silence that is on, and race each other:
\* as long as it stays on it keeps the time it began at.  Only calls that
\* overlap the very first one may move it (Controller.Enter, UpdateState).
SinceIsKept ==
    [][row.active /\ row'.active =>
          row'.since = row.since \/ \E p \in Caller : First(p) /\ ~First(p)']_vars

\* A schedule's window is opened for a tick that has fallen due since it was
\* last opened: not in every scan while it lasts, not again after a person has
\* ended it, and not once more when the server starts again (processEnter,
\* lastCronFire).  There is one exception, which the code does have: when the
\* audit entry of the last opening could not be written, Enter reports an
\* error, the firing is not recorded, and the next scan of the same server
\* opens the window again for the same tick.
FiresOncePerTick ==
    [][\A s \in Schedule :
          scan.next = s /\ call[Scheduler].kind = "enter"
            /\ At(Scheduler, "write") /\ At(Scheduler, "audit")'
          => s \in again \/ \E t \in Ticks[s] : opened[s] < t /\ t <= scan.time]_vars

\* The window of a schedule is closed when its time is up, whatever fails and
\* whoever enters the silence meanwhile, unless a person has taken it over.
WindowCloses ==
    \A e \in 1..MaxTime :
        row.active /\ row.source = "schedule" /\ row.exit = e
          ~> ~(row.active /\ row.source = "schedule" /\ row.exit = e)
=============================================================================
