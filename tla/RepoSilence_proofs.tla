------------------------ MODULE RepoSilence_proofs ------------------------
(***************************************************************************)
(* The silence of a repository, for any people, schedules and times: a     *)
(* silence keeps the time it began at, and a window is only opened for a   *)
(* tick that has fallen due since it was last opened, unless the audit     *)
(* entry of that opening failed.                                           *)
(*                                                                         *)
(* For the first, a version that was read and is still there stands for    *)
(* the same row.  For the second, the last opening of a schedule is never  *)
(* later than lastCronFire, except while Enter is on its way back and      *)
(* after an opening that was not audited.                                  *)
(***************************************************************************)
EXTENDS RepoSilence, TLAPS

Clock == scan.time <= now /\ \A s \in Schedule : lastFire[s] <= now

Phase ==
    /\ scan.at = "idle" => At(Scheduler, "idle")
    /\ scan.at = "enter" /\ ~At(Scheduler, "idle") => scan.next \in Schedule
    /\ call[Scheduler].at \in {"write", "audit"} =>
         call[Scheduler].kind = IF scan.at = "enter" THEN "enter" ELSE "exit"

\* What a call has read and what is there now.
Read(c, r) ==
    c.at = "write" =>
      /\ c.ver <= r.ver
      /\ c.kind = "enter" /\ c.ver = r.ver /\ r.active => c.since = r.since

On(s) == scan.at = "enter" /\ scan.next = s

\* No opening is later than the firing that is recorded.
Recorded(s) ==
    /\ opened[s] <= now
    /\ scan.at # "idle" => opened[s] <= scan.time
    /\ \/ s \in again \/ lastFire[s] = 0 \/ opened[s] <= lastFire[s]
       \/ On(s) /\ call[Scheduler].at \in {"audit", "ok"}
    /\ On(s) /\ At(Scheduler, "write") => lastFire[s] # 0 /\ IsDue(s)

Inv ==
    /\ TypeOK /\ Clock /\ Phase
    /\ \A p \in Caller : Read(call[p], row)

-----------------------------------------------------------------------------
LEMMA Starts == Init => Inv /\ \A s \in Schedule : Recorded(s)
<1> SUFFICES ASSUME Init PROVE Inv /\ \A s \in Schedule : Recorded(s)
  OBVIOUS
<1>1. Inv
  <2>1. call \in [Caller -> Calls] /\ scan \in Scans /\ row \in State
    BY DEF Init, Calls, NoCall, Scans, NoScan, State, NoRow
  <2>2. \A p \in Caller : call[p].at = "idle"
    BY DEF Init, NoCall
  <2>3. TypeOK
    BY <2>1 DEF Init, TypeOK
  <2>4. Clock /\ Phase
    BY <2>2 DEF Init, Clock, Phase, At, Caller, NoScan
  <2> QED
    BY <2>2, <2>3, <2>4 DEF Inv, Read
<1>2. ASSUME NEW s \in Schedule PROVE Recorded(s)
  BY <1>2 DEF Init, Recorded, On, NoScan, NoCall, At, Caller
<1> QED
  BY <1>1, <1>2

-----------------------------------------------------------------------------
(* What the parts of a step do.                                            *)

LEMMA ReturnsDoes ==
    ASSUME TypeOK, NEW p \in Caller, NEW r \in {"ok", "failed"}, Returns(p, r)
    PROVE  /\ call' \in [Caller -> Calls]
           /\ \A q \in Caller : q # p => call'[q] = call[q]
           /\ call'[p].at = IF p = Scheduler THEN r ELSE "idle"
<1> DEFINE c == IF p = Scheduler THEN [NoCall EXCEPT !.at = r] ELSE NoCall
<1>1. c \in Calls /\ c.at = IF p = Scheduler THEN r ELSE "idle"
  BY DEF Calls, NoCall
<1>2. call' = [call EXCEPT ![p] = c]
  BY DEF Returns
<1> HIDE DEF c
<1> QED
  BY <1>1, <1>2 DEF TypeOK

LEMMA EnterDoes ==
    ASSUME TypeOK, NEW p \in Caller, NEW e \in Nat, Enter(p, e)
    PROVE  /\ call' \in [Caller -> Calls]
           /\ \A q \in Caller : q # p => call'[q] = call[q]
           /\ call'[p].at = "write" /\ call'[p].kind = "enter" /\ call'[p].ver = row.ver
           /\ row.active => call'[p].since = row.since
<1> DEFINE c == [at |-> "write", kind |-> "enter", ver |-> row.ver,
                 since |-> IF row.active THEN row.since ELSE now, exit |-> e]
<1>1. c \in Calls
  BY DEF Calls, TypeOK, State
<1>2. call' = [call EXCEPT ![p] = c]
  BY DEF Enter
<1>3. c.at = "write" /\ c.kind = "enter" /\ c.ver = row.ver /\ (row.active => c.since = row.since)
  OBVIOUS
<1> HIDE DEF c
<1> QED
  BY <1>1, <1>2, <1>3 DEF TypeOK

LEMMA ExitDoes ==
    ASSUME TypeOK, NEW p \in Caller, Exit(p)
    PROVE  /\ call' \in [Caller -> Calls]
           /\ \A q \in Caller : q # p => call'[q] = call[q]
           /\ \/ call'[p].at = "write" /\ call'[p].kind = "exit" /\ call'[p].ver = row.ver
              \/ call'[p].at = IF p = Scheduler THEN "ok" ELSE "idle"
<1>1. CASE row.active
  <2> DEFINE c == [NoCall EXCEPT !.at = "write", !.kind = "exit", !.ver = row.ver]
  <2>1. c \in Calls /\ c.at = "write" /\ c.kind = "exit" /\ c.ver = row.ver
    BY DEF Calls, NoCall, TypeOK, State
  <2>2. call' = [call EXCEPT ![p] = c]
    BY <1>1 DEF Exit
  <2> HIDE DEF c
  <2> QED
    BY <2>1, <2>2 DEF TypeOK
<1>2. CASE ~row.active
  BY <1>2, ReturnsDoes DEF Exit
<1> QED
  BY <1>1, <1>2

LEMMA SchedulerRests ==
    ASSUME TypeOK, call' = [call EXCEPT ![Scheduler] = NoCall]
    PROVE  /\ call' \in [Caller -> Calls] /\ call'[Scheduler].at = "idle"
           /\ \A q \in Caller : q # Scheduler => call'[q] = call[q]
<1>1. NoCall \in Calls /\ NoCall.at = "idle"
  BY DEF NoCall, Calls
<1> QED
  BY <1>1 DEF TypeOK, Caller

LEMMA GoesOn ==
    ASSUME TypeOK, NextOne
    PROVE  scan' \in Scans /\ scan'.next = scan.next + 1 /\ scan'.at = scan.at /\ scan'.time = scan.time
BY DEF TypeOK, NextOne, Scans

LEMMA FiresEnters ==
    ASSUME TypeOK, Fires
    PROVE  scan.time + Duration[scan.next] \in Nat
<1>1. scan.next \in DOMAIN Ticks /\ scan.time \in Nat
  BY DEF TypeOK, Scans, Fires, Entering, Schedule
<1>2. Duration[scan.next] \in Nat
  BY <1>1, SilenceAssumption
<1> QED
  BY <1>1, <1>2

LEMMA WritesDoes ==
    ASSUME TypeOK, NEW p \in Caller, Writes(p)
    PROVE  /\ call' \in [Caller -> Calls] /\ row' \in State
           /\ \A q \in Caller : q # p => call'[q] = call[q]
           /\ call'[p].at # "write"
           /\ \/ row' = row /\ call'[p].at = IF p = Scheduler THEN "failed" ELSE "idle"
              \/ /\ call[p].ver \in {0, row.ver} /\ row' = Replacement(p)
                 /\ call'[p].at = "audit" /\ call'[p].kind = call[p].kind
<1>1. CASE call[p].ver \in {0, row.ver}
  <2>1. call[p] \in Calls
    BY DEF TypeOK
  <2>2. row' = Replacement(p) /\ call' = [call EXCEPT ![p].at = "audit"]
    BY <1>1 DEF Writes
  <2>3. row' \in State
    BY <2>1, <2>2 DEF Replacement, State, Calls, TypeOK
  <2>4. call' = [call EXCEPT ![p] = [call[p] EXCEPT !.at = "audit"]]
    BY <2>2
  <2>5. /\ [call[p] EXCEPT !.at = "audit"] \in Calls
        /\ [call[p] EXCEPT !.at = "audit"].at = "audit"
        /\ [call[p] EXCEPT !.at = "audit"].kind = call[p].kind
    BY <2>1 DEF Calls
  <2> QED
    BY <1>1, <2>2, <2>3, <2>4, <2>5 DEF TypeOK
<1>2. CASE call[p].ver \notin {0, row.ver}
  <2>1. Returns(p, "failed") /\ row' = row
    BY <1>2 DEF Writes
  <2> QED
    BY <2>1, ReturnsDoes DEF TypeOK
<1> QED
  BY <1>1, <1>2

\* Only the scheduler's write of a firing opens a window.
LEMMA OpensDoes ==
    ASSUME TypeOK, Phase, NEW p \in Caller, Writes(p)
    PROVE  /\ opened' \in [Schedule -> Nat] /\ again' \subseteq Schedule
           /\ \A s \in Schedule :
                \/ opened'[s] = opened[s] /\ (s \in again' <=> s \in again)
                \/ /\ p = Scheduler /\ On(s) /\ call'[Scheduler].at = "audit"
                   /\ opened'[s] = scan.time /\ s \notin again'
<1>1. CASE Opens(p) /\ call'[p].at = "audit" /\ p = Scheduler /\ call[p].kind = "enter"
  <2>1. scan.at = "enter" /\ scan.next \in Schedule
    BY <1>1 DEF Phase, At, Writes
  <2>2. opened' = [opened EXCEPT ![scan.next] = scan.time] /\ again' = again \ {scan.next}
    BY <1>1 DEF Opens
  <2> QED
    BY <1>1, <2>1, <2>2 DEF TypeOK, Scans, On
<1>2. CASE UNCHANGED <<opened, again>>
  BY <1>2 DEF TypeOK
<1>3. \/ UNCHANGED <<opened, again>>
      \/ Opens(p) /\ call' = [call EXCEPT ![p].at = "audit"]
  BY DEF Writes
<1>4. call' = [call EXCEPT ![p].at = "audit"] => call'[p].at = "audit"
  BY DEF TypeOK, Calls
<1>5. Opens(p) => \/ UNCHANGED <<opened, again>>
                  \/ p = Scheduler /\ call[p].kind = "enter"
  BY Zenon DEF Opens
<1> QED
  BY <1>1, <1>2, <1>3, <1>4, <1>5

-----------------------------------------------------------------------------
\* One step keeps the types.
LEMMA TypeStep == Inv /\ [Next]_vars => TypeOK'
<1> SUFFICES ASSUME Inv, [Next]_vars PROVE TypeOK'
  OBVIOUS
<1> DEFINE Goal == TypeOK'
<1> USE DEF Inv, TypeOK
<1>1. CASE TimePasses
  BY <1>1 DEF TimePasses
<1>2. CASE ScanBegins
  BY <1>2 DEF ScanBegins, Scans, IsOver
<1>3. CASE FirstSeen
  <2>1. lastFire' \in [Schedule -> Nat]
    BY <1>3 DEF FirstSeen, Scans
  <2> QED
    BY <1>3, <2>1, GoesOn DEF FirstSeen
<1>4. CASE NotDue
  BY <1>4, GoesOn DEF NotDue, Entering
<1>5. CASE Fires
  BY <1>5, FiresEnters, EnterDoes DEF Fires, Caller
<1>6. CASE EnterReturns
  <2>1. lastFire' \in [Schedule -> Nat]
    BY <1>6 DEF EnterReturns, Scans
  <2> QED
    BY <1>6, <2>1, SchedulerRests, GoesOn DEF EnterReturns
<1>7. CASE ProcessExit
  <2>1. scan' \in Scans
    <3>1. [scan EXCEPT !.at = "exit"] \in Scans /\ NoScan \in Scans
      BY DEF Scans, NoScan
    <3> QED
      BY <1>7, <3>1 DEF ProcessExit
  <2> QED
    BY <1>7, <2>1, ExitDoes DEF ProcessExit, Caller
<1>8. CASE ExitReturns
  BY <1>8, SchedulerRests DEF ExitReturns, NoScan, Scans
<1>9. CASE Crash
  BY <1>9 DEF Crash, NoScan, Scans, NoCall, Calls
<1>10. ASSUME NEW p \in Person, PersonAsks(p) PROVE Goal
  <2>1. call' \in [Caller -> Calls]
    BY <1>10, EnterDoes, ExitDoes DEF PersonAsks, Caller
  <2> QED
    BY <1>10, <2>1 DEF PersonAsks
<1>11. ASSUME NEW p \in Caller, Writes(p) PROVE Goal
  <2>1. opened' \in [Schedule -> Nat] /\ again' \subseteq Schedule
    BY <1>11, OpensDoes
  <2> QED
    BY <1>11, <2>1, WritesDoes DEF Writes
<1>12. ASSUME NEW p \in Caller, WriteFails(p) PROVE Goal
  BY <1>12, ReturnsDoes DEF WriteFails
<1>13. ASSUME NEW p \in Caller, Audits(p) PROVE Goal
  BY <1>13, ReturnsDoes DEF Audits
<1>14. ASSUME NEW p \in Caller, AuditFails(p) PROVE Goal
  <2>1. p = Scheduler /\ call[p].kind = "enter" => scan.next \in Schedule
    BY <1>14 DEF AuditFails, Phase, At
  <2>2. again' \subseteq Schedule
    BY <1>14, <2>1 DEF AuditFails
  <2> QED
    BY <1>14, <2>2, ReturnsDoes DEF AuditFails
<1>15. CASE UNCHANGED vars
  BY <1>15 DEF vars
<1> QED
  BY <1>1, <1>2, <1>3, <1>4, <1>5, <1>6, <1>7, <1>8, <1>9, <1>10, <1>11, <1>12, <1>13, <1>14, <1>15 DEF Next, Scanning, Caller

\* No time lies ahead of the clock.
LEMMA ClockStep == Inv /\ [Next]_vars => Clock'
<1> SUFFICES ASSUME Inv, [Next]_vars PROVE Clock'
  OBVIOUS
<1> DEFINE Goal == Clock'
<1> USE DEF Inv, TypeOK, Clock, Scans, Schedule
<1>1. CASE TimePasses
  BY <1>1 DEF TimePasses
<1>2. CASE ScanBegins
  BY <1>2 DEF ScanBegins
<1>3. CASE FirstSeen
  BY <1>3, GoesOn DEF FirstSeen, Entering
<1>4. CASE NotDue
  BY <1>4, GoesOn DEF NotDue, Entering
<1>5. CASE Fires
  BY <1>5, FiresEnters, EnterDoes DEF Fires, Entering
<1>6. CASE EnterReturns
  BY <1>6, SchedulerRests, GoesOn DEF EnterReturns
<1>7. CASE ProcessExit
  BY <1>7, ExitDoes DEF ProcessExit, NoScan
<1>8. CASE ExitReturns
  BY <1>8, SchedulerRests DEF ExitReturns, NoScan
<1>9. CASE Crash
  BY <1>9 DEF Crash, NoScan, NoCall
<1>10. ASSUME NEW p \in Person, PersonAsks(p) PROVE Goal
  BY <1>10, EnterDoes, ExitDoes DEF PersonAsks
<1>11. ASSUME NEW p \in Caller, Writes(p) PROVE Goal
  BY <1>11, WritesDoes DEF Writes
<1>12. ASSUME NEW p \in Caller, WriteFails(p) PROVE Goal
  BY <1>12, ReturnsDoes DEF WriteFails
<1>13. ASSUME NEW p \in Caller, Audits(p) PROVE Goal
  BY <1>13, ReturnsDoes DEF Audits
<1>14. ASSUME NEW p \in Caller, AuditFails(p) PROVE Goal
  BY <1>14, ReturnsDoes DEF AuditFails
<1>15. CASE UNCHANGED vars
  BY <1>15 DEF vars
<1> QED
  BY <1>1, <1>2, <1>3, <1>4, <1>5, <1>6, <1>7, <1>8, <1>9, <1>10, <1>11, <1>12, <1>13, <1>14, <1>15 DEF Next, Scanning, Caller

\* The scan and its call go together.
LEMMA PhaseStep == Inv /\ [Next]_vars => Phase'
<1> SUFFICES ASSUME Inv, [Next]_vars PROVE Phase'
  OBVIOUS
<1> DEFINE Goal == Phase'
<1> USE SilenceAssumption DEF Inv, TypeOK, Phase, Caller, Calls, Scans, At, Schedule
<1>1. CASE TimePasses
  BY <1>1 DEF TimePasses
<1>2. CASE ScanBegins
  BY <1>2 DEF ScanBegins
<1>3. CASE FirstSeen
  BY <1>3, GoesOn DEF FirstSeen, Entering
<1>4. CASE NotDue
  BY <1>4, GoesOn DEF NotDue, Entering
<1>5. CASE Fires
  BY <1>5, FiresEnters, EnterDoes DEF Fires, Entering
<1>6. CASE EnterReturns
  BY <1>6, SchedulerRests, GoesOn DEF EnterReturns
<1>7. CASE ProcessExit
  BY <1>7, ExitDoes DEF ProcessExit, NoScan
<1>8. CASE ExitReturns
  BY <1>8, SchedulerRests DEF ExitReturns, NoScan
<1>9. CASE Crash
  BY <1>9 DEF Crash, NoScan, NoCall
<1>10. ASSUME NEW p \in Person, PersonAsks(p) PROVE Goal
  BY <1>10, EnterDoes, ExitDoes DEF PersonAsks
<1>11. ASSUME NEW p \in Caller, Writes(p) PROVE Goal
  BY <1>11, WritesDoes DEF Writes
<1>12. ASSUME NEW p \in Caller, WriteFails(p) PROVE Goal
  BY <1>12, ReturnsDoes DEF WriteFails
<1>13. ASSUME NEW p \in Caller, Audits(p) PROVE Goal
  BY <1>13, ReturnsDoes DEF Audits
<1>14. ASSUME NEW p \in Caller, AuditFails(p) PROVE Goal
  BY <1>14, ReturnsDoes DEF AuditFails
<1>15. CASE UNCHANGED vars
  BY <1>15 DEF vars
<1> QED
  BY <1>1, <1>2, <1>3, <1>4, <1>5, <1>6, <1>7, <1>8, <1>9, <1>10, <1>11, <1>12, <1>13, <1>14, <1>15 DEF Next, Scanning, Caller

\* A replaced row has a version that nobody has read.
LEMMA ReadStep == Inv /\ [Next]_vars => \A p \in Caller : Read(call'[p], row')
<1> SUFFICES ASSUME Inv, [Next]_vars PROVE \A p \in Caller : Read(call'[p], row')
  OBVIOUS
<1> DEFINE Goal == \A p \in Caller : Read(call'[p], row')
<1> USE DEF Inv, TypeOK, Read, Caller, Calls, State, At
<1>1. CASE TimePasses
  BY <1>1 DEF TimePasses
<1>2. CASE ScanBegins
  BY <1>2 DEF ScanBegins
<1>3. CASE FirstSeen
  BY <1>3, GoesOn DEF FirstSeen, Entering
<1>4. CASE NotDue
  BY <1>4, GoesOn DEF NotDue, Entering
<1>5. CASE Fires
  BY <1>5, FiresEnters, EnterDoes DEF Fires, Entering
<1>6. CASE EnterReturns
  BY <1>6, SchedulerRests, GoesOn DEF EnterReturns
<1>7. CASE ProcessExit
  BY <1>7, ExitDoes DEF ProcessExit, NoScan
<1>8. CASE ExitReturns
  BY <1>8, SchedulerRests DEF ExitReturns, NoScan
<1>9. CASE Crash
  BY <1>9 DEF Crash, NoScan, NoCall
<1>10. ASSUME NEW p \in Person, PersonAsks(p) PROVE Goal
  BY <1>10, EnterDoes, ExitDoes DEF PersonAsks
<1>11. ASSUME NEW p \in Caller, Writes(p) PROVE Goal
  <2>1. ASSUME NEW q \in Caller PROVE Read(call'[q], row')
    <3>1. CASE q = p
      BY <1>11, <2>1, <3>1, WritesDoes
    <3>2. CASE q # p /\ row' = row
      BY <1>11, <2>1, <3>2, WritesDoes
    <3>3. CASE q # p /\ row' = Replacement(p)
      <4>1. call'[q] = call[q] /\ row'.ver = row.ver + 1
        BY <1>11, <2>1, <3>3, WritesDoes DEF Replacement
      <4> QED
        BY <2>1, <4>1
    <3> QED
      BY <1>11, <3>1, <3>2, <3>3, WritesDoes
  <2> QED
    BY <2>1
<1>12. ASSUME NEW p \in Caller, WriteFails(p) PROVE Goal
  BY <1>12, ReturnsDoes DEF WriteFails
<1>13. ASSUME NEW p \in Caller, Audits(p) PROVE Goal
  BY <1>13, ReturnsDoes DEF Audits
<1>14. ASSUME NEW p \in Caller, AuditFails(p) PROVE Goal
  BY <1>14, ReturnsDoes DEF AuditFails
<1>15. CASE UNCHANGED vars
  BY <1>15 DEF vars
<1> QED
  BY <1>1, <1>2, <1>3, <1>4, <1>5, <1>6, <1>7, <1>8, <1>9, <1>10, <1>11, <1>12, <1>13, <1>14, <1>15 DEF Next, Scanning, Caller

LEMMA Keeps == Inv /\ [Next]_vars => Inv'
  BY TypeStep, ClockStep, PhaseStep, ReadStep DEF Inv

\* One step keeps what is recorded of a schedule.
LEMMA KeepsRecord ==
    ASSUME Inv, Inv', [Next]_vars, NEW s \in Schedule, Recorded(s)
    PROVE  Recorded(s)'
<1> DEFINE Goal == Recorded(s)'
<1>a. /\ lastFire[s] \in Nat /\ scan.time \in Nat /\ now \in Nat /\ opened[s] \in Nat
      /\ lastFire'[s] \in Nat /\ scan'.time \in Nat /\ now' \in Nat /\ opened'[s] \in Nat
      /\ lastFire[s] <= now /\ scan.time <= now
  BY DEF Inv, TypeOK, Clock, Scans
<1>b. Phase /\ TypeOK
  BY DEF Inv
<1> USE <1>a, <1>b DEF Recorded, On, Phase, At, TypeOK, Calls, Scans
<1>1. CASE TimePasses
  BY <1>1 DEF TimePasses, IsDue
<1>2. CASE ScanBegins
  BY <1>2 DEF ScanBegins, IsDue
<1>3. CASE FirstSeen
  BY <1>3, GoesOn DEF FirstSeen, Entering, IsDue
<1>4. CASE NotDue
  BY <1>4, GoesOn DEF NotDue, Entering, IsDue
<1>5. CASE Fires
  BY <1>5, FiresEnters, EnterDoes DEF Fires, Entering, IsDue
<1>6. CASE EnterReturns
  BY <1>6, SchedulerRests, GoesOn DEF EnterReturns, IsDue
<1>7. CASE ProcessExit
  BY <1>7, ExitDoes DEF ProcessExit, NoScan, IsDue
<1>8. CASE ExitReturns
  BY <1>8, SchedulerRests DEF ExitReturns, NoScan, IsDue
<1>9. CASE Crash
  BY <1>9 DEF Crash, NoScan, NoCall, IsDue
<1>10. ASSUME NEW p \in Person, PersonAsks(p) PROVE Goal
  <2>1. call'[Scheduler] = call[Scheduler]
    <3>1. Scheduler # p /\ Scheduler \in Caller /\ p \in Caller /\ (Enter(p, 0) \/ Exit(p))
      BY <1>10, SilenceAssumption DEF PersonAsks, Caller
    <3> QED
      BY <3>1, <1>b, EnterDoes, ExitDoes
  <2> QED
    BY <1>10, <2>1 DEF PersonAsks, IsDue
<1>11. ASSUME NEW p \in Caller, Writes(p) PROVE Goal
  <2>1. UNCHANGED <<now, scan, lastFire>> /\ (IsDue(s)' <=> IsDue(s))
    BY <1>11 DEF Writes, IsDue
  <2>2. p # Scheduler => call'[Scheduler] = call[Scheduler]
    BY <1>11, WritesDoes DEF Caller
  <2>3. p = Scheduler => At(Scheduler, "write") /\ call'[Scheduler].at # "write"
    BY <1>11, WritesDoes DEF Writes
  <2>4. CASE opened'[s] = opened[s] /\ (s \in again' <=> s \in again)
    BY <2>1, <2>2, <2>3, <2>4
  <2>5. CASE p = Scheduler /\ On(s) /\ call'[Scheduler].at = "audit" /\ opened'[s] = scan.time
    BY <2>1, <2>5
  <2> QED
    BY <1>11, <2>4, <2>5, OpensDoes
<1>12. ASSUME NEW p \in Caller, WriteFails(p) PROVE Goal
  <2>1. p # Scheduler => call'[Scheduler] = call[Scheduler]
    BY <1>12, ReturnsDoes DEF WriteFails, Caller
  <2> QED
    BY <1>12, <2>1, ReturnsDoes DEF WriteFails, IsDue
<1>13. ASSUME NEW p \in Caller, Audits(p) PROVE Goal
  <2>1. p # Scheduler => call'[Scheduler] = call[Scheduler]
    BY <1>13, ReturnsDoes DEF Audits, Caller
  <2> QED
    BY <1>13, <2>1, ReturnsDoes DEF Audits, IsDue
<1>14. ASSUME NEW p \in Caller, AuditFails(p) PROVE Goal
  <2>1. p # Scheduler => call'[Scheduler] = call[Scheduler]
    BY <1>14, ReturnsDoes DEF AuditFails, Caller
  <2> QED
    BY <1>14, <2>1, ReturnsDoes DEF AuditFails, IsDue
<1>15. CASE UNCHANGED vars
  BY <1>15 DEF vars, IsDue
<1> QED
  BY <1>1, <1>2, <1>3, <1>4, <1>5, <1>6, <1>7, <1>8, <1>9, <1>10, <1>11, <1>12, <1>13, <1>14, <1>15 DEF Next, Scanning, Caller

\* A step that moves the beginning of a silence is a first write.
LEMMA SinceStep == Inv /\ [Next]_vars => (row.active /\ row'.active => row'.since = row.since \/ \E p \in Caller : First(p) /\ ~First(p)')
<1> SUFFICES ASSUME Inv, [Next]_vars, row.active, row'.active, row'.since # row.since
             PROVE  \E p \in Caller : First(p) /\ ~First(p)'
  OBVIOUS
<1> DEFINE Goal == \E p \in Caller : First(p) /\ ~First(p)'
<1> USE SilenceAssumption DEF Inv, TypeOK, Read, Caller, Calls, State, At, First
<1>1. CASE TimePasses
  BY <1>1 DEF TimePasses
<1>2. CASE ScanBegins
  BY <1>2 DEF ScanBegins
<1>3. CASE FirstSeen
  BY <1>3 DEF FirstSeen
<1>4. CASE NotDue
  BY <1>4 DEF NotDue
<1>5. CASE Fires
  BY <1>5 DEF Fires
<1>6. CASE EnterReturns
  BY <1>6 DEF EnterReturns
<1>7. CASE ProcessExit
  BY <1>7 DEF ProcessExit
<1>8. CASE ExitReturns
  BY <1>8 DEF ExitReturns
<1>9. CASE Crash
  BY <1>9 DEF Crash
<1>10. ASSUME NEW p \in Person, PersonAsks(p) PROVE Goal
  BY <1>10 DEF PersonAsks
<1>11. ASSUME NEW p \in Caller, Writes(p) PROVE Goal
  <2>1. row' = Replacement(p) /\ call' = [call EXCEPT ![p].at = "audit"] /\ call[p].ver \in {0, row.ver}
    BY <1>11 DEF Writes
  <2>2. call[p].kind = "enter" /\ row'.since = call[p].since
    BY <2>1 DEF Replacement
  <2>3. call[p].ver = 0
    BY <1>11, <2>1, <2>2 DEF Writes
  <2> QED
    BY <1>11, <2>1, <2>3 DEF Writes
<1>12. ASSUME NEW p \in Caller, WriteFails(p) PROVE Goal
  BY <1>12 DEF WriteFails
<1>13. ASSUME NEW p \in Caller, Audits(p) PROVE Goal
  BY <1>13 DEF Audits
<1>14. ASSUME NEW p \in Caller, AuditFails(p) PROVE Goal
  BY <1>14 DEF AuditFails
<1>15. CASE UNCHANGED vars
  BY <1>15 DEF vars
<1> QED
  BY <1>1, <1>2, <1>3, <1>4, <1>5, <1>6, <1>7, <1>8, <1>9, <1>10, <1>11, <1>12, <1>13, <1>14, <1>15 DEF Next, Scanning, Caller

-----------------------------------------------------------------------------
LEMMA Invariant == Spec => []Inv
<1>1. Init => Inv
  BY Starts
<1> QED
  BY <1>1, Keeps, PTL DEF Spec

\* Every variable keeps its type.
THEOREM TypeCorrect == Spec => []TypeOK
<1>1. Inv => TypeOK
  BY DEF Inv
<1> QED
  BY <1>1, Invariant, PTL

\* Enter reads the row, and UpdateState only writes over the version that was
\* read: whoever enters a silence that is on leaves its beginning alone, but
\* for calls that raced the very first one.
THEOREM SinceHolds == Spec => SinceIsKept
<1>1. Inv /\ [Next]_vars =>
        [row.active /\ row'.active =>
           row'.since = row.since \/ \E p \in Caller : First(p) /\ ~First(p)']_vars
  BY SinceStep
<1> QED
  BY <1>1, Invariant, PTL DEF Spec, SinceIsKept

\* For any schedules and ticks, and with any number of failures and crashes, a
\* window is only opened for a tick that has fallen due since it was last
\* opened, unless the audit entry of that opening failed.
THEOREM OncePerTick == Spec => FiresOncePerTick
<1> DEFINE All == \A s \in Schedule : Recorded(s)
<1>1. Init => All
  BY Starts
<1>2. Inv /\ Inv' /\ All /\ [Next]_vars => All'
  <2> SUFFICES ASSUME Inv, Inv', All, [Next]_vars, NEW s \in Schedule PROVE Recorded(s)'
    BY DEF Schedule
  <2> QED
    BY KeepsRecord
<1> DEFINE OpensFor(s) == scan.next = s /\ call[Scheduler].kind = "enter"
                            /\ At(Scheduler, "write") /\ At(Scheduler, "audit")'
           Due(s)      == s \in again \/ \E t \in Ticks[s] : opened[s] < t /\ t <= scan.time
<1>3. Inv /\ All => [\A s \in Schedule : OpensFor(s) => Due(s)]_vars
  <2> SUFFICES ASSUME Inv, All, NEW s \in Schedule, OpensFor(s), s \notin again
               PROVE  \E t \in Ticks[s] : opened[s] < t /\ t <= scan.time
    OBVIOUS
  <2>1. On(s) /\ Recorded(s) /\ At(Scheduler, "write")
    BY DEF Inv, Phase, At, On
  <2>2. opened[s] <= lastFire[s] /\ opened[s] \in Nat /\ lastFire[s] \in Nat /\ scan.time \in Nat
    BY <2>1 DEF Recorded, At, Inv, TypeOK, Scans
  <2>3. PICK t \in Ticks[s] : lastFire[s] < t /\ t <= scan.time
    BY <2>1 DEF Recorded, IsDue
  <2>4. t \in Nat
    BY SilenceAssumption DEF Schedule
  <2> QED
    BY <2>2, <2>3, <2>4
<1> QED
  BY <1>1, <1>2, <1>3, Invariant, PTL DEF Spec, FiresOncePerTick
=============================================================================
