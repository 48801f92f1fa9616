-------------------------- MODULE PlanEngine_proofs --------------------------
(***************************************************************************)
(* The plan engine for every tree of issues and any number of requests:    *)
(* the variables keep their types, an issue is announced once per epic and *)
(* when it is ready, passes keep to the budget, and edges added one at a   *)
(* time close no cycle.                                                    *)
(*                                                                         *)
(* Announcing and marking are two steps: what rules out a second announce- *)
(* ment is that whoever stands between them is alone below its epic.  The  *)
(* edges are acyclic because whatever the check found is still true when   *)
(* the edge is inserted: a path is refuted by a set closed under the       *)
(* edges, and such sets are combined into one that refutes the new cycle.  *)
(***************************************************************************)
EXTENDS PlanEngine, FiniteSetTheorems, TLAPS

\* A request names the issues its step is about.
Aimed(r) ==
    /\ r \in Request
    /\ r.at # "idle" => r.issue \in Issue
    /\ r.at \in {"insert", "mark"} => r.on \in Issue
    /\ r.at \in {"gate", "write"} => r.want # "open"
Requests == req \in [Slots -> Request] /\ \A p \in Slots : Aimed(req[p])

Types ==
    /\ state \in [Issue -> IssueState]
    /\ deps \subseteq Edges
    /\ used \in [Issue -> Nat]
    /\ dispatched \in [Issue -> SUBSET Issue]
    /\ fired \in [Issue -> [Issue -> Nat]]
    /\ adds \in 0..MaxAdds /\ raced \in BOOLEAN /\ late \subseteq deps /\ faults \in 0..MaxFaults
    /\ done \subseteq Issue

\* The mutex of an epic lets one call in.
Alone == \A p, q \in Slots : \A e \in Issue : Inside(p, e) /\ Inside(q, e) => p = q

\* What was announced is in the table, or whoever announced it is about to
\* put it there.
Marking(e, i) == \E p \in Slots : At(p, "mark") /\ req[p].issue = e /\ req[p].on = i
Marked ==
    \A e, i \in Issue : /\ fired[e][i] <= 1
                        /\ fired[e][i] = 1 => i \in dispatched[e] \/ Marking(e, i)

\* Edges that are not added together: one at a time is on its way, and the
\* way back is still missing.
OneComing == \A p, q \in Slots : At(p, "insert") /\ At(q, "insert") => p = q
NoWayBack == \A p \in Slots : At(p, "insert") => ~Path(deps, req[p].on, req[p].issue)
Orderly   == raced \/ (OneComing /\ NoWayBack /\ Acyclic)

Inv == Requests /\ Types /\ Alone /\ Marked /\ Orderly

-----------------------------------------------------------------------------
(* Paths.                                                                  *)

\* A set that refutes a path.
LEMMA Refuted ==
    ASSUME NEW E, NEW i, NEW j
    PROVE  ~Path(E, i, j) <=> \E S \in SUBSET Issue : i \in S /\ Closed(S, E) /\ j \notin S
BY DEF Path

\* Fewer edges make no new path.
LEMMA FewerEdges ==
    ASSUME NEW E, NEW F, F \subseteq E, NEW i, NEW j, ~Path(E, i, j)
    PROVE  ~Path(F, i, j)
<1>1. PICK S \in SUBSET Issue : i \in S /\ Closed(S, E) /\ j \notin S
  BY Refuted
<1>2. Closed(S, F)
  BY <1>1 DEF Closed
<1> QED BY <1>1, <1>2, Refuted

\* An edge that closes no cycle leaves acyclic edges acyclic.
LEMMA OneMoreEdge ==
    ASSUME NEW E \in SUBSET Edges, NEW i \in Issue, NEW d \in Issue, ~Path(E, d, i),
           \A x \in E : ~Path(E, x[2], x[1])
    PROVE  \A x \in E \cup {<<i, d>>} : ~Path(E \cup {<<i, d>>}, x[2], x[1])
<1> DEFINE F == E \cup {<<i, d>>}
<1>1. PICK S0 \in SUBSET Issue : d \in S0 /\ Closed(S0, E) /\ i \notin S0
  BY Refuted
<1>2. \A S : Closed(S, E) /\ (i \notin S \/ d \in S) => Closed(S, F)
  BY DEF Closed
<1>3. ~Path(F, d, i)
  BY <1>1, <1>2, Refuted
<1>4. ASSUME NEW x \in E PROVE ~Path(F, x[2], x[1])
  <2>1. PICK S \in SUBSET Issue : x[2] \in S /\ Closed(S, E) /\ x[1] \notin S
    BY <1>4, Refuted
  <2>2. CASE i \notin S
    BY <1>2, <2>1, <2>2, Refuted
  <2>3. CASE x[2] \in S0
    <3>1. Closed(S \cap S0, E)
      BY <1>1, <2>1 DEF Closed
    <3>2. Closed(S \cap S0, F)
      BY <1>1, <1>2, <3>1
    <3>3. S \cap S0 \in SUBSET Issue /\ x[2] \in S \cap S0 /\ x[1] \notin S \cap S0
      BY <2>1, <2>3
    <3> QED BY <3>2, <3>3, Refuted
  <2>4. CASE x[2] \notin S0
    <3>1. Closed(S \cup S0, E)
      BY <1>1, <2>1 DEF Closed
    <3>2. Closed(S \cup S0, F)
      BY <1>1, <1>2, <3>1
    <3>3. x[1] \notin S0
      BY <1>1, <1>4, <2>4 DEF Closed
    <3>4. S \cup S0 \in SUBSET Issue /\ x[2] \in S \cup S0 /\ x[1] \notin S \cup S0
      BY <2>1, <3>3
    <3> QED BY <3>2, <3>4, Refuted
  <2> QED BY <2>3, <2>4
<1>5. <<i, d>>[1] = i /\ <<i, d>>[2] = d
  OBVIOUS
<1> QED BY <1>3, <1>4, <1>5

-----------------------------------------------------------------------------
LEMMA IdleAimed == Aimed(Idle) /\ Idle.at = "idle"
BY PlanAssumption DEF Aimed, Idle, Request, Step, IssueState

\* A request to merge or close, and one that tells the engine.
LEMMA LoadAimed ==
    ASSUME NEW i \in Issue, NEW want \in {"merged", "closed"}
    PROVE  /\ Aimed([Idle EXCEPT !.at = "gate", !.issue = i, !.want = want])
           /\ [Idle EXCEPT !.at = "gate", !.issue = i, !.want = want].at = "gate"
BY PlanAssumption DEF Aimed, Idle, Request, Step, IssueState

LEMMA TellAimed ==
    ASSUME NEW e \in Issue
    PROVE  /\ Aimed([Idle EXCEPT !.at = "lock", !.issue = e])
           /\ [Idle EXCEPT !.at = "lock", !.issue = e].at = "lock"
BY PlanAssumption DEF Aimed, Idle, Request, Step, IssueState

LEMMA InitInv == Init => Inv
<1> SUFFICES ASSUME Init PROVE Inv
  OBVIOUS
<1> USE PlanAssumption
<1>1. Requests
  BY IdleAimed DEF Init, Requests, Aimed
<1>2. Types
  <2>1. fired = [e \in Issue |-> [i \in Issue |-> 0]] /\ used = [e \in Issue |-> 0]
    BY DEF Init
  <2>2. fired \in [Issue -> [Issue -> Nat]] /\ used \in [Issue -> Nat]
    BY <2>1
  <2>3. state \in [Issue -> IssueState] /\ dispatched \in [Issue -> SUBSET Issue] /\ done = {}
    BY DEF Init, IssueState
  <2>4. /\ deps \subseteq Edges /\ late \subseteq deps /\ raced \in BOOLEAN
        /\ adds \in 0..MaxAdds /\ faults \in 0..MaxFaults
    <3>1. deps = {} /\ late = {} /\ raced = FALSE /\ adds = 0 /\ faults = 0
      BY DEF Init
    <3>2. MaxAdds \in Nat /\ MaxFaults \in Nat
      OBVIOUS
    <3>3. raced \in BOOLEAN
      BY <3>1, Zenon
    <3>4. adds \in 0..MaxAdds /\ faults \in 0..MaxFaults
      BY <3>1, <3>2
    <3>5. deps \subseteq Edges /\ late \subseteq deps
      BY <3>1
    <3> QED BY <3>3, <3>4, <3>5, Zenon
  <2> QED BY <2>2, <2>3, <2>4 DEF Types
<1>3. \A p \in Slots : req[p].at = "idle"
  BY DEF Init, Idle
<1>4. Alone
  BY <1>3 DEF Alone, Inside
<1>5. Marked
  BY DEF Init, Marked
<1>6. Orderly
  BY <1>3 DEF Init, Orderly, OneComing, NoWayBack, At, Acyclic
<1> QED BY <1>1, <1>2, <1>4, <1>5, <1>6 DEF Inv

\* What is known of a request.
LEMMA Known ==
    ASSUME Inv, NEW p \in Slots
    PROVE  /\ req \in [Slots -> Request] /\ req[p] \in Request /\ Aimed(req[p])
           /\ req[p].ready \in SUBSET Issue /\ req[p].gate \in Nat
           /\ req[p].seen \in [Issue -> IssueState] /\ req[p].want \in IssueState
BY DEF Inv, Requests, Request

\* Going on to another step of the same request.
LEMMA Later ==
    ASSUME Inv, NEW p \in Slots, NEW s \in Step
    PROVE  /\ [req[p] EXCEPT !.at = s].at = s
           /\ ~At(p, "idle") /\ s \in {"write", "dispatch"} /\ (s = "write" => At(p, "gate"))
                => Aimed([req[p] EXCEPT !.at = s])
BY Known DEF Aimed, Request, At

\* A slot whose request becomes r: the others do not change.
LEMMA Others ==
    ASSUME Inv, NEW p \in Slots, NEW r, Becomes(p, r)
    PROVE  req'[p] = r /\ \A q \in Slots \ {p} : req'[q] = req[q]
BY DEF Inv, Requests, Becomes

\* What a write does to a request, and who is told.
LEMMA AfterWrite ==
    ASSUME Inv, NEW p \in Slots, Writes(p)
    PROVE  /\ req[p].issue \in Issue /\ req[p].want \in {"merged", "closed"}
           /\ \E r : /\ Becomes(p, r) /\ Aimed(r) /\ r.at \in {"idle", "lock"}
<1>1. req[p].issue \in Issue /\ req[p].want \in {"merged", "closed"}
  BY Known DEF Writes, Aimed, At, IssueState
<1>2. CASE Becomes(p, Idle)
  BY <1>1, <1>2, IdleAimed
<1>3. CASE /\ Parent[req[p].issue] # NoIssue
           /\ Becomes(p, [Idle EXCEPT !.at = "lock", !.issue = Parent[req[p].issue]])
  <2>1. Parent[req[p].issue] \in Issue
    BY <1>1, <1>3, PlanAssumption
  <2> QED BY <1>1, <1>3, <2>1, TellAimed
<1> QED BY <1>1, <1>2, <1>3 DEF Writes

\* Merging and closing, and requests that fail, concern no pass that is
\* announcing and no edge.
Asides   == {"idle", "gate", "write", "lock"}
Aside(p) ==
    /\ ~Announces(p)
    /\ \E r : Becomes(p, r) /\ Aimed(r) /\ r.at \in Asides
    /\ UNCHANGED <<deps, used, dispatched, fired, adds, raced, late>>
OnIssue(p) ==
    \/ \E i \in Issue, want \in {"merged", "closed"} : Loads(p, i, want)
    \/ Gate(p) \/ GateFails(p) \/ Writes(p) \/ RequestFails(p)

LEMMA AsideStep == ASSUME Inv, NEW p \in Slots, OnIssue(p) PROVE Aside(p)
<1> USE DEF Aside, Asides, Announces, At
<1>1. ASSUME NEW i \in Issue, NEW want \in {"merged", "closed"}, Loads(p, i, want)
      PROVE  Aside(p)
  BY <1>1, LoadAimed DEF Loads
<1>2. CASE Gate(p)
  <2>1. req[p].at = "gate" /\ UNCHANGED <<deps, used, dispatched, fired, adds, raced, late>>
    BY <1>2 DEF Gate
  <2>2. CASE Becomes(p, Idle)
    BY <2>1, <2>2, IdleAimed
  <2>3. CASE GoTo(p, "write")
    BY <2>1, <2>3, Later DEF GoTo, Step
  <2> QED BY <1>2, <2>2, <2>3 DEF Gate
<1>3. CASE GateFails(p)
  BY <1>3, Later DEF GateFails, GoTo, Step
<1>4. CASE Writes(p)
  <2>1. /\ req[p].at = "write" /\ UNCHANGED <<deps, used, dispatched, fired, adds, raced, late>>
        /\ \E r : /\ Becomes(p, r) /\ Aimed(r) /\ r.at \in {"idle", "lock"}
    BY <1>4, AfterWrite DEF Writes
  <2> QED BY <2>1
<1>5. CASE RequestFails(p)
  BY <1>5, IdleAimed DEF RequestFails
<1> QED BY <1>1, <1>2, <1>3, <1>4, <1>5 DEF OnIssue

\* Every action keeps the variables in their types.
LEMMA TypesStep == ASSUME Inv, [Next]_vars PROVE Types'
<1> USE PlanAssumption DEF Inv, Types, issues
<1>21. ASSUME NEW p \in Slots, NEW i \in Issue, NEW want \in {"merged", "closed"}, Loads(p, i, want) PROVE Types'
  BY <1>21 DEF Loads, issues
<1>22. ASSUME NEW p \in Slots, Gate(p) PROVE Types'
  BY <1>22 DEF Gate, issues
<1>23. ASSUME NEW p \in Slots, GateFails(p) PROVE Types'
  BY <1>23 DEF GateFails, issues
<1>24. ASSUME NEW p \in Slots, Writes(p) PROVE Types'
  <2>1. req[p].issue \in Issue /\ req[p].want \in IssueState
    BY <1>24, AfterWrite DEF IssueState
  <2> QED BY <1>24, <2>1 DEF Writes
<1>3. ASSUME NEW p \in Slots, NEW i \in Issue, NEW j \in Issue, AddChecks(p, i, j) PROVE Types'
  <2>1. raced' = raced \/ raced' \in BOOLEAN
    BY <1>3, Zenon DEF AddChecks
  <2>2. adds' \in 0..MaxAdds
    BY <1>3 DEF AddChecks
  <2> QED BY <1>3, <2>1, <2>2 DEF AddChecks
<1>4. ASSUME NEW p \in Slots, AddInserts(p) PROVE Types'
  BY <1>4, Known DEF AddInserts, Aimed, At, Edges
<1>5. ASSUME NEW x \in deps, Remove(x) PROVE Types'
  BY <1>5 DEF Remove
<1>6. ASSUME NEW p \in Slots, Lock(p) PROVE Types'
  BY <1>6 DEF Lock
<1>7. ASSUME NEW p \in Slots, PlanReadsDeps(p) PROVE Types'
  BY <1>7 DEF PlanReadsDeps
<1>8. ASSUME NEW p \in Slots, NEW i \in Issue, Skip(p, i) PROVE Types'
  BY <1>8 DEF Skip
<1>9. ASSUME NEW p \in Slots, NEW i \in Issue, Fire(p, i) PROVE Types'
  BY <1>9, Known DEF Fire, Aimed, At
<1>10. ASSUME NEW p \in Slots, NEW i \in Issue, FireFails(p, i) PROVE Types'
  BY <1>10 DEF FireFails
<1>11. ASSUME NEW p \in Slots, Mark(p) PROVE Types'
  BY <1>11, Known DEF Mark, Aimed, At
<1>12. ASSUME NEW p \in Slots, Unlock(p) PROVE Types'
  BY <1>12 DEF Unlock
<1>13. ASSUME NEW p \in Slots, RequestFails(p) PROVE Types'
  BY <1>13 DEF RequestFails
<1>14. ASSUME Restart PROVE Types'
  BY <1>14 DEF Restart
<1>15. CASE UNCHANGED vars
  BY <1>15 DEF vars
<1> QED BY <1>21, <1>22, <1>23, <1>24, <1>3, <1>4, <1>5, <1>6, <1>7, <1>8, <1>9, <1>10, <1>11, <1>12, <1>13, <1>14, <1>15
       DEF Next, GoesOn

\* A slot that gets a request that names what it needs.
LEMMA NextRequest ==
    ASSUME Inv, NEW p \in Slots, NEW r, Aimed(r), Becomes(p, r) PROVE Requests'
BY DEF Inv, Requests, Becomes, Aimed

\* Requests go on to steps that have what they need.
LEMMA RequestsStep == ASSUME Inv, [Next]_vars PROVE Requests'
<1>1. ASSUME NEW p \in Slots, Aside(p) PROVE Requests'
  BY <1>1, NextRequest DEF Aside
<1>3. ASSUME NEW p \in Slots, NEW i \in Issue, NEW j \in Issue, AddChecks(p, i, j) PROVE Requests'
  <2>1. CASE req' = req
    BY <2>1 DEF Inv, Requests, Aimed
  <2>2. Aimed([Idle EXCEPT !.at = "insert", !.issue = i, !.on = j])
    BY DEF Aimed, Idle, Request, Step, IssueState
  <2> QED BY <1>3, <2>1, <2>2, NextRequest DEF AddChecks
<1>4. ASSUME NEW p \in Slots, AddInserts(p) PROVE Requests'
  BY <1>4, IdleAimed, NextRequest DEF AddInserts
<1>5. ASSUME NEW x \in deps, Remove(x) PROVE Requests'
  BY <1>5 DEF Remove, Inv, Requests, Aimed
<1>6. ASSUME NEW p \in Slots, Lock(p) PROVE Requests'
  <2>1. Aimed([req[p] EXCEPT !.at = "deps", !.seen = state])
    BY <1>6, Known, IdleAimed DEF Lock, Aimed, Request, Step, At, Inv, Types
  <2> QED BY <1>6, <2>1, NextRequest DEF Lock
<1>7. ASSUME NEW p \in Slots, PlanReadsDeps(p) PROVE Requests'
  <2> DEFINE e == req[p].issue
             ready == {i \in Issue : IsReady(e, i, req[p].seen)}
             r == [req[p] EXCEPT !.at = "dispatch", !.gate = used[e], !.ready = ready]
  <2>1. Becomes(p, r)
    BY <1>7 DEF PlanReadsDeps
  <2>2. e \in Issue /\ used[e] \in Nat
    BY <1>7, Known DEF PlanReadsDeps, At, Aimed, Inv, Types
  <2>3. ready \in SUBSET Issue
    OBVIOUS
  <2>4. r \in Request /\ r.at = "dispatch" /\ r.issue = e
    <3> HIDE DEF ready
    <3> QED BY <2>2, <2>3, Known DEF Request, Step
  <2>5. Aimed(r)
    <3> HIDE DEF r, e
    <3> QED BY <2>2, <2>4 DEF Aimed
  <2> QED BY <2>1, <2>5, NextRequest
<1>8. ASSUME NEW p \in Slots, NEW i \in Issue, Skip(p, i) PROVE Requests'
  <2>1. Aimed([req[p] EXCEPT !.ready = @ \ {i}])
    BY <1>8, Known, IdleAimed DEF Skip, Aimed, Request, Step, At
  <2> QED BY <1>8, <2>1, NextRequest DEF Skip
<1>9. ASSUME NEW p \in Slots, NEW i \in Issue, Fire(p, i) PROVE Requests'
  <2>1. Aimed([req[p] EXCEPT !.at = "mark", !.on = i, !.ready = @ \ {i}])
    BY <1>9, Known, IdleAimed DEF Fire, Aimed, Request, Step, At
  <2> QED BY <1>9, <2>1, NextRequest DEF Fire
<1>10. ASSUME NEW p \in Slots, NEW i \in Issue, FireFails(p, i) PROVE Requests'
  <2>1. Aimed([req[p] EXCEPT !.ready = @ \ {i}])
    BY <1>10, Known, IdleAimed DEF FireFails, Aimed, Request, Step, At
  <2> QED BY <1>10, <2>1, NextRequest DEF FireFails
<1>11. ASSUME NEW p \in Slots, Mark(p) PROVE Requests'
  <2>1. Aimed([req[p] EXCEPT !.at = "dispatch"])
    BY <1>11, Known DEF Mark, Aimed, Request, Step, At
  <2> QED BY <1>11, <2>1, NextRequest DEF Mark, GoTo
<1>12. ASSUME NEW p \in Slots, Unlock(p) PROVE Requests'
  BY <1>12, IdleAimed, NextRequest DEF Unlock
<1>14. ASSUME Restart PROVE Requests'
  BY <1>14, IdleAimed DEF Restart, Requests, Aimed
<1>15. CASE UNCHANGED vars
  BY <1>15 DEF vars, Inv, Requests, Aimed
<1> QED BY AsideStep, <1>1, <1>3, <1>4, <1>5, <1>6, <1>7, <1>8, <1>9, <1>10, <1>11, <1>12, <1>14, <1>15
       DEF Next, GoesOn, OnIssue

-----------------------------------------------------------------------------
\* The mutex keeps every other call of its epic out.
LEMMA AloneStep == ASSUME Inv, [Next]_vars PROVE Alone'
<1>1. ASSUME NEW p \in Slots, Aside(p) PROVE Alone'
  <2>1. PICK r : Becomes(p, r) /\ r.at \in Asides
    BY <1>1 DEF Aside
  <2> QED BY <2>1, Others DEF Asides, Inv, Alone, Inside
<1>3. ASSUME NEW p \in Slots, NEW i \in Issue, NEW j \in Issue, AddChecks(p, i, j) PROVE Alone'
  <2>1. req \in [Slots -> Request] /\ req[p].at = "idle"
    BY <1>3, Known DEF AddChecks, At
  <2>2. req' = req \/ req' = [req EXCEPT ![p] = [Idle EXCEPT !.at = "insert", !.issue = i, !.on = j]]
    BY <1>3 DEF AddChecks, Becomes
  <2>3. req'[p].at \in {"idle", "insert"} /\ \A q \in Slots \ {p} : req'[q] = req[q]
    BY <2>1, <2>2 DEF Idle
  <2> QED BY <2>3 DEF Inv, Alone, Inside
<1>4. ASSUME NEW p \in Slots, AddInserts(p) PROVE Alone'
  BY <1>4 DEF AddInserts, Becomes, GoTo, Inv, Requests, Request, Alone, Inside, At, Idle
<1>5. ASSUME NEW x \in deps, Remove(x) PROVE Alone'
  BY <1>5 DEF Remove, Inv, Alone, Inside
<1>6. ASSUME NEW p \in Slots, Lock(p) PROVE Alone'
  BY <1>6 DEF Lock, Becomes, GoTo, Inv, Requests, Request, Alone, Inside, At, Idle
<1>7. ASSUME NEW p \in Slots, PlanReadsDeps(p) PROVE Alone'
  BY <1>7 DEF PlanReadsDeps, Becomes, GoTo, Inv, Requests, Request, Alone, Inside, At, Idle
<1>8. ASSUME NEW p \in Slots, NEW i \in Issue, Skip(p, i) PROVE Alone'
  BY <1>8 DEF Skip, Becomes, GoTo, Inv, Requests, Request, Alone, Inside, At, Idle
<1>9. ASSUME NEW p \in Slots, NEW i \in Issue, Fire(p, i) PROVE Alone'
  BY <1>9 DEF Fire, Becomes, GoTo, Inv, Requests, Request, Alone, Inside, At, Idle
<1>10. ASSUME NEW p \in Slots, NEW i \in Issue, FireFails(p, i) PROVE Alone'
  BY <1>10 DEF FireFails, Becomes, GoTo, Inv, Requests, Request, Alone, Inside, At, Idle
<1>11. ASSUME NEW p \in Slots, Mark(p) PROVE Alone'
  BY <1>11 DEF Mark, Becomes, GoTo, Inv, Requests, Request, Alone, Inside, At, Idle
<1>12. ASSUME NEW p \in Slots, Unlock(p) PROVE Alone'
  BY <1>12 DEF Unlock, Becomes, GoTo, Inv, Requests, Request, Alone, Inside, At, Idle
<1>14. ASSUME Restart PROVE Alone'
  BY <1>14 DEF Restart, Becomes, GoTo, Inv, Requests, Request, Alone, Inside, At, Idle
<1>15. CASE UNCHANGED vars
  BY <1>15 DEF vars, Inv, Alone, Inside
<1> QED BY AsideStep, <1>1, <1>3, <1>4, <1>5, <1>6, <1>7, <1>8, <1>9, <1>10, <1>11, <1>12, <1>14, <1>15
       DEF Next, GoesOn, OnIssue

\* What is announced is put into the table before anybody looks again.
LEMMA MarkedStep == ASSUME Inv, [Next]_vars PROVE Marked'
<1>1. ASSUME NEW p \in Slots, Aside(p) PROVE Marked'
  <2>1. PICK r : Becomes(p, r) /\ r.at \in Asides
    BY <1>1 DEF Aside
  <2>2. \A e, k \in Issue : Marking(e, k) => Marking(e, k)'
    BY <1>1, <2>1, Others DEF Aside, Announces, Marking, At
  <2> QED BY <1>1, <2>2 DEF Aside, Inv, Marked
<1>3. ASSUME NEW p \in Slots, NEW i \in Issue, NEW j \in Issue, AddChecks(p, i, j) PROVE Marked'
  <2>1. req \in [Slots -> Request] /\ req[p].at = "idle"
    BY <1>3, Known DEF AddChecks, At
  <2>2. req' = req \/ req' = [req EXCEPT ![p] = [Idle EXCEPT !.at = "insert", !.issue = i, !.on = j]]
    BY <1>3 DEF AddChecks, Becomes
  <2>3. req'[p].at \in {"idle", "insert"} /\ \A q \in Slots \ {p} : req'[q] = req[q]
    BY <2>1, <2>2 DEF Idle
  <2>4. fired' = fired /\ dispatched' = dispatched
    BY <1>3 DEF AddChecks
  <2>5. ASSUME NEW e \in Issue, NEW k \in Issue, Marking(e, k) PROVE Marking(e, k)'
    <3>1. PICK q \in Slots : At(q, "mark") /\ req[q].issue = e /\ req[q].on = k
      BY <2>5 DEF Marking
    <3> QED BY <2>1, <2>3, <3>1 DEF Marking, At
  <2> QED BY <2>4, <2>5 DEF Inv, Marked
<1>4. ASSUME NEW p \in Slots, AddInserts(p) PROVE Marked'
  BY <1>4 DEF AddInserts, Becomes, GoTo, Inv, Requests, Request, Types, Marked, Marking, At, Idle
<1>5. ASSUME NEW x \in deps, Remove(x) PROVE Marked'
  BY <1>5 DEF Remove, Inv, Marked, Marking, At
<1>6. ASSUME NEW p \in Slots, Lock(p) PROVE Marked'
  BY <1>6 DEF Lock, Becomes, GoTo, Inv, Requests, Request, Types, Marked, Marking, At, Idle
<1>7. ASSUME NEW p \in Slots, PlanReadsDeps(p) PROVE Marked'
  BY <1>7 DEF PlanReadsDeps, Becomes, GoTo, Inv, Requests, Request, Types, Marked, Marking, At, Idle
<1>8. ASSUME NEW p \in Slots, NEW i \in Issue, Skip(p, i) PROVE Marked'
  BY <1>8 DEF Skip, Becomes, GoTo, Inv, Requests, Request, Types, Marked, Marking, At, Idle
<1>9. ASSUME NEW p \in Slots, NEW i \in Issue, Fire(p, i) PROVE Marked'
  <2> DEFINE e0 == req[p].issue
  <2>1. /\ e0 \in Issue /\ req[p].at = "dispatch" /\ i \notin dispatched[e0]
        /\ fired' = [fired EXCEPT ![e0][i] = @ + 1] /\ dispatched' = dispatched
        /\ req' = [req EXCEPT ![p] = [req[p] EXCEPT !.at = "mark", !.on = i, !.ready = @ \ {i}]]
    BY <1>9, Known DEF Fire, Allowed, Becomes, At, Aimed
  <2>2. /\ req'[p].at = "mark" /\ req'[p].issue = e0 /\ req'[p].on = i
        /\ \A q \in Slots \ {p} : req'[q] = req[q]
    BY <2>1, Known DEF Request
  <2>3. ~Marking(e0, i)
    BY <2>1 DEF Marking, At, Inv, Alone, Inside
  <2>4. fired \in [Issue -> [Issue -> Nat]]
    BY DEF Inv, Types
  <2>5. fired[e0][i] = 0
    <3>1. fired[e0][i] \in Nat
      BY <2>1, <2>4
    <3>2. fired[e0][i] <= 1 /\ fired[e0][i] # 1
      BY <2>1, <2>3 DEF Inv, Marked
    <3> QED BY <3>1, <3>2
  <2>7. ASSUME NEW e \in Issue, NEW k \in Issue
        PROVE  fired'[e][k] <= 1 /\ (fired'[e][k] = 1 => k \in dispatched'[e] \/ Marking(e, k)')
    <3>1. CASE e = e0 /\ k = i
      <4>1. fired'[e][k] = 1
        BY <2>1, <2>4, <2>5, <3>1
      <4>2. Marking(e, k)'
        BY <2>2, <3>1 DEF Marking, At
      <4> QED BY <4>1, <4>2
    <3>2. CASE ~(e = e0 /\ k = i)
      <4>1. fired'[e][k] = fired[e][k]
        BY <2>1, <2>4, <3>2
      <4>2. Marking(e, k) => Marking(e, k)'
        BY <2>1, <2>2 DEF Marking, At
      <4> QED BY <2>1, <4>1, <4>2 DEF Inv, Marked
    <3> QED BY <3>1, <3>2
  <2> QED BY <2>7 DEF Marked
<1>10. ASSUME NEW p \in Slots, NEW i \in Issue, FireFails(p, i) PROVE Marked'
  BY <1>10 DEF FireFails, Becomes, GoTo, Inv, Requests, Request, Types, Marked, Marking, At, Idle
<1>11. ASSUME NEW p \in Slots, Mark(p) PROVE Marked'
  BY <1>11 DEF Mark, Becomes, GoTo, Inv, Requests, Request, Types, Marked, Marking, At, Idle
<1>12. ASSUME NEW p \in Slots, Unlock(p) PROVE Marked'
  BY <1>12 DEF Unlock, Becomes, GoTo, Inv, Requests, Request, Types, Marked, Marking, At, Idle
<1>14. ASSUME Restart PROVE Marked'
  BY <1>14 DEF Restart, Becomes, GoTo, Inv, Requests, Request, Types, Marked, Marking, At, Idle
<1>15. CASE UNCHANGED vars
  BY <1>15 DEF vars, Inv, Marked, Marking, At
<1> QED BY AsideStep, <1>1, <1>3, <1>4, <1>5, <1>6, <1>7, <1>8, <1>9, <1>10, <1>11, <1>12, <1>14, <1>15
       DEF Next, GoesOn, OnIssue

\* An edge whose way back was missing is still one when it is inserted.
LEMMA OrderlyStep == ASSUME Inv, [Next]_vars PROVE Orderly'
<1>1. ASSUME NEW p \in Slots, Aside(p) PROVE Orderly'
  <2>1. PICK r : Becomes(p, r) /\ r.at \in Asides
    BY <1>1 DEF Aside
  <2>2. r.at # "insert" /\ UNCHANGED <<deps, raced>>
    BY <1>1, <2>1 DEF Aside, Asides
  <2> QED BY <2>1, <2>2, Others DEF Inv, Orderly, OneComing, NoWayBack, Acyclic, At
<1>3. ASSUME NEW p \in Slots, NEW i \in Issue, NEW j \in Issue, AddChecks(p, i, j) PROVE Orderly'
  <2>1. req \in [Slots -> Request] /\ req[p].at = "idle"
    BY <1>3, Known DEF AddChecks, At
  <2>2. req' = req \/ req' = [req EXCEPT ![p] = [Idle EXCEPT !.at = "insert", !.issue = i, !.on = j]]
    BY <1>3 DEF AddChecks, Becomes
  <2>3. req'[p].at \in {"idle", "insert"} /\ \A q \in Slots \ {p} : req'[q] = req[q]
    BY <2>1, <2>2 DEF Idle
  <2>4. deps' = deps
    BY <1>3 DEF AddChecks
  <2>5. CASE req' = req
    <3>1. raced => raced'
      BY <1>3, <2>2, <2>5 DEF AddChecks
    <3> QED BY <2>4, <2>5, <3>1 DEF Inv, Orderly, OneComing, NoWayBack, Acyclic, At
  <2>6. CASE req' # req
    <3>1. ~Path(deps, j, i)
      BY <1>3, <2>6 DEF AddChecks
    <3>2. raced' <=> raced \/ \E q \in Slots : At(q, "insert")
      BY <1>3, <2>6 DEF AddChecks
    <3>3. req'[p].issue = i /\ req'[p].on = j
      BY <2>1, <2>2, <2>6 DEF Idle
    <3> QED BY <2>3, <2>4, <3>1, <3>2, <3>3 DEF Inv, Orderly, OneComing, NoWayBack, Acyclic, At
  <2> QED BY <2>5, <2>6
<1>4. ASSUME NEW p \in Slots, AddInserts(p) PROVE Orderly'
  <2>1. CASE raced
    BY <1>4, <2>1 DEF AddInserts, Orderly
  <2>2. CASE ~raced
    <3>1. PICK i \in Issue, d \in Issue : i = req[p].issue /\ d = req[p].on
      BY <1>4, Known DEF AddInserts, Aimed, At
    <3>2. deps' = deps \cup {<<i, d>>} /\ deps \in SUBSET Edges /\ ~Path(deps, d, i) /\ Acyclic
      BY <1>4, <2>2, <3>1 DEF AddInserts, Inv, Types, Orderly, NoWayBack
    <3>3. Acyclic'
      <4>1. \A x \in deps : ~Path(deps, x[2], x[1])
        BY <3>2 DEF Acyclic
      <4>2. \A x \in deps \cup {<<i, d>>} : ~Path(deps \cup {<<i, d>>}, x[2], x[1])
        BY <3>2, <4>1, OneMoreEdge
      <4> QED BY <3>2, <4>2 DEF Acyclic
    <3>4. \A q \in Slots : req'[q].at # "insert"
      BY <1>4, <2>2, Known, IdleAimed DEF AddInserts, Becomes, Inv, Orderly, OneComing, At
    <3> QED BY <3>3, <3>4 DEF Orderly, OneComing, NoWayBack, At
  <2> QED BY <2>1, <2>2
<1>5. ASSUME NEW x \in deps, Remove(x) PROVE Orderly'
  <2>1. deps' \subseteq deps /\ req' = req /\ raced' = raced
    BY <1>5 DEF Remove
  <2>2. NoWayBack => NoWayBack'
    BY <2>1, FewerEdges DEF NoWayBack, At
  <2>3. Acyclic => Acyclic'
    BY <2>1, FewerEdges DEF Acyclic
  <2> QED BY <2>1, <2>2, <2>3 DEF Inv, Orderly, OneComing, At
<1>6. ASSUME NEW p \in Slots, Lock(p) PROVE Orderly'
  BY <1>6 DEF Lock, Becomes, GoTo, Inv, Requests, Request, Orderly, OneComing, NoWayBack, Acyclic, At, Idle
<1>7. ASSUME NEW p \in Slots, PlanReadsDeps(p) PROVE Orderly'
  BY <1>7 DEF PlanReadsDeps, Becomes, GoTo, Inv, Requests, Request, Orderly, OneComing, NoWayBack, Acyclic, At, Idle
<1>8. ASSUME NEW p \in Slots, NEW i \in Issue, Skip(p, i) PROVE Orderly'
  BY <1>8 DEF Skip, Becomes, GoTo, Inv, Requests, Request, Orderly, OneComing, NoWayBack, Acyclic, At, Idle
<1>9. ASSUME NEW p \in Slots, NEW i \in Issue, Fire(p, i) PROVE Orderly'
  BY <1>9 DEF Fire, Becomes, GoTo, Inv, Requests, Request, Orderly, OneComing, NoWayBack, Acyclic, At, Idle
<1>10. ASSUME NEW p \in Slots, NEW i \in Issue, FireFails(p, i) PROVE Orderly'
  BY <1>10 DEF FireFails, Becomes, GoTo, Inv, Requests, Request, Orderly, OneComing, NoWayBack, Acyclic, At, Idle
<1>11. ASSUME NEW p \in Slots, Mark(p) PROVE Orderly'
  BY <1>11 DEF Mark, Becomes, GoTo, Inv, Requests, Request, Orderly, OneComing, NoWayBack, Acyclic, At, Idle
<1>12. ASSUME NEW p \in Slots, Unlock(p) PROVE Orderly'
  BY <1>12 DEF Unlock, Becomes, GoTo, Inv, Requests, Request, Orderly, OneComing, NoWayBack, Acyclic, At, Idle
<1>14. ASSUME Restart PROVE Orderly'
  BY <1>14 DEF Restart, Becomes, GoTo, Inv, Requests, Request, Orderly, OneComing, NoWayBack, Acyclic, At, Idle
<1>15. CASE UNCHANGED vars
  BY <1>15 DEF vars, Inv, Orderly, OneComing, NoWayBack, Acyclic, At
<1> QED BY AsideStep, <1>1, <1>3, <1>4, <1>5, <1>6, <1>7, <1>8, <1>9, <1>10, <1>11, <1>12, <1>14, <1>15
       DEF Next, GoesOn, OnIssue

-----------------------------------------------------------------------------
\* The invariant of the plan engine, for every tree of issues.
THEOREM Invariance == Spec => []Inv
<1>1. Inv /\ [Next]_vars => Inv'
  BY RequestsStep, TypesStep, AloneStep, MarkedStep, OrderlyStep DEF Inv
<1> QED BY <1>1, InitInv, PTL DEF Spec

\* Requests, edges and the counters of steps stay within their types.
THEOREM TypeCorrect == Spec => []TypeOK
<1>1. Inv => TypeOK
  BY DEF Inv, Requests, Types, TypeOK
<1> QED BY <1>1, Invariance, PTL

\* OnChildClosed announces an issue once per epic, however many children
\* are merged at the same time, and although the table of what was
\* announced is read and written in different steps (dispatchReady).
THEOREM AnnouncedOnce == Spec => []FiredOnce
<1>1. Inv => FiredOnce
  BY DEF Inv, Marked, FiredOnce
<1> QED BY <1>1, Invariance, PTL

\* Edges that are added one at a time close no cycle: what Add has checked
\* still holds when it inserts, whatever is removed in between.
THEOREM NoCycle == Spec => []AloneAcyclic
<1>1. Inv => AloneAcyclic
  BY DEF Inv, Orderly, AloneAcyclic
<1> QED BY <1>1, Invariance, PTL
-----------------------------------------------------------------------------
(* What a pass has read holds long enough: what was settled may be settled *)
(* again but is never reopened, what was merged was merged, and edges      *)
(* added meanwhile are late.                                               *)

\* What is merged was merged once, and stays so when it is closed later.
MergedDone == \A i \in Issue : state[i] = "merged" => i \in done

SeenLasts ==
    \A p \in Slots : At(p, "deps") =>
        \A i \in Issue : /\ req[p].seen[i] # "open" => state[i] # "open"
                         /\ req[p].seen[i] = "merged" => i \in done

Clear(i) ==
    /\ \A c \in Issue : Parent[c] = i => state[c] # "open"
    /\ \A x \in deps \ late : x[1] = i => x[2] \in done
ReadyLasts == \A p \in Slots : Announces(p) => \A i \in req[p].ready : Clear(i)

ReadyInv == MergedDone /\ SeenLasts /\ ReadyLasts

\* What the actions other than Lock and PlanReadsDeps do to the passes.
StatesLast ==
    /\ \A i \in Issue : state[i] # "open" => state'[i] # "open"
    /\ done \subseteq done'
PassesGoOn ==
    \A q \in Slots :
        /\ At(q, "deps")' => At(q, "deps") /\ req'[q].seen = req[q].seen
        /\ Announces(q)' => Announces(q) /\ req'[q].ready \subseteq req[q].ready

LEMMA BelowSelf == ASSUME NEW i \in Issue PROVE i \in Below[i]
BY DEF Below, Path

LEMMA ReadyInit == Init => ReadyInv
BY IdleAimed DEF Init, ReadyInv, MergedDone, SeenLasts, ReadyLasts, At, Announces

\* No write opens an issue or undoes a merge.
LEMMA StatesStep ==
    ASSUME Inv, MergedDone, [Next]_vars PROVE StatesLast /\ MergedDone'
<1>1. CASE UNCHANGED issues
  BY <1>1 DEF issues, StatesLast, MergedDone
<1>2. ASSUME NEW p \in Slots, Writes(p) PROVE StatesLast /\ MergedDone'
  <2> DEFINE i == req[p].issue
  <2>1. i \in Issue /\ req[p].want \in {"merged", "closed"} /\ state \in [Issue -> IssueState]
    BY <1>2, AfterWrite DEF Inv, Types
  <2>2. /\ state' = [state EXCEPT ![i] = req[p].want]
        /\ done' = IF req[p].want = "merged" THEN done \cup {i} ELSE done
    BY <1>2 DEF Writes
  <2> HIDE DEF i
  <2> QED BY <2>1, <2>2 DEF StatesLast, MergedDone
<1>3. UNCHANGED issues \/ \E p \in Slots : Writes(p)
  BY DEF Next, GoesOn, vars, Loads, Gate, GateFails, AddChecks, AddInserts, Remove, Lock,
         PlanReadsDeps, Skip, Fire, FireFails, Mark, Unlock, RequestFails, Restart
<1> QED BY <1>1, <1>2, <1>3

LEMMA SeenKept == ASSUME Inv, SeenLasts, StatesLast, PassesGoOn PROVE SeenLasts'
BY DEF SeenLasts, StatesLast, PassesGoOn, At

LEMMA ClearKept ==
    ASSUME Inv, ReadyLasts, StatesLast, PassesGoOn, deps' \ late' \subseteq deps \ late
    PROVE  ReadyLasts'
<1> SUFFICES ASSUME NEW p \in Slots, Announces(p)', NEW i \in req'[p].ready PROVE Clear(i)'
  BY DEF ReadyLasts
<1>1. Clear(i)
  BY DEF ReadyLasts, PassesGoOn
<1>2. \A c \in Issue : Parent[c] = i => state'[c] # "open"
  BY <1>1 DEF Clear, StatesLast
<1>3. \A x \in deps' \ late' : x[1] = i => x[2] \in done'
  BY <1>1 DEF Clear, StatesLast
<1> QED BY <1>2, <1>3 DEF Clear

\* A request that is not, or no longer, about a pass.
LEMMA OneLeaves ==
    ASSUME Inv, NEW p \in Slots, NEW r, Becomes(p, r), r.at \in Asides \cup {"insert"}
    PROVE  PassesGoOn
BY Others DEF PassesGoOn, At, Announces, Asides

LEMMA ReadyStep == ASSUME Inv, ReadyInv, [Next]_vars PROVE ReadyInv'
<1>0. StatesLast /\ MergedDone'
  BY StatesStep DEF ReadyInv
<1> DEFINE Kept == PassesGoOn /\ deps' \ late' \subseteq deps \ late
<1>00. SUFFICES Kept \/ (SeenLasts' /\ ReadyLasts')
  BY <1>0, SeenKept, ClearKept DEF ReadyInv
<1>1. ASSUME NEW p \in Slots, Aside(p) PROVE Kept
  BY <1>1, OneLeaves DEF Aside
<1>3. ASSUME NEW p \in Slots, NEW i \in Issue, NEW j \in Issue, AddChecks(p, i, j) PROVE Kept
  <2>1. CASE req' = req
    BY <1>3, <2>1 DEF AddChecks, PassesGoOn, At, Announces
  <2>2. CASE Becomes(p, [Idle EXCEPT !.at = "insert", !.issue = i, !.on = j])
    BY <1>3, <2>2, OneLeaves DEF AddChecks, Idle
  <2> QED BY <1>3, <2>1, <2>2 DEF AddChecks
<1>4. ASSUME NEW p \in Slots, AddInserts(p) PROVE SeenLasts' /\ ReadyLasts'
  <2>1. PassesGoOn
    BY <1>4, IdleAimed, OneLeaves DEF AddInserts, Asides
  <2>2. CASE \E q \in Slots : Announces(q)
    <3>1. deps' \ late' \subseteq deps \ late
      BY <1>4, <2>2 DEF AddInserts
    <3> QED BY <1>0, <2>1, <3>1, SeenKept, ClearKept DEF ReadyInv
  <2>3. CASE \A q \in Slots : ~Announces(q)
    BY <1>0, <2>1, <2>3, SeenKept DEF ReadyInv, PassesGoOn, ReadyLasts
  <2> QED BY <2>2, <2>3
<1>5. ASSUME NEW x \in deps, Remove(x) PROVE Kept
  BY <1>5 DEF Remove, PassesGoOn, At, Announces
<1>6. ASSUME NEW p \in Slots, Lock(p) PROVE SeenLasts' /\ ReadyLasts'
  <2> DEFINE r == [req[p] EXCEPT !.at = "deps", !.seen = state]
  <2>1. r.at = "deps" /\ r.seen = state
    BY Known DEF Request
  <2> HIDE DEF r
  <2>2. /\ UNCHANGED <<state, done, deps, late>> /\ req'[p] = r
        /\ \A q \in Slots \ {p} : req'[q] = req[q]
    BY <1>6, Others DEF Lock, r, issues
  <2>3. SeenLasts'
    BY <2>1, <2>2 DEF ReadyInv, MergedDone, SeenLasts, At
  <2>4. ReadyLasts'
    BY <2>1, <2>2 DEF ReadyInv, ReadyLasts, Announces, Clear
  <2> QED BY <2>3, <2>4
<1>7. ASSUME NEW p \in Slots, PlanReadsDeps(p) PROVE SeenLasts' /\ ReadyLasts'
  <2> DEFINE e == req[p].issue
             ready == {i \in Issue : IsReady(e, i, req[p].seen)}
             r == [req[p] EXCEPT !.at = "dispatch", !.gate = used[e], !.ready = ready]
  <2>1. r.at = "dispatch" /\ r.ready = ready
    BY Known DEF Request
  <2>2. /\ At(p, "deps") /\ UNCHANGED <<state, done, deps, late>> /\ req'[p] = r
        /\ \A q \in Slots \ {p} : req'[q] = req[q]
    BY <1>7, Others DEF PlanReadsDeps, issues
  <2> HIDE DEF r
  <2>3. ASSUME NEW i \in ready PROVE Clear(i)
    <3>1. IsReady(e, i, req[p].seen)
      OBVIOUS
    <3>2. \A c \in Issue : Parent[c] = i => state[c] # "open"
      BY <2>2, <3>1 DEF IsReady, ReadyInv, SeenLasts
    <3>3. \A x \in deps : x[1] = i => x[2] \in done
      BY <2>2, <3>1 DEF IsReady, ReadyInv, SeenLasts, Inv, Types, Edges
    <3> QED BY <3>2, <3>3 DEF Clear
  <2> HIDE DEF ready
  <2>4. \A i : Clear(i) => Clear(i)'
    BY <2>2 DEF Clear
  <2>5. ReadyLasts'
    BY <2>1, <2>2, <2>3, <2>4 DEF ReadyInv, ReadyLasts, Announces
  <2>6. SeenLasts'
    BY <2>1, <2>2 DEF ReadyInv, SeenLasts, At
  <2> QED BY <2>5, <2>6
<1>8. ASSUME NEW p \in Slots, NEW i \in Issue, Skip(p, i) \/ FireFails(p, i) PROVE Kept
  BY <1>8, Known, Others DEF Skip, FireFails, PassesGoOn, At, Announces, Request
<1>9. ASSUME NEW p \in Slots, NEW i \in Issue, Fire(p, i) PROVE Kept
  <2> DEFINE r == [req[p] EXCEPT !.at = "mark", !.on = i, !.ready = @ \ {i}]
  <2>1. r.at = "mark" /\ r.ready = req[p].ready \ {i}
    BY Known DEF Request
  <2> HIDE DEF r
  <2>2. At(p, "dispatch") /\ UNCHANGED <<deps, late>> /\ req'[p] = r
    BY <1>9, Others DEF Fire, r
  <2>3. \A q \in Slots \ {p} : req'[q] = req[q]
    BY <1>9, Others DEF Fire
  <2> QED BY <2>1, <2>2, <2>3 DEF PassesGoOn, At, Announces
<1>10. ASSUME NEW p \in Slots, Mark(p) PROVE Kept
  BY <1>10, Known, Others DEF Mark, GoTo, PassesGoOn, At, Announces, Request
<1>11. ASSUME NEW p \in Slots, Unlock(p) PROVE SeenLasts' /\ ReadyLasts'
  <2>1. PassesGoOn /\ deps' = deps
    BY <1>11, IdleAimed, OneLeaves DEF Unlock, Asides
  <2>2. CASE \E q \in Slots \ {p} : Announces(q)
    BY <1>0, <1>11, <2>1, <2>2, SeenKept, ClearKept DEF Unlock, ReadyInv
  <2>3. CASE \A q \in Slots \ {p} : ~Announces(q)
    <3>1. \A q \in Slots : ~Announces(q)'
      BY <1>11, <2>3, IdleAimed, Others DEF Unlock, Announces
    <3> QED BY <1>0, <2>1, <3>1, SeenKept DEF ReadyInv, ReadyLasts
  <2> QED BY <2>2, <2>3
<1>13. ASSUME Restart PROVE SeenLasts' /\ ReadyLasts'
  BY <1>13, IdleAimed DEF Restart, SeenLasts, ReadyLasts, At, Announces
<1>14. CASE UNCHANGED vars
  BY <1>14 DEF vars, PassesGoOn, At, Announces
<1> QED BY AsideStep, <1>1, <1>3, <1>4, <1>5, <1>6, <1>7, <1>8, <1>9, <1>10, <1>11, <1>13, <1>14
       DEF Next, GoesOn, OnIssue

FiresReady == \A e, i \in Issue : fired'[e][i] > fired[e][i] => Clear(i)

\* Whoever announces an issue has it among the ready ones.
LEMMA FireStep == ASSUME Inv, ReadyInv, [Next]_vars PROVE FiresReady
<1>1. ASSUME NEW p \in Slots, NEW i \in Issue, Fire(p, i) PROVE FiresReady
  <2>1. i \in req[p].ready /\ Announces(p) /\ req[p].issue \in Issue
    BY <1>1, Known DEF Fire, Allowed, At, Announces, Aimed
  <2>2. Clear(i)
    BY <2>1 DEF ReadyInv, ReadyLasts
  <2>3. \A e, k \in Issue : k # i => fired'[e][k] = fired[e][k]
    BY <1>1, <2>1 DEF Fire, Inv, Types
  <2>4. \A e, k \in Issue : fired[e][k] \in Nat
    BY DEF Inv, Types
  <2> QED BY <2>2, <2>3, <2>4 DEF FiresReady
<1>2. CASE fired' = fired
  BY <1>2 DEF FiresReady, Inv, Types
<1>3. CASE Restart
  <2>1. \A e, i \in Issue : fired'[e][i] = 0 /\ fired[e][i] \in Nat
    BY <1>3 DEF Restart, Inv, Types
  <2> QED BY <2>1 DEF FiresReady
<1> QED
  BY <1>1, <1>2, <1>3 DEF Next, GoesOn, vars, Loads, Gate, GateFails, Writes, AddChecks,
     AddInserts, Remove, Lock, PlanReadsDeps, Skip, FireFails, Mark, Unlock, RequestFails

\* dispatchReady announces an issue when no child of it is open and what it
\* depends on was merged: what ComputeReadyState found may go stale, but not
\* so far, whatever is merged, closed or removed during the pass, and though
\* the statement that writes the state of an issue has no guard.
THEOREM AnnouncedReady == Spec => FiredWhenReady
<1>1. Inv /\ ReadyInv /\ [Next]_vars => ReadyInv'
  BY ReadyStep
<1>2. Inv /\ ReadyInv /\ [Next]_vars => FiresReady
  BY FireStep
<1>3. Inv /\ ReadyInv /\ [Next]_vars => [FiresReady]_vars
  BY <1>2
<1>4. FiresReady <=> \A e, i \in Issue : fired'[e][i] > fired[e][i] =>
                        /\ \A c \in Issue : Parent[c] = i => state[c] # "open"
                        /\ \A x \in deps \ late : x[1] = i => x[2] \in done
  BY DEF FiresReady, Clear
<1> QED BY <1>1, <1>3, <1>4, ReadyInit, Invariance, PTL DEF Spec, FiredWhenReady

-----------------------------------------------------------------------------
(* The budget.  Whoever announces has compared it with the steps used, and *)
(* each announcement takes an issue out of those that were ready.          *)

Marks(p) == IF At(p, "mark") THEN 1 ELSE 0
Spends(p) ==
    LET e == req[p].issue
    IN  /\ req[p].ready \subseteq Below[e]
        /\ At(p, "mark") => req[p].gate < Budget
        /\ used[e] + Cardinality(req[p].ready) + Marks(p) <= req[p].gate + Cardinality(Below[e])
Frugal == \A p \in Slots : Announces(p) => Spends(p)

BudgetInv == Frugal /\ BudgetHolds

\* The issues below an epic, and those of them that are ready, can be counted.
LEMMA Counted ==
    /\ \A e \in Issue : Cardinality(Below[e]) \in Nat /\ Cardinality(Below[e]) > 0
    /\ \A S \in SUBSET Issue : Cardinality(S) \in Nat
    /\ \A S \in SUBSET Issue : \A i \in S : Cardinality(S \ {i}) = Cardinality(S) - 1
    /\ \A S \in SUBSET Issue : \A i : Cardinality(S \ {i}) <= Cardinality(S)
    /\ \A e \in Issue : \A S \in SUBSET Below[e] : Cardinality(S) <= Cardinality(Below[e])
<1>1. \A S \in SUBSET Issue : IsFiniteSet(S) /\ Cardinality(S) \in Nat
  BY PlanAssumption, FS_Subset, FS_CardinalityType
<1>2. \A e \in Issue : Below[e] \in SUBSET Issue /\ e \in Below[e]
  BY BelowSelf DEF Below
<1>3. \A e \in Issue : Cardinality(Below[e]) # 0
  BY <1>1, <1>2, FS_EmptySet
<1>4. \A S \in SUBSET Issue : \A i \in S : Cardinality(S \ {i}) = Cardinality(S) - 1
  BY <1>1, FS_RemoveElement
<1>5. \A S \in SUBSET Issue : \A i : Cardinality(S \ {i}) <= Cardinality(S)
  <2> TAKE S \in SUBSET Issue
  <2> TAKE i
  <2> QED BY <1>1, FS_Subset
<1>6. \A e \in Issue : \A S \in SUBSET Below[e] : Cardinality(S) <= Cardinality(Below[e])
  BY <1>1, <1>2, FS_Subset
<1> QED BY <1>1, <1>2, <1>3, <1>4, <1>5, <1>6

LEMMA BudgetInit == Init => BudgetInv
<1> SUFFICES ASSUME Init PROVE BudgetInv
  OBVIOUS
<1>1. Frugal
  BY IdleAimed DEF Init, Frugal, Announces
<1>2. BudgetHolds
  BY Counted, PlanAssumption DEF Init, BudgetHolds
<1> QED BY <1>1, <1>2 DEF BudgetInv

\* Steps that use nothing and do not announce.
LEMMA BudgetKept ==
    ASSUME BudgetInv, used' = used,
           \A q \in Slots : Announces(q)' => req'[q] = req[q]
    PROVE  BudgetInv'
BY DEF BudgetInv, Frugal, Spends, Marks, BudgetHolds, Announces, At

\* A request that is not, or no longer, about a pass.
LEMMA BudgetAside ==
    ASSUME Inv, BudgetInv, used' = used,
           NEW p \in Slots, NEW r, Becomes(p, r), r.at \in Asides \cup {"insert", "deps"}
    PROVE  BudgetInv'
<1>1. req'[p] = r /\ \A q \in Slots \ {p} : req'[q] = req[q]
  BY Others
<1> QED BY <1>1, BudgetKept DEF Announces, Asides

LEMMA BudgetStep == ASSUME Inv, BudgetInv, [Next]_vars PROVE BudgetInv'
<1>1. ASSUME NEW p \in Slots, Aside(p) PROVE BudgetInv'
  BY <1>1, BudgetAside DEF Aside
<1>3. ASSUME NEW p \in Slots, NEW i \in Issue, NEW j \in Issue, AddChecks(p, i, j) PROVE BudgetInv'
  <2>1. CASE req' = req
    BY <1>3, <2>1, BudgetKept DEF AddChecks
  <2>2. CASE Becomes(p, [Idle EXCEPT !.at = "insert", !.issue = i, !.on = j])
    BY <1>3, <2>2, BudgetAside DEF AddChecks, Idle
  <2> QED BY <1>3, <2>1, <2>2 DEF AddChecks
<1>4. ASSUME NEW p \in Slots, AddInserts(p) \/ Unlock(p) PROVE BudgetInv'
  <2>1. Becomes(p, Idle) /\ used' = used
    BY <1>4 DEF AddInserts, Unlock
  <2> QED BY <2>1, IdleAimed, BudgetAside DEF Asides
<1>5. ASSUME NEW x \in deps, Remove(x) PROVE BudgetInv'
  BY <1>5, BudgetKept DEF Remove
<1>6. ASSUME NEW p \in Slots, Lock(p) PROVE BudgetInv'
  <2> DEFINE r == [req[p] EXCEPT !.at = "deps", !.seen = state]
  <2>1. r.at = "deps"
    BY Known DEF Request
  <2> HIDE DEF r
  <2>2. Becomes(p, r) /\ used' = used
    BY <1>6 DEF Lock, r
  <2> QED BY <2>1, <2>2, BudgetAside
<1>7. ASSUME NEW p \in Slots, NEW r, Becomes(p, r), used' = used,
             Announces(p)' => Spends(p)'
      PROVE  BudgetInv'
  <2>1. \A q \in Slots \ {p} : req'[q] = req[q]
    BY <1>7, Others
  <2>2. Frugal'
    BY <1>7, <2>1 DEF BudgetInv, Frugal, Spends, Marks, Announces, At
  <2> QED BY <1>7, <2>2 DEF BudgetInv, BudgetHolds
<1>8. ASSUME NEW p \in Slots, PlanReadsDeps(p) PROVE BudgetInv'
  <2> DEFINE e == req[p].issue
             ready == {i \in Issue : IsReady(e, i, req[p].seen)}
             r == [req[p] EXCEPT !.at = "dispatch", !.gate = used[e], !.ready = ready]
  <2>1. Becomes(p, r) /\ used' = used
    BY <1>8 DEF PlanReadsDeps
  <2>2. r.at = "dispatch" /\ r.issue = e /\ r.gate = used[e] /\ r.ready = ready
    BY Known DEF Request
  <2>3. e \in Issue /\ used[e] \in Nat
    BY <1>8, Known DEF PlanReadsDeps, At, Aimed, Inv, Types
  <2>4. ready \subseteq Below[e]
    BY DEF IsReady
  <2>5. Cardinality(ready) <= Cardinality(Below[e]) /\ Cardinality(ready) \in Nat
        /\ Cardinality(Below[e]) \in Nat
    BY <2>3, <2>4, Counted DEF Below
  <2> HIDE DEF r, ready
  <2>6. req'[p] = r
    BY <2>1, Others
  <2>7. Spends(p)'
    BY <2>1, <2>2, <2>3, <2>4, <2>5, <2>6 DEF Spends, Marks, At
  <2> QED BY <1>7, <2>1, <2>7
<1>9. ASSUME NEW p \in Slots, NEW i \in Issue, Skip(p, i) \/ FireFails(p, i) PROVE BudgetInv'
  <2> DEFINE e == req[p].issue
             r == [req[p] EXCEPT !.ready = @ \ {i}]
  <2>1. Becomes(p, r) /\ used' = used /\ At(p, "dispatch")
    BY <1>9 DEF Skip, FireFails
  <2>2. r.at = "dispatch" /\ r.issue = e /\ r.gate = req[p].gate /\ r.ready = req[p].ready \ {i}
    BY <2>1, Known DEF Request, At
  <2>3. e \in Issue /\ used[e] \in Nat /\ req[p].gate \in Nat /\ req[p].ready \in SUBSET Issue
    BY <2>1, Known DEF At, Aimed, Inv, Types
  <2>4. Spends(p) /\ Marks(p) = 0
    BY <2>1 DEF BudgetInv, Frugal, Announces, At, Marks
  <2>5. /\ Cardinality(req[p].ready \ {i}) <= Cardinality(req[p].ready)
        /\ Cardinality(req[p].ready) \in Nat /\ Cardinality(req[p].ready \ {i}) \in Nat
        /\ Cardinality(Below[e]) \in Nat
    BY <2>3, Counted
  <2>6. /\ used[e] + Cardinality(req[p].ready) <= req[p].gate + Cardinality(Below[e])
        /\ req[p].ready \subseteq Below[e]
    BY <2>3, <2>4, <2>5 DEF Spends
  <2>7. used[e] + Cardinality(req[p].ready \ {i}) <= req[p].gate + Cardinality(Below[e])
    BY <2>3, <2>5, <2>6
  <2> HIDE DEF r
  <2>8. req'[p] = r
    BY <2>1, Others
  <2>9. Spends(p)'
    <3>1. Marks(p)' = 0 /\ ~At(p, "mark")'
      BY <2>2, <2>8 DEF Marks, At
    <3>2. used'[e] + Cardinality(req[p].ready \ {i}) + 0 <= req[p].gate + Cardinality(Below[e])
      BY <2>1, <2>3, <2>5, <2>7
    <3>3. req[p].ready \ {i} \subseteq Below[e]
      BY <2>6
    <3> QED BY <2>2, <2>8, <3>1, <3>2, <3>3 DEF Spends
  <2> QED BY <1>7, <2>1, <2>9
<1>10. ASSUME NEW p \in Slots, NEW i \in Issue, Fire(p, i) PROVE BudgetInv'
  <2> DEFINE e == req[p].issue
             r == [req[p] EXCEPT !.at = "mark", !.on = i, !.ready = @ \ {i}]
  <2>1. /\ Becomes(p, r) /\ used' = used /\ At(p, "dispatch")
        /\ i \in req[p].ready /\ req[p].gate < Budget
    BY <1>10 DEF Fire, Allowed
  <2>2. r.at = "mark" /\ r.issue = e /\ r.gate = req[p].gate /\ r.ready = req[p].ready \ {i}
    BY Known DEF Request
  <2>3. e \in Issue /\ used[e] \in Nat /\ req[p].gate \in Nat /\ req[p].ready \in SUBSET Issue
    BY <2>1, Known DEF At, Aimed, Inv, Types
  <2>4. Spends(p) /\ Marks(p) = 0
    BY <2>1 DEF BudgetInv, Frugal, Announces, At, Marks
  <2>5. /\ Cardinality(req[p].ready \ {i}) = Cardinality(req[p].ready) - 1
        /\ Cardinality(req[p].ready) \in Nat
        /\ Cardinality(Below[e]) \in Nat
    BY <2>1, <2>3, Counted
  <2>6. /\ used[e] + Cardinality(req[p].ready) <= req[p].gate + Cardinality(Below[e])
        /\ req[p].ready \subseteq Below[e]
    BY <2>3, <2>4, <2>5 DEF Spends
  <2>7. used[e] + Cardinality(req[p].ready \ {i}) + 1 <= req[p].gate + Cardinality(Below[e])
    BY <2>3, <2>5, <2>6
  <2> HIDE DEF r
  <2>8. req'[p] = r
    BY <2>1, Others
  <2>9. Spends(p)'
    BY <2>1, <2>2, <2>3, <2>6, <2>7, <2>8 DEF Spends, Marks, At
  <2> QED BY <1>7, <2>1, <2>9
<1>11. ASSUME NEW p \in Slots, Mark(p) PROVE BudgetInv'
  <2> DEFINE e == req[p].issue
             r == [req[p] EXCEPT !.at = "dispatch"]
  <2>1. /\ Becomes(p, r) /\ At(p, "mark")
        /\ used' = [used EXCEPT ![e] = @ + 1] \/ used' = used
    BY <1>11 DEF Mark, GoTo
  <2>2. r.at = "dispatch" /\ r.issue = e /\ r.gate = req[p].gate /\ r.ready = req[p].ready
    BY Known DEF Request
  <2>3. /\ e \in Issue /\ used \in [Issue -> Nat] /\ req[p].gate \in Nat
        /\ req[p].ready \in SUBSET Issue
    BY <2>1, Known DEF At, Aimed, Inv, Types
  <2>4. Spends(p) /\ Marks(p) = 1
    BY <2>1 DEF BudgetInv, Frugal, Announces, At, Marks
  <2>5. Cardinality(req[p].ready) \in Nat /\ Cardinality(Below[e]) \in Nat
    BY <2>3, Counted
  <2> HIDE DEF r
  <2>6. req'[p] = r /\ \A q \in Slots \ {p} : req'[q] = req[q]
    BY <2>1, Others
  <2>7. used'[e] \in {used[e], used[e] + 1} /\ \A k \in Issue \ {e} : used'[k] = used[k]
    BY <2>1, <2>3
  <2>8. Spends(p)'
    BY <2>2, <2>3, <2>4, <2>5, <2>6, <2>7 DEF Spends, Marks, At
  <2>9. ASSUME NEW q \in Slots \ {p}, Announces(q)' PROVE Spends(q)'
    <3>1. Announces(q) /\ req[q].issue \in Issue /\ req'[q] = req[q]
      BY <2>6, <2>9, Known DEF Announces, Aimed
    <3>2. req[q].issue # e
      BY <2>1, <2>3, <3>1 DEF Inv, Alone, Inside, Announces, At
    <3>3. used'[req[q].issue] = used[req[q].issue]
      BY <2>7, <3>1, <3>2
    <3> QED BY <3>1, <3>3 DEF BudgetInv, Frugal, Spends, Marks, At
  <2>10. Frugal'
    BY <2>8, <2>9 DEF Frugal
  <2>11. used[e] + 1 < Budget + Cardinality(Below[e])
    BY <2>1, <2>3, <2>4, <2>5, PlanAssumption DEF Spends
  <2>12. BudgetHolds'
    BY <2>7, <2>11 DEF BudgetInv, BudgetHolds
  <2> QED BY <2>10, <2>12 DEF BudgetInv
<1>12. ASSUME Restart PROVE BudgetInv'
  BY <1>12, IdleAimed, BudgetKept DEF Restart, Announces
<1>13. CASE UNCHANGED vars
  BY <1>13, BudgetKept DEF vars
<1> QED BY AsideStep, <1>1, <1>3, <1>4, <1>5, <1>6, <1>8, <1>9, <1>10, <1>11, <1>12, <1>13
       DEF Next, GoesOn, OnIssue

\* auto_step_budget: since the mutex admits one pass at a time, the budget is
\* overrun by no more than one pass announces, although it is only compared
\* with the steps used before the pass.
THEOREM BudgetKeptTo == Spec => []BudgetHolds
<1>1. Inv /\ BudgetInv /\ [Next]_vars => BudgetInv'
  BY BudgetStep
<1>2. BudgetInv => BudgetHolds
  BY DEF BudgetInv
<1> QED BY <1>1, <1>2, BudgetInit, Invariance, PTL DEF Spec
=============================================================================
