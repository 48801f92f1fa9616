----------------------------- MODULE PlanEngine -----------------------------
(***************************************************************************)
(* The plan engine: when a child of an epic is merged it recomputes which  *)
(* issues below the epic are ready and announces those to the spawner.     *)
(* With it come the dependency edges between issues and their cycle check. *)
(*                                                                         *)
(* An epic is any issue with children, so epics nest.  Calls into the      *)
(* engine take the epic's mutex and then work on what they read under it;  *)
(* merging, closing and editing edges go on meanwhile, and are themselves  *)
(* several steps: an issue that was merged may be closed by a late one.    *)
(* What keeps a merge back besides open issues below it is the subject of  *)
(* Contribution.  The table of what was announced is kept in memory, the   *)
(* steps used in the database.  The tree of issues is fixed.  Tick is left *)
(* out, since nothing starts the ticker, and so are pausing and setting a  *)
(* budget, which nothing calls.                                            *)
(***************************************************************************)
EXTENDS Integers, FiniteSets

CONSTANTS
    Issue,       \* the issues of a repository
    NoIssue,     \* the parent of an issue that is nobody's child
    Parent,      \* issues.parent_id
    Slots,       \* requests that may be under way at the same time
    Budget,      \* plan_state.auto_step_budget
    Wanted,      \* bound: the merges and closings requests may want
    Asked,       \* bound: the edges requests may ask for
    MaxAdds,     \* bound: requests to add an edge
    MaxFaults    \* bound: errors and restarts

ASSUME PlanAssumption ==
    /\ IsFiniteSet(Issue) /\ NoIssue \notin Issue
    /\ Parent \in [Issue -> Issue \cup {NoIssue}]
    /\ Asked \subseteq Issue \X Issue /\ Wanted \subseteq Issue \X {"merged", "closed"}
    /\ Budget \in Nat /\ MaxAdds \in Nat /\ MaxFaults \in Nat

VARIABLES
    state,       \* issues.state
    deps,        \* issue_dependencies: pairs of an issue and what it depends on
    used,        \* plan_state.auto_steps_used of each epic
    dispatched,  \* Engine.dispatched
    req,         \* the request in each slot: its next step and what it has read
    fired,       \* history: announcements of each issue for each epic since the restart
    adds,        \* edges asked for so far
    raced,       \* history: whether two edges were ever being added together
    late,        \* history: edges added behind the reading of a pass under way
    done,        \* history: the issues that were ever marked as merged
    faults       \* errors and restarts so far

issues == <<state, done>>
vars   == <<issues, deps, used, dispatched, req, fired, adds, raced, late, faults>>

(* There is a path along the edges: every set closed under them that holds *)
(* the first issue holds the last.                                         *)
Closed(S, edges) == \A x \in edges : x[1] \in S => x[2] \in S
Path(edges, i, j) == \A S \in SUBSET Issue : i \in S /\ Closed(S, edges) => j \in S

ChildOf   == {<<Parent[i], i>> : i \in {c \in Issue : Parent[c] # NoIssue}}
Below   == [e \in Issue |-> {i \in Issue : Path(ChildOf, e, i)}]

IssueState == {"open", "merged", "closed"}
Edges      == Issue \X Issue
Step       == {"idle", "gate", "write", "insert", "lock", "deps", "dispatch", "mark"}
Request    == [at : Step, issue : Issue \cup {NoIssue}, on : Issue \cup {NoIssue},
               want : IssueState,
               seen : [Issue -> IssueState], ready : SUBSET Issue, gate : Nat]

(* A request about an issue or an epic; `on' is what an edge leads to or   *)
(* the issue being announced, and `want' the state an issue is to have.    *)
Idle == [at |-> "idle", issue |-> NoIssue, on |-> NoIssue, want |-> "open",
         seen |-> [i \in Issue |-> "open"], ready |-> {}, gate |-> 0]
At(p, s) == req[p].at = s
Inside(p, e) == req[p].at \in {"deps", "dispatch", "mark"} /\ req[p].issue = e
Announces(p) == req[p].at \in {"dispatch", "mark"}
Becomes(p, r) == req' = [req EXCEPT ![p] = r]
GoTo(p, s)    == Becomes(p, [req[p] EXCEPT !.at = s])

Init ==
    /\ state = [i \in Issue |-> "open"]
    /\ deps = {}
    /\ used = [e \in Issue |-> 0]
    /\ dispatched = [e \in Issue |-> {}]
    /\ req = [p \in Slots |-> Idle]
    /\ fired = [e \in Issue |-> [i \in Issue |-> 0]]
    /\ adds = 0 /\ raced = FALSE /\ late = {} /\ done = {} /\ faults = 0

-----------------------------------------------------------------------------
(* Issues and edges.                                                       *)

(* Merging and closing load the issue, ask for open issues below it and    *)
(* then write the state, whatever it is by then.                           *)
Loads(p, i, want) ==
    /\ At(p, "idle") /\ <<i, want>> \in Wanted /\ state[i] = "open"
    /\ Becomes(p, [Idle EXCEPT !.at = "gate", !.issue = i, !.want = want])
    /\ UNCHANGED <<issues, deps, used, dispatched, fired, adds, raced, late, faults>>

(* The gate, and the others that may refuse a merge.                       *)
Gate(p) ==
    /\ At(p, "gate")
    /\ \/ Becomes(p, Idle)
       \/ /\ \A j \in Below[req[p].issue] : state[j] = "open" => j = req[p].issue
          /\ GoTo(p, "write")
    /\ UNCHANGED <<issues, deps, used, dispatched, fired, adds, raced, late, faults>>

(* The gate opens when its query fails.                                    *)
GateFails(p) ==
    /\ At(p, "gate") /\ faults < MaxFaults
    /\ faults' = faults + 1
    /\ GoTo(p, "write")
    /\ UNCHANGED <<issues, deps, used, dispatched, fired, adds, raced, late>>

(* A person's merge goes on to tell the engine, an agent's merge and       *)
(* closing an issue tell nobody.                                           *)
Writes(p) ==
    LET r == req[p]
    IN  /\ At(p, "write")
        /\ state' = [state EXCEPT ![r.issue] = r.want]
        /\ done' = IF r.want = "merged" THEN done \cup {r.issue} ELSE done
        /\ \/ Becomes(p, Idle)
           \/ /\ r.want = "merged" /\ Parent[r.issue] # NoIssue
              /\ Becomes(p, [Idle EXCEPT !.at = "lock", !.issue = Parent[r.issue]])
        /\ UNCHANGED <<deps, used, dispatched, fired, adds, raced, late, faults>>

(* Mutant: the check looks for the edge, not for the way back.             *)
AddChecksForward(p, i, j) ==
    /\ At(p, "idle") /\ <<i, j>> \in Asked /\ adds < MaxAdds /\ i # j
    /\ adds' = adds + 1
    /\ IF Path(deps, i, j)
       THEN UNCHANGED <<req, raced>>
       ELSE /\ Becomes(p, [Idle EXCEPT !.at = "insert", !.issue = i, !.on = j])
            /\ raced' = (raced \/ \E q \in Slots : At(q, "insert"))
    /\ UNCHANGED <<issues, deps, used, dispatched, fired, late, faults>>

(* An edge is refused when it leads to itself or closes a cycle; the check *)
(* and the insert are two statements.                                      *)
AddChecks(p, i, j) ==
    /\ At(p, "idle") /\ <<i, j>> \in Asked /\ adds < MaxAdds /\ i # j
    /\ adds' = adds + 1
    /\ IF Path(deps, j, i)
       THEN UNCHANGED <<req, raced>>
       ELSE /\ Becomes(p, [Idle EXCEPT !.at = "insert", !.issue = i, !.on = j])
            /\ raced' = (raced \/ \E q \in Slots : At(q, "insert"))
    /\ UNCHANGED <<issues, deps, used, dispatched, fired, late, faults>>

AddInserts(p) ==
    /\ At(p, "insert")
    /\ deps' = deps \cup {<<req[p].issue, req[p].on>>}
    /\ late' = IF \E q \in Slots : Announces(q)
               THEN late \cup {<<req[p].issue, req[p].on>>} ELSE late
    /\ Becomes(p, Idle)
    /\ UNCHANGED <<issues, used, dispatched, fired, adds, raced, faults>>

Remove(x) ==
    /\ deps' = deps \ {x} /\ late' = late \ {x}
    /\ UNCHANGED <<issues, used, dispatched, req, fired, adds, raced, faults>>

-----------------------------------------------------------------------------
(* OnChildClosed.                                                          *)

(* Mutant: no mutex per epic.                                              *)
LockUnguarded(p) ==
    /\ At(p, "lock")
    /\ Becomes(p, [req[p] EXCEPT !.at = "deps", !.seen = state])
    /\ UNCHANGED <<issues, deps, used, dispatched, fired, adds, raced, late, faults>>

(* The mutex and, under it, the tree with the states of its issues.        *)
Lock(p) ==
    /\ At(p, "lock")
    /\ \A q \in Slots : ~Inside(q, req[p].issue)
    /\ Becomes(p, [req[p] EXCEPT !.at = "deps", !.seen = state])
    /\ UNCHANGED <<issues, deps, used, dispatched, fired, adds, raced, late, faults>>

(* Mutant: a predecessor that was closed counts as done.                   *)
IsReadyClosed(e, i, s) ==
    /\ i \in Below[e] /\ s[i] = "open"
    /\ \A x \in deps : x[1] = i => x[2] \in Below[e] /\ s[x[2]] # "open"
    /\ \A c \in Issue : Parent[c] = i => s[c] # "open"

(* ComputeReadyState: an open issue without open children, all of whose    *)
(* predecessors are below the epic and merged.                             *)
IsReady(e, i, s) ==
    /\ i \in Below[e] /\ s[i] = "open"
    /\ \A x \in deps : x[1] = i => x[2] \in Below[e] /\ s[x[2]] = "merged"
    /\ \A c \in Issue : Parent[c] = i => s[c] # "open"

(* The edges, then the plan state, which only the holder of the mutex      *)
(* writes.                                                                 *)
PlanReadsDeps(p) ==
    LET r == req[p]
    IN  /\ At(p, "deps")
        /\ Becomes(p, [r EXCEPT !.at = "dispatch", !.gate = used[r.issue],
                                !.ready = {i \in Issue : IsReady(r.issue, i, r.seen)}])
        /\ UNCHANGED <<issues, deps, used, dispatched, fired, adds, raced, late, faults>>

(* Mutant: the budget ends one step early.                                 *)
AllowedOneFewer(p, i) ==
    i \in req[p].ready \ dispatched[req[p].issue] /\ req[p].gate + 1 < Budget

(* The budget is compared with the steps used when the pass began.         *)
Allowed(p, i) ==
    i \in req[p].ready \ dispatched[req[p].issue] /\ req[p].gate < Budget

Skip(p, i) ==
    /\ At(p, "dispatch") /\ i \in req[p].ready /\ ~Allowed(p, i)
    /\ Becomes(p, [req[p] EXCEPT !.ready = @ \ {i}])
    /\ UNCHANGED <<issues, deps, used, dispatched, fired, adds, raced, late, faults>>

Fire(p, i) ==
    LET e == req[p].issue
    IN  /\ At(p, "dispatch") /\ Allowed(p, i)
        /\ fired' = [fired EXCEPT ![e][i] = @ + 1]
        /\ Becomes(p, [req[p] EXCEPT !.at = "mark", !.on = i, !.ready = @ \ {i}])
        /\ UNCHANGED <<issues, deps, used, dispatched, adds, raced, late, faults>>

FireFails(p, i) ==
    /\ At(p, "dispatch") /\ Allowed(p, i) /\ faults < MaxFaults
    /\ faults' = faults + 1
    /\ Becomes(p, [req[p] EXCEPT !.ready = @ \ {i}])
    /\ UNCHANGED <<issues, deps, used, dispatched, fired, adds, raced, late>>

(* The counter is bumped in the database; an error there is ignored.       *)
Mark(p) ==
    LET e == req[p].issue
    IN  /\ At(p, "mark")
        /\ dispatched' = [dispatched EXCEPT ![e] = @ \cup {req[p].on}]
        /\ \/ used' = [used EXCEPT ![e] = @ + 1] /\ UNCHANGED faults
           \/ faults < MaxFaults /\ faults' = faults + 1 /\ UNCHANGED used
        /\ GoTo(p, "dispatch")
        /\ UNCHANGED <<issues, deps, fired, adds, raced, late>>

Unlock(p) ==
    /\ At(p, "dispatch") /\ req[p].ready = {}
    /\ Becomes(p, Idle)
    /\ late' = IF \E q \in Slots \ {p} : Announces(q) THEN late ELSE {}
    /\ UNCHANGED <<issues, deps, used, dispatched, fired, adds, raced, faults>>

(* A statement fails, or creating the plan state loses a race: the request *)
(* ends.                                                                   *)
RequestFails(p) ==
    /\ req[p].at \in {"write", "insert", "lock", "deps"} /\ faults < MaxFaults
    /\ faults' = faults + 1
    /\ Becomes(p, Idle)
    /\ UNCHANGED <<issues, deps, used, dispatched, fired, adds, raced, late>>

(* The server restarts and forgets its table and its calls.  Two epics     *)
(* that write the outer map of the table together, which the runtime may   *)
(* punish with a crash, are among the causes.                              *)
Restart ==
    /\ faults < MaxFaults
    /\ faults' = faults + 1
    /\ req' = [p \in Slots |-> Idle]
    /\ dispatched' = [e \in Issue |-> {}]
    /\ fired' = [e \in Issue |-> [i \in Issue |-> 0]]
    /\ late' = {}
    /\ UNCHANGED <<issues, deps, used, adds, raced>>

-----------------------------------------------------------------------------
GoesOn(p) ==
    \/ Gate(p) \/ Writes(p) \/ AddInserts(p) \/ PlanReadsDeps(p) \/ Mark(p) \/ Unlock(p)
    \/ \E i \in Issue : Skip(p, i) \/ Fire(p, i)

Next ==
    \/ \E p \in Slots :
        \/ \E i \in Issue, want \in {"merged", "closed"} : Loads(p, i, want)
        \/ \E i, j \in Issue : AddChecks(p, i, j)
        \/ Lock(p) \/ GoesOn(p) \/ GateFails(p) \/ RequestFails(p)
        \/ \E i \in Issue : FireFails(p, i)
    \/ \E x \in deps : Remove(x)
    \/ Restart

Spec == Init /\ [][Next]_vars

(* A call goes on and a waiting call gets the mutex, which Go hands over   *)
(* to the one that waits longest; nobody has to merge or to edit edges.    *)
FairSpec == Spec /\ \A p \in Slots : WF_vars(GoesOn(p)) /\ SF_vars(Lock(p))

-----------------------------------------------------------------------------
(* Properties.                                                             *)

TypeOK ==
    /\ state \in [Issue -> IssueState]
    /\ deps \subseteq Edges
    /\ used \in [Issue -> Nat]
    /\ dispatched \in [Issue -> SUBSET Issue]
    /\ req \in [Slots -> Request]
    /\ fired \in [Issue -> [Issue -> Nat]]
    /\ adds \in 0..MaxAdds /\ raced \in BOOLEAN /\ late \subseteq deps /\ faults \in 0..MaxFaults
    /\ done \subseteq Issue

(* Between two restarts an issue is announced at most once for an epic,    *)
(* however many children are merged at the same time.                      *)
FiredOnce == \A e, i \in Issue : fired[e][i] <= 1

(* An issue is only announced when no child of it is open and all that it  *)
(* depends on has been merged, edges added behind the pass's reading       *)
(* aside: what a pass has read does go stale before it acts on it, since a *)
(* late statement may close what was merged, but never so far that work is *)
(* announced before the work it waits for was done.                        *)
FiredWhenReady ==
    [][ \A e, i \in Issue : fired'[e][i] > fired[e][i] =>
            /\ \A c \in Issue : Parent[c] = i => state[c] # "open"
            /\ \A x \in deps \ late : x[1] = i => x[2] \in done ]_vars

(* The steps used stay below the budget plus the issues that one pass can  *)
(* announce: the budget is only looked at between passes.                  *)
BudgetHolds == \A e \in Issue : used[e] < Budget + Cardinality(Below[e])

(* The edges have no cycle, so that no two issues wait for each other, as  *)
(* long as no two edges were being added at the same time.                 *)
Acyclic == \A x \in deps : ~Path(deps, x[2], x[1])
AloneAcyclic == raced \/ Acyclic

(* An issue that is ready when a person has merged a sibling is announced, *)
(* unless it stops being ready, an edge of it is being added, the budget   *)
(* is used up or something fails.                                          *)
ReadyIsFired ==
    \A e \in Issue : \A i \in Below[e] \ {e} :
        ((\E p \in Slots : At(p, "lock") /\ req[p].issue = e) /\ IsReady(e, i, state))
            ~> (\/ fired[e][i] > 0 \/ ~IsReady(e, i, state)
                \/ \E p \in Slots : At(p, "insert") /\ req[p].issue = i
                \/ used[e] >= Budget \/ faults > 0)
=============================================================================
