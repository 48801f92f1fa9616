---------------------------- MODULE SessionLife ----------------------------
(***************************************************************************)
(* What the sessions of one role on one issue promise.  A session sleeps   *)
(* and wakes until it is archived.  While its events come one at a time,   *)
(* the role has one session that is not archived; while nobody meddles     *)
(* with a session besides, it has one agent, which is started while the    *)
(* session is awake.  An event is queued on one session or turned away,    *)
(* and read by an agent of that session once, or by none.                  *)
(***************************************************************************)
EXTENDS Integers

CONSTANTS
    Session,    \* the sessions of the role, in the order they are opened
    Agent,
    Event,
    OneByOne    \* whether events come one at a time

VARIABLES
    state,      \* session -> "unborn", "awake", "asleep", "archived" or "removed"
    team,       \* session -> the agents at work for it
    waiting,    \* session -> the events queued on it
    new,        \* events nobody has queued or turned away
    told,       \* events an agent has read
    meddled     \* somebody has asked to stop or to reset a session

vars == <<state, team, waiting, new, told, meddled>>

Init ==
    /\ state = [r \in Session |-> "unborn"]
    /\ team = [r \in Session |-> {}]
    /\ waiting = [r \in Session |-> {}]
    /\ new = Event /\ told = {} /\ meddled = FALSE

Open(r) == state[r] \in {"awake", "asleep"}
Quiet   == OneByOne /\ ~meddled
Idle    == Agent \ UNION {team[r] : r \in Session}
Alone(r) == Quiet => team[r] = {}

----------------------------------------------------------------------------
Opens(r) ==
    /\ state[r] = "unborn" /\ \A q \in Session : q < r => state[q] # "unborn"
    /\ OneByOne => \A q \in Session : ~Open(q)
    /\ state' = [state EXCEPT ![r] = "awake"]
    /\ UNCHANGED <<team, waiting, new, told, meddled>>

Wakes(r) ==
    /\ state[r] = "asleep" /\ Alone(r)
    /\ state' = [state EXCEPT ![r] = "awake"]
    /\ UNCHANGED <<team, waiting, new, told, meddled>>

Rests(r) ==
    /\ state[r] = "awake" /\ Alone(r)
    /\ state' = [state EXCEPT ![r] = "asleep"]
    /\ UNCHANGED <<team, waiting, new, told, meddled>>

Starts(r, a) ==
    /\ Open(r) /\ Alone(r) /\ (Quiet => state[r] = "awake")
    /\ team' = [team EXCEPT ![r] = @ \cup {a}]
    /\ UNCHANGED <<state, waiting, new, told, meddled>>

\* An agent that dies does not put its session to rest.
Leaves(r, a) ==
    /\ team' = [team EXCEPT ![r] = @ \ {a}]
    /\ \/ UNCHANGED state
       \/ state[r] = "awake" /\ state' = [state EXCEPT ![r] = "asleep"]
    /\ UNCHANGED <<waiting, new, told, meddled>>

Archives(S) ==
    /\ state' = [r \in Session |-> IF r \in S THEN "archived" ELSE state[r]]
    /\ UNCHANGED <<team, waiting, new, told, meddled>>

Removes(r) ==
    /\ state[r] \notin {"unborn", "removed"}
    /\ state' = [state EXCEPT ![r] = "removed"]
    /\ waiting' = [waiting EXCEPT ![r] = {}]
    /\ UNCHANGED <<team, new, told, meddled>>

Meddles ==
    /\ meddled' = TRUE
    /\ UNCHANGED <<state, team, waiting, new, told>>

----------------------------------------------------------------------------
Queues(r, e) ==
    /\ state[r] \notin {"unborn", "removed"}
    /\ new' = new \ {e}
    /\ waiting' = [waiting EXCEPT ![r] = @ \cup {e}]
    /\ UNCHANGED <<state, team, told, meddled>>

TurnsAway(e) ==
    /\ new' = new \ {e}
    /\ UNCHANGED <<state, team, waiting, told, meddled>>

\* What is taken from a session's queue is read by an agent of it, or lost.
Reads(r, E) ==
    /\ E # {} => team[r] # {}
    /\ waiting' = [waiting EXCEPT ![r] = {}]
    /\ told' = told \cup E
    /\ UNCHANGED <<state, team, new, meddled>>

----------------------------------------------------------------------------
Next ==
    \/ \E S \in SUBSET {r \in Session : Open(r)} : Archives(S)
    \/ \E r \in Session :
          \/ Opens(r) \/ Wakes(r) \/ Rests(r) \/ Removes(r)
          \/ \E a \in Idle : Starts(r, a)
          \/ \E a \in team[r] : Leaves(r, a)
          \/ \E E \in SUBSET waiting[r] : Reads(r, E)
    \/ \E e \in new : TurnsAway(e) \/ \E r \in Session : Queues(r, e)
    \/ Meddles

Spec == Init /\ [][Next]_vars
=============================================================================
