------------------------------ MODULE TaskPool ------------------------------
(***************************************************************************)
(* What runners promise the server about its jobs: a job is handed out     *)
(* once and to one runner, a runner never holds more jobs than it said it  *)
(* would run at once, and a job it has let go does not come back.          *)
(***************************************************************************)
EXTENDS Naturals, FiniteSets

CONSTANTS Job, Runner, Parallelism

VARIABLES
    waiting,  \* jobs nobody has asked for yet
    held,     \* the jobs each runner holds
    gone      \* jobs that ran, or that their runner lost

vars == <<waiting, held, gone>>

Init == waiting = {} /\ held = [r \in Runner |-> {}] /\ gone = {}

Submit(j) ==
    /\ j \notin waiting \cup gone /\ \A r \in Runner : j \notin held[r]
    /\ waiting' = waiting \cup {j}
    /\ UNCHANGED <<held, gone>>

HandOut(r, S) ==
    /\ S \subseteq waiting /\ Cardinality(held[r] \cup S) <= Parallelism[r]
    /\ waiting' = waiting \ S
    /\ held' = [held EXCEPT ![r] = @ \cup S]
    /\ UNCHANGED gone

LetGo(r, S) ==
    /\ S \subseteq held[r]
    /\ held' = [held EXCEPT ![r] = @ \ S]
    /\ gone' = gone \cup S
    /\ UNCHANGED waiting

Next ==
    \/ \E j \in Job : Submit(j)
    \/ \E r \in Runner : \E S \in SUBSET Job : HandOut(r, S) \/ LetGo(r, S)

Spec == Init /\ [][Next]_vars
=============================================================================
