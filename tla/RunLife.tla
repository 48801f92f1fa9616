------------------------------ MODULE RunLife ------------------------------
(***************************************************************************)
(* What a workflow run promises whoever watches it: its jobs are handed    *)
(* out one after another, each once; it moves forward and ends once; and   *)
(* it does not fail unless a job of it did.  A cancel lets the next job    *)
(* start although one is out, and jobs may be withdrawn at any time.       *)
(***************************************************************************)
EXTENDS Integers

CONSTANT Job    \* the jobs, by their place in the run

VARIABLES
    phase,  \* what the run is said to be at
    left,   \* jobs that nobody has been given and nobody has withdrawn
    out,    \* jobs that somebody has been given and not given back
    bad,    \* jobs given back as failed
    asked   \* whether somebody has asked for a cancel

vars == <<phase, left, out, bad, asked>>

Init == phase = "absent" /\ left = Job /\ out = {} /\ bad = {} /\ asked = FALSE

After(p) ==
    CASE p = "absent"  -> {"pending"}
      [] p = "pending" -> {"running", "success", "failed", "cancelled"}
      [] p = "running" -> {"success", "failed", "cancelled"}
      [] OTHER         -> {}

Moves(p) ==
    /\ p \in After(phase) /\ (p = "failed" => bad # {})
    /\ phase' = p
    /\ UNCHANGED <<left, out, bad, asked>>

HandOut(j) ==
    /\ j \in left /\ \A k \in left : j <= k
    /\ asked \/ out = {}
    /\ left' = left \ {j} /\ out' = out \cup {j}
    /\ UNCHANGED <<phase, bad, asked>>

GiveBack(j) ==
    /\ j \in out
    /\ out' = out \ {j}
    /\ bad' \in {bad, bad \cup {j}}
    /\ UNCHANGED <<phase, left, asked>>

Withdraw(S) ==
    /\ S \subseteq left
    /\ left' = left \ S
    /\ UNCHANGED <<phase, out, bad, asked>>

Ask ==
    /\ phase \in {"pending", "running"}
    /\ asked' = TRUE
    /\ UNCHANGED <<phase, left, out, bad>>

Next ==
    \/ \E p \in After(phase) : Moves(p)
    \/ \E j \in Job : HandOut(j) \/ GiveBack(j)
    \/ \E S \in SUBSET Job : Withdraw(S)
    \/ Ask

Spec == Init /\ [][Next]_vars
=============================================================================
