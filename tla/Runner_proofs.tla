---------------------------- MODULE Runner_proofs ----------------------------
(***************************************************************************)
(* The runner.  First its task loop, for every number of runners, slots    *)
(* and jobs: the tokens are conserved, what was claimed is in the hands of *)
(* its owner, and the loop implements TaskPool.  Then its job driver, for  *)
(* jobs of any steps: a success is whole, and the container is removed.    *)
(*                                                                         *)
(* That a runner never holds more jobs than it has slots is a fact about   *)
(* tokens: each job it holds stands for one, those claimed for a poll for  *)
(* tokens that are still in the dispatcher's hand.  Inv adds what these    *)
(* sums rest on: the sets a runner's jobs pass through are disjoint, no    *)
(* poll claims more than the hand covers, and workers are not made up.     *)
(***************************************************************************)
EXTENDS RunnerLoop, JobDriver, FiniteSetTheorems, TLAPS

Types ==
    /\ status \in [Job -> Status] /\ owner \in [Job -> Runner \cup {Nobody}]
    /\ at \in [Runner -> Place]
    /\ slots \in [Runner -> Nat] /\ hand \in [Runner -> Nat]
    /\ reply \in [Runner -> SUBSET Job] /\ tasks \in [Runner -> SUBSET Job]
    /\ jobs \in [Runner -> SUBSET Job] /\ running \in [Runner -> SUBSET Job]
    /\ returning \in [Runner -> Nat] /\ ended \in [Runner -> Nat]
    /\ cancelled \in [Runner -> BOOLEAN]
    /\ lost \subseteq Job /\ faults \in 0..MaxFaults

\* A job is in one place, and only on its way while a poll or a delivery is.
InOnePlace(r) ==
    /\ at[r] # "poll" => reply[r] = {}
    /\ at[r] # "deliver" => tasks[r] = {}
    /\ (reply[r] \cup tasks[r]) \cap (jobs[r] \cup running[r]) = {}
    /\ jobs[r] \cap running[r] = {}
Places == \A r \in Runner : InOnePlace(r)

\* What a runner holds is marked as running there.
Owned == \A r \in Runner : \A j \in Held(r) : status[j] = "running" /\ owner[j] = r

\* The hand covers the jobs on their way; tokens and workers add up.
Covered(r) ==
    /\ Cardinality(reply[r]) <= hand[r] /\ Cardinality(tasks[r]) <= hand[r]
    /\ at[r] \in {"take", "backoff", "done"} => hand[r] = 0
    /\ Busy(r) <= Parallelism[r]
    /\ Tokens(r) <= Parallelism[r]
    /\ ~cancelled[r] => Tokens(r) = Parallelism[r]
Sums == \A r \in Runner : Covered(r)

\* A running job has an owner who holds it, or it was lost.
Kept ==
    \A j \in Job : status[j] = "running" =>
        /\ owner[j] \in Runner
        /\ j \in Held(owner[j]) \/ j \in lost

Inv == Types /\ Places /\ Owned /\ Sums /\ Kept

-----------------------------------------------------------------------------
\* Sets of jobs are finite and have a size.
LEMMA JobSets == ASSUME NEW S \in SUBSET Job
                 PROVE  IsFiniteSet(S) /\ Cardinality(S) \in Nat
BY RunnerAssumption, FS_Subset, FS_CardinalityType

\* Moving one job in or out changes the size by one.
LEMMA OneMore == ASSUME NEW S \in SUBSET Job, NEW j \in Job, j \notin S
                 PROVE  Cardinality(S \cup {j}) = Cardinality(S) + 1
BY JobSets, FS_AddElement

LEMMA OneLess == ASSUME NEW S \in SUBSET Job, NEW j \in S
                 PROVE  Cardinality(S \ {j}) = Cardinality(S) - 1
BY JobSets, FS_RemoveElement

LEMMA Empty == Cardinality({}) = 0
BY FS_EmptySet

\* A union is no larger than its parts.
LEMMA UnionBound == ASSUME NEW S \in SUBSET Job, NEW T \in SUBSET Job
                    PROVE  Cardinality(S \cup T) <= Cardinality(S) + Cardinality(T)
<1>1. Cardinality(S \cup T) = Cardinality(S) + Cardinality(T) - Cardinality(S \cap T)
  BY JobSets, FS_Union
<1>2. Cardinality(S \cap T) \in Nat /\ Cardinality(S) \in Nat /\ Cardinality(T) \in Nat
  <2>1. S \cap T \in SUBSET Job
    OBVIOUS
  <2> QED BY <2>1, JobSets
<1> QED BY <1>1, <1>2

-----------------------------------------------------------------------------
LEMMA InitInv == Init => Inv
<1> SUFFICES ASSUME Init PROVE Inv
  OBVIOUS
<1> USE RunnerAssumption
<1>1. Types
  BY DEF Init, Types, Status, Place
<1>2. Places
  BY DEF Init, Places, InOnePlace
<1>3. Owned
  BY DEF Init, Owned, Held
<1>4. Sums
  BY Empty DEF Init, Sums, Covered, Busy, Tokens
<1>5. Kept
  BY DEF Init, Kept
<1> QED BY <1>1, <1>2, <1>3, <1>4, <1>5 DEF Inv

\* A job on its way stands for a token in the dispatcher's hand.
LEMMA TokenInHand == ASSUME Inv, NEW r \in Runner, tasks[r] # {} PROVE hand[r] \in Nat \ {0}
<1>1. PICK j \in tasks[r] : TRUE
  OBVIOUS
<1>2. tasks[r] \in SUBSET Job /\ hand[r] \in Nat
  BY DEF Inv, Types
<1>3. Cardinality(tasks[r] \ {j}) \in Nat
  <2>1. tasks[r] \ {j} \in SUBSET Job
    BY <1>2
  <2> QED BY <2>1, JobSets
<1>4. Cardinality(tasks[r] \ {j}) = Cardinality(tasks[r]) - 1
  BY <1>2, OneLess
<1>5. Cardinality(tasks[r]) <= hand[r]
  BY DEF Inv, Sums, Covered
<1>6. Cardinality(tasks[r]) \in Nat
  BY <1>2, JobSets
<1> QED BY <1>2, <1>3, <1>4, <1>5, <1>6

\* Every action keeps the variables in their types.
LEMMA TypesStep == ASSUME Inv, [Next]_vars PROVE Types'
<1> USE RunnerAssumption DEF Inv, Types, Status, Place, server, tokens, work
<1>1. ASSUME NEW j \in Job, Submit(j) PROVE Types'
  BY <1>1 DEF Submit
<1>2. ASSUME NEW r \in Runner, NEW S \in SUBSET Job, Claim(r, S) PROVE Types'
  BY <1>2 DEF Claim
<1>3. ASSUME NEW r \in Runner, TakesSlots(r) PROVE Types'
  BY <1>3 DEF TakesSlots
<1>4. ASSUME NEW r \in Runner, Receives(r) PROVE Types'
  BY <1>4 DEF Receives
<1>5. ASSUME NEW r \in Runner, TimesOut(r) \/ Backoff(r) PROVE Types'
  BY <1>5 DEF TimesOut, Backoff
<1>6. ASSUME NEW r \in Runner, PollFails(r) PROVE Types'
  BY <1>6 DEF PollFails
<1>7. ASSUME NEW r \in Runner, PollIsCancelled(r) PROVE Types'
  BY <1>7 DEF PollIsCancelled
<1>8. ASSUME NEW r \in Runner, NEW j \in Job, Delivers(r, j) PROVE Types'
  BY <1>8, TokenInHand DEF Delivers
<1>9. ASSUME NEW r \in Runner, GivesBack(r) PROVE Types'
  BY <1>9 DEF GivesBack
<1>10. ASSUME NEW r \in Runner, DispatcherStops(r) PROVE Types'
  BY <1>10 DEF DispatcherStops
<1>11. ASSUME NEW r \in Runner, NEW j \in Job, WorkerTakes(r, j) PROVE Types'
  BY <1>11 DEF WorkerTakes
<1>12. ASSUME NEW r \in Runner, NEW j \in Job, JobEnds(r, j) \/ EndsUnreported(r, j) PROVE Types'
  BY <1>12 DEF JobEnds, EndsUnreported
<1>13. ASSUME NEW r \in Runner, WorkerReturnsSlot(r) PROVE Types'
  BY <1>13 DEF WorkerReturnsSlot
<1>14. ASSUME NEW r \in Runner, WorkerStops(r) PROVE Types'
  BY <1>14 DEF WorkerStops
<1>15. ASSUME NEW r \in Runner, Cancel(r) PROVE Types'
  BY <1>15 DEF Cancel
<1>16. ASSUME NEW r \in Runner, Crash(r) PROVE Types'
  BY <1>16 DEF Crash, Held
<1>17. CASE UNCHANGED vars
  BY <1>17 DEF vars
<1> QED BY <1>1, <1>2, <1>3, <1>4, <1>5, <1>6, <1>7, <1>8, <1>9, <1>10, <1>11, <1>12, <1>13, <1>14, <1>15, <1>16, <1>17
       DEF Next, GoesOn, Works, Stops, ServerClaims

-----------------------------------------------------------------------------
\* Jobs move from one place to the next, and what a runner holds is its own.
LEMMA PlacesStep == ASSUME Inv, [Next]_vars PROVE Places' /\ Owned'
<1> USE DEF Inv, Types, Places, InOnePlace, Owned, Held, server, tokens, work
<1>1. ASSUME NEW j \in Job, Submit(j) PROVE Places' /\ Owned'
  BY <1>1 DEF Submit
<1>2. ASSUME NEW r \in Runner, NEW S \in SUBSET Job, Claim(r, S) PROVE Places' /\ Owned'
  BY <1>2 DEF Claim, Pending
<1>3. ASSUME NEW r \in Runner, TakesSlots(r) PROVE Places' /\ Owned'
  BY <1>3 DEF TakesSlots
<1>4. ASSUME NEW r \in Runner, Receives(r) PROVE Places' /\ Owned'
  BY <1>4 DEF Receives
<1>5. ASSUME NEW r \in Runner, TimesOut(r) \/ Backoff(r) PROVE Places' /\ Owned'
  BY <1>5 DEF TimesOut, Backoff
<1>6. ASSUME NEW r \in Runner, PollFails(r) PROVE Places' /\ Owned'
  BY <1>6 DEF PollFails
<1>7. ASSUME NEW r \in Runner, PollIsCancelled(r) PROVE Places' /\ Owned'
  BY <1>7 DEF PollIsCancelled
<1>8. ASSUME NEW r \in Runner, NEW j \in Job, Delivers(r, j) PROVE Places' /\ Owned'
  BY <1>8 DEF Delivers
<1>9. ASSUME NEW r \in Runner, GivesBack(r) PROVE Places' /\ Owned'
  BY <1>9 DEF GivesBack
<1>10. ASSUME NEW r \in Runner, DispatcherStops(r) PROVE Places' /\ Owned'
  BY <1>10 DEF DispatcherStops
<1>11. ASSUME NEW r \in Runner, NEW j \in Job, WorkerTakes(r, j) PROVE Places' /\ Owned'
  BY <1>11 DEF WorkerTakes
<1>12. ASSUME NEW r \in Runner, NEW j \in Job, JobEnds(r, j) \/ EndsUnreported(r, j) PROVE Places' /\ Owned'
  BY <1>12 DEF JobEnds, EndsUnreported
<1>13. ASSUME NEW r \in Runner, WorkerReturnsSlot(r) PROVE Places' /\ Owned'
  BY <1>13 DEF WorkerReturnsSlot
<1>14. ASSUME NEW r \in Runner, WorkerStops(r) PROVE Places' /\ Owned'
  BY <1>14 DEF WorkerStops
<1>15. ASSUME NEW r \in Runner, Cancel(r) PROVE Places' /\ Owned'
  BY <1>15 DEF Cancel
<1>16. ASSUME NEW r \in Runner, Crash(r) PROVE Places' /\ Owned'
  BY <1>16 DEF Crash
<1>17. CASE UNCHANGED vars
  BY <1>17 DEF vars
<1> QED BY <1>1, <1>2, <1>3, <1>4, <1>5, <1>6, <1>7, <1>8, <1>9, <1>10, <1>11, <1>12, <1>13, <1>14, <1>15, <1>16, <1>17
       DEF Next, GoesOn, Works, Stops, ServerClaims

-----------------------------------------------------------------------------
\* A running job stays with its owner until it is lost.
LEMMA KeptStep == ASSUME Inv, [Next]_vars PROVE Kept'
<1> USE RunnerAssumption DEF Inv, Types, Places, InOnePlace, Owned, Kept, Held, server, tokens, work
<1>1. ASSUME NEW j \in Job, Submit(j) PROVE Kept'
  BY <1>1 DEF Submit
<1>2. ASSUME NEW r \in Runner, NEW S \in SUBSET Job, Claim(r, S) PROVE Kept'
  BY <1>2 DEF Claim
<1>3. ASSUME NEW r \in Runner, TakesSlots(r) PROVE Kept'
  BY <1>3 DEF TakesSlots
<1>4. ASSUME NEW r \in Runner, Receives(r) PROVE Kept'
  BY <1>4 DEF Receives
<1>5. ASSUME NEW r \in Runner, TimesOut(r) \/ Backoff(r) PROVE Kept'
  BY <1>5 DEF TimesOut, Backoff
<1>6. ASSUME NEW r \in Runner, PollFails(r) PROVE Kept'
  BY <1>6 DEF PollFails
<1>7. ASSUME NEW r \in Runner, PollIsCancelled(r) PROVE Kept'
  BY <1>7 DEF PollIsCancelled
<1>8. ASSUME NEW r \in Runner, NEW j \in Job, Delivers(r, j) PROVE Kept'
  BY <1>8 DEF Delivers
<1>9. ASSUME NEW r \in Runner, GivesBack(r) PROVE Kept'
  BY <1>9 DEF GivesBack
<1>10. ASSUME NEW r \in Runner, DispatcherStops(r) PROVE Kept'
  BY <1>10 DEF DispatcherStops
<1>11. ASSUME NEW r \in Runner, NEW j \in Job, WorkerTakes(r, j) PROVE Kept'
  BY <1>11 DEF WorkerTakes
<1>12. ASSUME NEW r \in Runner, NEW j \in Job, JobEnds(r, j) \/ EndsUnreported(r, j) PROVE Kept'
  BY <1>12 DEF JobEnds, EndsUnreported
<1>13. ASSUME NEW r \in Runner, WorkerReturnsSlot(r) PROVE Kept'
  BY <1>13 DEF WorkerReturnsSlot
<1>14. ASSUME NEW r \in Runner, WorkerStops(r) PROVE Kept'
  BY <1>14 DEF WorkerStops
<1>15. ASSUME NEW r \in Runner, Cancel(r) PROVE Kept'
  BY <1>15 DEF Cancel
<1>16. ASSUME NEW r \in Runner, Crash(r) PROVE Kept'
  BY <1>16 DEF Crash
<1>17. CASE UNCHANGED vars
  BY <1>17 DEF vars
<1> QED BY <1>1, <1>2, <1>3, <1>4, <1>5, <1>6, <1>7, <1>8, <1>9, <1>10, <1>11, <1>12, <1>13, <1>14, <1>15, <1>16, <1>17
       DEF Next, GoesOn, Works, Stops, ServerClaims

-----------------------------------------------------------------------------
\* What is known of a runner before a step.
LEMMA Before ==
    ASSUME Inv, NEW r \in Runner
    PROVE  /\ slots[r] \in Nat /\ hand[r] \in Nat /\ returning[r] \in Nat /\ ended[r] \in Nat
           /\ Cardinality(reply[r]) \in Nat /\ Cardinality(tasks[r]) \in Nat
           /\ Cardinality(jobs[r]) \in Nat /\ Cardinality(running[r]) \in Nat
           /\ cancelled[r] \in BOOLEAN /\ Parallelism[r] \in Nat /\ Covered(r) /\ InOnePlace(r)
BY JobSets, RunnerAssumption DEF Inv, Types, Sums, Places

\* Tokens are handed on, never made or dropped, but at a shutdown.
LEMMA SumsStep == ASSUME Inv, [Next]_vars PROVE Sums'
<1>1. ASSUME NEW j \in Job, Submit(j) PROVE Sums'
  BY <1>1 DEF Submit, Inv, Sums, Covered, Busy, Tokens, tokens, work
<1>2. ASSUME NEW r \in Runner, NEW S \in SUBSET Job, Claim(r, S) PROVE Sums'
  <2>1. ASSUME NEW q \in Runner, q # r PROVE Covered(q)'
    BY <1>2, <2>1, Before DEF Claim, Inv, Types, Sums, Covered, Busy, Tokens, server, tokens, work
  <2>2. /\ reply'[r] = S
        /\ at'[r] = at[r] /\ slots'[r] = slots[r] /\ hand'[r] = hand[r] /\ tasks'[r] = tasks[r]
        /\ jobs'[r] = jobs[r] /\ running'[r] = running[r] /\ returning'[r] = returning[r] /\ ended'[r] = ended[r]
        /\ cancelled'[r] = cancelled[r]
    BY <1>2 DEF Claim, Inv, Types, Places, InOnePlace, server, tokens, work
  <2>4. at[r] = "poll" /\ Cardinality(S) \in Nat /\ Cardinality(S) <= hand[r]
    BY <1>2, JobSets, Empty, <2>2 DEF Claim
  <2>5. Covered(r)'
    BY <2>2, <2>4, Before, Empty DEF InOnePlace, Covered, Busy, Tokens
  <2> QED BY <2>1, <2>5 DEF Sums
<1>3. ASSUME NEW r \in Runner, TakesSlots(r) PROVE Sums'
  <2>1. ASSUME NEW q \in Runner, q # r PROVE Covered(q)'
    BY <1>3, <2>1, Before DEF TakesSlots, Inv, Types, Sums, Covered, Busy, Tokens, server, tokens, work
  <2>2. /\ at'[r] = "poll" /\ hand'[r] = slots[r] /\ slots'[r] = 0
        /\ reply'[r] = reply[r] /\ tasks'[r] = tasks[r] /\ jobs'[r] = jobs[r] /\ running'[r] = running[r]
        /\ returning'[r] = returning[r] /\ ended'[r] = ended[r] /\ cancelled'[r] = cancelled[r]
    BY <1>3 DEF TakesSlots, Inv, Types, Places, InOnePlace, server, tokens, work
  <2>4. at[r] = "take"
    BY <1>3, JobSets, Empty, <2>2 DEF TakesSlots
  <2>5. Covered(r)'
    BY <2>2, <2>4, Before, Empty DEF InOnePlace, Covered, Busy, Tokens
  <2> QED BY <2>1, <2>5 DEF Sums
<1>4. ASSUME NEW r \in Runner, Receives(r) PROVE Sums'
  <2>1. ASSUME NEW q \in Runner, q # r PROVE Covered(q)'
    BY <1>4, <2>1, Before DEF Receives, Inv, Types, Sums, Covered, Busy, Tokens, server, tokens, work
  <2>2. /\ at'[r] = "deliver" /\ tasks'[r] = reply[r] /\ reply'[r] = {}
        /\ slots'[r] = slots[r] /\ hand'[r] = hand[r] /\ jobs'[r] = jobs[r] /\ running'[r] = running[r]
        /\ returning'[r] = returning[r] /\ ended'[r] = ended[r] /\ cancelled'[r] = cancelled[r]
    BY <1>4 DEF Receives, Inv, Types, Places, InOnePlace, server, tokens, work
  <2>4. at[r] = "poll"
    BY <1>4, JobSets, Empty, <2>2 DEF Receives
  <2>5. Covered(r)'
    BY <2>2, <2>4, Before, Empty DEF InOnePlace, Covered, Busy, Tokens
  <2> QED BY <2>1, <2>5 DEF Sums
<1>5. ASSUME NEW r \in Runner, TimesOut(r) \/ Backoff(r) PROVE Sums'
  <2>1. \A q \in Runner : Covered(q)'
    BY <1>5, Before DEF TimesOut, Backoff, Inv, Types, Sums, Covered, Busy, Tokens, server, work
  <2> QED BY <2>1 DEF Sums
<1>6. ASSUME NEW r \in Runner, PollFails(r) PROVE Sums'
  <2>1. ASSUME NEW q \in Runner, q # r PROVE Covered(q)'
    BY <1>6, <2>1, Before DEF PollFails, Inv, Types, Sums, Covered, Busy, Tokens, server, tokens, work
  <2>2. /\ at'[r] = "backoff" /\ slots'[r] = slots[r] + hand[r] /\ hand'[r] = 0 /\ reply'[r] = {} /\ tasks'[r] = {}
        /\ jobs'[r] = jobs[r] /\ running'[r] = running[r] /\ returning'[r] = returning[r] /\ ended'[r] = ended[r]
        /\ cancelled'[r] = cancelled[r]
    BY <1>6 DEF PollFails, Inv, Types, Places, InOnePlace, server, tokens, work
  <2>4. at[r] = "poll"
    BY <1>6, JobSets, Empty, <2>2 DEF PollFails
  <2>5. Covered(r)'
    BY <2>2, <2>4, Before, Empty DEF InOnePlace, Covered, Busy, Tokens
  <2> QED BY <2>1, <2>5 DEF Sums
<1>7. ASSUME NEW r \in Runner, PollIsCancelled(r) PROVE Sums'
  <2>1. ASSUME NEW q \in Runner, q # r PROVE Covered(q)'
    BY <1>7, <2>1, Before DEF PollIsCancelled, Inv, Types, Sums, Covered, Busy, Tokens, server, tokens, work
  <2>2. /\ at'[r] = "deliver" /\ reply'[r] = {}
        /\ slots'[r] = slots[r] /\ hand'[r] = hand[r] /\ tasks'[r] = tasks[r] /\ jobs'[r] = jobs[r]
        /\ running'[r] = running[r] /\ returning'[r] = returning[r] /\ ended'[r] = ended[r] /\ cancelled'[r] = cancelled[r]
    BY <1>7 DEF PollIsCancelled, Inv, Types, Places, InOnePlace, server, tokens, work
  <2>4. at[r] = "poll"
    BY <1>7, JobSets, Empty, <2>2 DEF PollIsCancelled
  <2>5. Covered(r)'
    BY <2>2, <2>4, Before, Empty DEF InOnePlace, Covered, Busy, Tokens
  <2> QED BY <2>1, <2>5 DEF Sums
<1>8. ASSUME NEW r \in Runner, NEW j \in Job, Delivers(r, j) PROVE Sums'
  <2>1. ASSUME NEW q \in Runner, q # r PROVE Covered(q)'
    BY <1>8, <2>1, Before DEF Delivers, Inv, Types, Sums, Covered, Busy, Tokens, server, tokens, work
  <2>2. /\ hand'[r] = hand[r] - 1 /\ tasks'[r] = tasks[r] \ {j} /\ jobs'[r] = jobs[r] \cup {j} /\ reply'[r] = {}
        /\ at'[r] = at[r] /\ slots'[r] = slots[r] /\ running'[r] = running[r] /\ returning'[r] = returning[r]
        /\ ended'[r] = ended[r] /\ cancelled'[r] = cancelled[r]
    BY <1>8 DEF Delivers, Inv, Types, Places, InOnePlace, server, tokens, work
  <2>3. /\ Cardinality(tasks[r] \ {j}) = Cardinality(tasks[r]) - 1
        /\ Cardinality(jobs[r] \cup {j}) = Cardinality(jobs[r]) + 1
        /\ hand[r] \in Nat \ {0}
    BY <1>8, TokenInHand, OneLess, OneMore DEF Delivers, Inv, Types, Places, InOnePlace
  <2>4. at[r] = "deliver"
    BY <1>8, JobSets, Empty, <2>2 DEF Delivers
  <2>5. Busy(r)' = Busy(r) /\ Tokens(r)' = Tokens(r)
    BY <2>2, <2>3, Before DEF Busy, Tokens
  <2>6. Cardinality(reply'[r]) <= hand'[r] /\ Cardinality(tasks'[r]) <= hand'[r]
    BY <2>2, <2>3, Before, Empty DEF Covered
  <2>7. Covered(r)'
    BY <2>2, <2>4, <2>5, <2>6, Before DEF Covered
  <2> QED BY <2>1, <2>7 DEF Sums
<1>9. ASSUME NEW r \in Runner, GivesBack(r) PROVE Sums'
  <2>1. ASSUME NEW q \in Runner, q # r PROVE Covered(q)'
    BY <1>9, <2>1, Before DEF GivesBack, Inv, Types, Sums, Covered, Busy, Tokens, server, tokens, work
  <2>2. /\ at'[r] = "take" /\ slots'[r] = slots[r] + hand[r] /\ hand'[r] = 0 /\ reply'[r] = {} /\ tasks'[r] = {}
        /\ jobs'[r] = jobs[r] /\ running'[r] = running[r] /\ returning'[r] = returning[r] /\ ended'[r] = ended[r]
        /\ cancelled'[r] = cancelled[r]
    BY <1>9 DEF GivesBack, Inv, Types, Places, InOnePlace, server, tokens, work
  <2>4. at[r] = "deliver"
    BY <1>9, JobSets, Empty, <2>2 DEF GivesBack
  <2>5. Covered(r)'
    BY <2>2, <2>4, Before, Empty DEF InOnePlace, Covered, Busy, Tokens
  <2> QED BY <2>1, <2>5 DEF Sums
<1>10. ASSUME NEW r \in Runner, DispatcherStops(r) PROVE Sums'
  <2>1. ASSUME NEW q \in Runner, q # r PROVE Covered(q)'
    BY <1>10, <2>1, Before DEF DispatcherStops, Inv, Types, Sums, Covered, Busy, Tokens, server, tokens, work
  <2>2. /\ at'[r] = "done" /\ hand'[r] = 0 /\ tasks'[r] = {} /\ reply'[r] = {}
        /\ slots'[r] = slots[r] /\ jobs'[r] = jobs[r] /\ running'[r] = running[r] /\ returning'[r] = returning[r]
        /\ ended'[r] = ended[r] /\ cancelled'[r] = cancelled[r]
    BY <1>10 DEF DispatcherStops, Inv, Types, Places, InOnePlace, server, tokens, work
  <2>4. cancelled[r] /\ at[r] # "poll"
    BY <1>10, JobSets, Empty, <2>2 DEF DispatcherStops
  <2>5. Covered(r)'
    BY <2>2, <2>4, Before, Empty DEF InOnePlace, Covered, Busy, Tokens
  <2> QED BY <2>1, <2>5 DEF Sums
<1>11. ASSUME NEW r \in Runner, NEW j \in Job, WorkerTakes(r, j) PROVE Sums'
  <2>1. ASSUME NEW q \in Runner, q # r PROVE Covered(q)'
    BY <1>11, <2>1, Before DEF WorkerTakes, Inv, Types, Sums, Covered, Busy, Tokens, server, tokens, work
  <2>2. /\ jobs'[r] = jobs[r] \ {j} /\ running'[r] = running[r] \cup {j}
        /\ at'[r] = at[r] /\ slots'[r] = slots[r] /\ hand'[r] = hand[r] /\ reply'[r] = reply[r]
        /\ tasks'[r] = tasks[r] /\ returning'[r] = returning[r] /\ ended'[r] = ended[r] /\ cancelled'[r] = cancelled[r]
    BY <1>11 DEF WorkerTakes, Inv, Types, Places, InOnePlace, server, tokens, work
  <2>3. /\ Cardinality(jobs[r] \ {j}) = Cardinality(jobs[r]) - 1
        /\ Cardinality(running[r] \cup {j}) = Cardinality(running[r]) + 1
    BY <1>11, OneLess, OneMore DEF WorkerTakes, Inv, Types, Places, InOnePlace
  <2>4. Busy(r) < Parallelism[r]
    BY <1>11, JobSets, Empty, <2>2 DEF WorkerTakes
  <2>6. Busy(r)' = Busy(r) + 1 /\ Tokens(r)' = Tokens(r) /\ Busy(r) \in Nat
    BY <2>2, <2>3, Before DEF Busy, Tokens
  <2>5. Covered(r)'
    BY <2>2, <2>4, <2>6, Before DEF Covered
  <2> QED BY <2>1, <2>5 DEF Sums
<1>12. ASSUME NEW r \in Runner, NEW j \in Job, JobEnds(r, j) \/ EndsUnreported(r, j) PROVE Sums'
  <2>1. ASSUME NEW q \in Runner, q # r PROVE Covered(q)'
    BY <1>12, <2>1, Before DEF JobEnds, EndsUnreported, Inv, Types, Sums, Covered, Busy, Tokens, server, tokens, work
  <2>2. /\ running'[r] = running[r] \ {j} /\ returning'[r] = returning[r] + 1
        /\ at'[r] = at[r] /\ slots'[r] = slots[r] /\ hand'[r] = hand[r] /\ reply'[r] = reply[r]
        /\ tasks'[r] = tasks[r] /\ jobs'[r] = jobs[r] /\ ended'[r] = ended[r] /\ cancelled'[r] = cancelled[r]
    BY <1>12 DEF JobEnds, EndsUnreported, Inv, Types, Places, InOnePlace, server, tokens, work
  <2>3. Cardinality(running[r] \ {j}) = Cardinality(running[r]) - 1
    BY <1>12, OneLess DEF JobEnds, EndsUnreported, Inv, Types
  <2>5. Covered(r)'
    BY <2>2, <2>3, Before, Empty DEF InOnePlace, Covered, Busy, Tokens
  <2> QED BY <2>1, <2>5 DEF Sums
<1>13. ASSUME NEW r \in Runner, WorkerReturnsSlot(r) PROVE Sums'
  <2>1. ASSUME NEW q \in Runner, q # r PROVE Covered(q)'
    BY <1>13, <2>1, Before DEF WorkerReturnsSlot, Inv, Types, Sums, Covered, Busy, Tokens, server, tokens, work
  <2>2. /\ returning'[r] = returning[r] - 1 /\ slots'[r] = slots[r] + 1
        /\ at'[r] = at[r] /\ hand'[r] = hand[r] /\ reply'[r] = reply[r] /\ tasks'[r] = tasks[r]
        /\ jobs'[r] = jobs[r] /\ running'[r] = running[r] /\ ended'[r] = ended[r] /\ cancelled'[r] = cancelled[r]
    BY <1>13 DEF WorkerReturnsSlot, Inv, Types, Places, InOnePlace, server, tokens, work
  <2>4. returning[r] > 0
    BY <1>13, JobSets, Empty, <2>2 DEF WorkerReturnsSlot
  <2>5. Busy(r)' = Busy(r) - 1 /\ Tokens(r)' = Tokens(r) /\ Busy(r) \in Nat
    BY <2>2, <2>4, Before DEF Busy, Tokens
  <2>6. Covered(r)'
    BY <2>2, <2>5, Before DEF Covered
  <2> QED BY <2>1, <2>6 DEF Sums
<1>14. ASSUME NEW r \in Runner, WorkerStops(r) PROVE Sums'
  <2>1. ASSUME NEW q \in Runner, q # r PROVE Covered(q)'
    BY <1>14, <2>1, Before DEF WorkerStops, Inv, Types, Sums, Covered, Busy, Tokens, server, tokens, work
  <2>2. /\ ended'[r] = ended[r] + 1 /\ cancelled[r]
        /\ \/ Busy(r) < Parallelism[r] /\ returning'[r] = returning[r]
           \/ returning[r] > 0 /\ returning'[r] = returning[r] - 1
        /\ UNCHANGED <<at, slots, hand, reply, tasks, jobs, running, cancelled>>
    BY <1>14 DEF WorkerStops, Inv, Types, server, tokens, work
  <2>4. Covered(r)'
    BY <2>2, Before DEF Covered, Busy, Tokens
  <2> QED BY <2>1, <2>4 DEF Sums
<1>15. ASSUME NEW r \in Runner, Cancel(r) PROVE Sums'
  <2>1. ASSUME NEW q \in Runner, q # r PROVE Covered(q)'
    BY <1>15, <2>1, Before DEF Cancel, Inv, Types, Sums, Covered, Busy, Tokens, server, tokens, work
  <2>2. /\ cancelled'[r] = TRUE
        /\ at'[r] = at[r] /\ slots'[r] = slots[r] /\ hand'[r] = hand[r] /\ reply'[r] = reply[r]
        /\ tasks'[r] = tasks[r] /\ jobs'[r] = jobs[r] /\ running'[r] = running[r] /\ returning'[r] = returning[r]
        /\ ended'[r] = ended[r]
    BY <1>15 DEF Cancel, Inv, Types, Places, InOnePlace, server, tokens, work
  <2>5. Covered(r)'
    BY <2>2, Before, Empty DEF InOnePlace, Covered, Busy, Tokens
  <2> QED BY <2>1, <2>5 DEF Sums
<1>16. ASSUME NEW r \in Runner, Crash(r) PROVE Sums'
  <2>1. ASSUME NEW q \in Runner, q # r PROVE Covered(q)'
    BY <1>16, <2>1, Before DEF Crash, Inv, Types, Sums, Covered, Busy, Tokens, server, tokens, work
  <2>2. /\ at'[r] = "take" /\ slots'[r] = Parallelism[r] /\ hand'[r] = 0 /\ reply'[r] = {} /\ tasks'[r] = {}
        /\ jobs'[r] = {} /\ running'[r] = {} /\ returning'[r] = 0
        /\ ended'[r] = ended[r] /\ cancelled'[r] = cancelled[r]
    BY <1>16 DEF Crash, Inv, Types, Places, InOnePlace, server, tokens, work
  <2>4. Cardinality(running'[r]) = 0 /\ ~cancelled[r]
    BY <1>16, JobSets, Empty, <2>2 DEF Crash
  <2>5. Covered(r)'
    BY <2>2, <2>4, Before, Empty DEF InOnePlace, Covered, Busy, Tokens
  <2> QED BY <2>1, <2>5 DEF Sums
<1>17. CASE UNCHANGED vars
  BY <1>17 DEF vars, server, tokens, work, Inv, Sums, Covered, Busy, Tokens
<1> QED BY <1>1, <1>2, <1>3, <1>4, <1>5, <1>6, <1>7, <1>8, <1>9, <1>10, <1>11, <1>12, <1>13, <1>14, <1>15, <1>16, <1>17
       DEF Next, GoesOn, Works, Stops, ServerClaims

-----------------------------------------------------------------------------
\* The invariant of the task loop, for every number of runners and slots.
THEOREM Invariance == Spec => []Inv
<1>1. Inv /\ [Next]_vars => Inv'
  <2> SUFFICES ASSUME Inv, [Next]_vars PROVE Inv'
    OBVIOUS
  <2> QED BY TypesStep, PlacesStep, SumsStep, KeptStep DEF Inv
<1> QED BY <1>1, InitInv, PTL DEF Spec

\* No counter of slots, tokens or workers leaves its range.
THEOREM TypeCorrect == Spec => []TypeOK
<1>1. Inv => TypeOK
  <2> SUFFICES ASSUME Inv PROVE TypeOK
    OBVIOUS
  <2>1. ASSUME NEW r \in Runner
        PROVE  /\ slots[r] \in 0..Parallelism[r] /\ hand[r] \in 0..Parallelism[r]
               /\ returning[r] \in 0..Parallelism[r] /\ ended[r] \in 0..Parallelism[r]
    BY <2>1, Before DEF Covered, Tokens, Busy
  <2> QED BY <2>1 DEF Inv, Types, TypeOK
<1> QED BY <1>1, Invariance, PTL

\* Run's comment "idle slots + jobs on their way + busy workers": takes,
\* failed polls, deliveries, returns and crashes of any number of workers
\* neither lose a token nor make one, until a shutdown.
THEOREM Conserved == Spec => []SlotsConserved
<1>1. Inv => SlotsConserved
  BY Before DEF Inv, Types, Sums, Covered, SlotsConserved
<1> QED BY <1>1, Invariance, PTL

\* A claimed job has one holder, its owner (ClaimNextWorkflowJobs), until it is
\* one of those the code loses: its own poll was not answered, its own runner died
\* or stopped delivering, its own end was not reported.
THEOREM HeldByOwner == Spec => []ClaimedIsHeld
<1>1. Inv => ClaimedIsHeld
  BY DEF Inv, Owned, Kept, ClaimedIsHeld
<1> QED BY <1>1, Invariance, PTL

-----------------------------------------------------------------------------
\* A runner never holds more jobs than it has slots.
LEMMA HeldBound ==
    ASSUME Inv, NEW r \in Runner, NEW S \in SUBSET Job, at[r] = "poll",
           reply[r] = {}, Cardinality(S) <= hand[r]
    PROVE  Cardinality(Held(r) \cup S) <= Parallelism[r]
<1>1. Held(r) \cup S = (jobs[r] \cup running[r]) \cup S
  BY Before DEF InOnePlace, Held
<1>2. jobs[r] \in SUBSET Job /\ running[r] \in SUBSET Job /\ jobs[r] \cup running[r] \in SUBSET Job
  BY DEF Inv, Types
<1>3. Cardinality(jobs[r] \cup running[r]) <= Cardinality(jobs[r]) + Cardinality(running[r])
  BY <1>2, UnionBound
<1>4. Cardinality((jobs[r] \cup running[r]) \cup S)
        <= Cardinality(jobs[r] \cup running[r]) + Cardinality(S)
  BY <1>2, UnionBound
<1>5. /\ Cardinality(jobs[r] \cup running[r]) \in Nat /\ Cardinality(S) \in Nat
      /\ Cardinality((jobs[r] \cup running[r]) \cup S) \in Nat
  <2>1. (jobs[r] \cup running[r]) \cup S \in SUBSET Job
    BY <1>2
  <2> QED BY <1>2, <2>1, JobSets
<1>6. slots[r] + hand[r] + Cardinality(jobs[r]) + Cardinality(running[r]) + returning[r] <= Parallelism[r]
  BY Before DEF Covered, Tokens
<1>7. slots[r] \in Nat /\ returning[r] \in Nat /\ hand[r] \in Nat /\ Parallelism[r] \in Nat
  BY Before
<1>8. Cardinality(jobs[r]) \in Nat /\ Cardinality(running[r]) \in Nat
  BY Before
<1>9. Cardinality((jobs[r] \cup running[r]) \cup S) <= Parallelism[r]
  BY <1>3, <1>4, <1>5, <1>6, <1>7, <1>8
<1> QED BY <1>1, <1>9

\* A step that leaves what is held and every status alone.
LEMMA Stutters ==
    ASSUME status' = status, \A r \in Runner : Held(r)' = Held(r)
    PROVE  UNCHANGED Pool!vars
BY DEF Pool!vars, Pending, HeldBy, LetGo

\* A step by which one runner lets go of some jobs it held.
LEMMA LetsGo ==
    ASSUME Inv, NEW r \in Runner, NEW S \in SUBSET Held(r), Held(r)' = Held(r) \ S,
           \A q \in Runner \ {r} : Held(q)' = Held(q),
           \A j \in Job : \/ status'[j] = status[j]
                          \/ j \in S /\ status'[j] = "ended"
    PROVE  Pool!LetGo(r, S)
<1>1. \A q \in Runner : Held(q) \subseteq Job
  BY DEF Held, Inv, Types
<1>2. \A j \in S : status[j] = "running" /\ owner[j] = r /\ j \in Job
  BY <1>1 DEF Inv, Owned
<1>3. \A j \in S : \A q \in Runner : j \notin Held(q)'
  BY <1>2 DEF Inv, Owned
<1>4. Pending' = Pending
  BY <1>2 DEF Pending
<1>5. LetGo' = LetGo \cup S
  BY <1>1, <1>2, <1>3 DEF LetGo
<1>6. HeldBy' = [HeldBy EXCEPT ![r] = @ \ S]
  BY DEF HeldBy
<1> QED BY <1>4, <1>5, <1>6 DEF Pool!LetGo, HeldBy

\* Every step of the task loop is a step of the pool or a stutter.
LEMMA PoolStep == ASSUME Inv, [Next]_vars PROVE [Pool!Next]_(Pool!vars)
<1> DEFINE Kind == [Pool!Next]_(Pool!vars)
<1> USE DEF server, tokens, work
<1>0. /\ \A q \in Runner : Held(q) \subseteq Job
      /\ \A q \in Runner, S \in SUBSET Job : Pool!LetGo(q, S) => Pool!Next
  BY DEF Held, Inv, Types, Pool!Next
<1>1. ASSUME NEW j \in Job, Submit(j) PROVE Kind
  <2>1. \A q \in Runner : Held(q)' = Held(q)
    BY <1>1 DEF Submit, Held
  <2>2. \A q \in Runner : j \notin Held(q)
    BY <1>1 DEF Submit, Inv, Owned
  <2>3. Pending' = Pending \cup {j} /\ LetGo' = LetGo /\ HeldBy' = HeldBy
    BY <1>1, <2>1 DEF Submit, Pending, LetGo, HeldBy, Inv, Types
  <2>4. j \notin Pending \cup LetGo
    BY <1>1 DEF Submit, Pending, LetGo
  <2>5. Pool!Submit(j)
    BY <2>2, <2>3, <2>4 DEF Pool!Submit, HeldBy
  <2> QED BY <2>5 DEF Pool!Next
<1>2. ASSUME NEW r \in Runner, NEW S \in SUBSET Job, Claim(r, S) PROVE Kind
  <2>1. /\ Held(r)' = Held(r) \cup S
        /\ \A q \in Runner \ {r} : Held(q)' = Held(q)
    BY <1>2 DEF Claim, Held, Inv, Types
  <2>2. S \subseteq Pending /\ Pending' = Pending \ S
    BY <1>2 DEF Claim, Pending, Inv, Types
  <2>3. \A j \in S : \A q \in Runner : j \notin Held(q)
    BY <2>2 DEF Pending, Inv, Owned
  <2>4. LetGo' = LetGo
    BY <1>2, <2>1, <2>2, <2>3 DEF Claim, LetGo, Pending, Inv, Types
  <2>5. HeldBy' = [HeldBy EXCEPT ![r] = @ \cup S]
    BY <2>1 DEF HeldBy
  <2>6. Cardinality(HeldBy[r] \cup S) <= Parallelism[r]
    <3>1. at[r] = "poll" /\ reply[r] = {} /\ Cardinality(S) <= hand[r]
      BY <1>2 DEF Claim
    <3>2. Cardinality(Held(r) \cup S) <= Parallelism[r]
      BY <3>1, HeldBound
    <3> QED BY <3>2 DEF HeldBy
  <2>7. Pool!Cardinality(HeldBy[r] \cup S) = Cardinality(HeldBy[r] \cup S)
    BY DEF Pool!Cardinality, Cardinality
  <2>8. Pool!HandOut(r, S)
    BY <2>2, <2>4, <2>5, <2>6, <2>7 DEF Pool!HandOut
  <2> QED BY <2>8 DEF Pool!Next
<1>3. ASSUME NEW r \in Runner, TakesSlots(r) \/ TimesOut(r) \/ Backoff(r) \/ GivesBack(r)
      PROVE  Kind
  <2>1. status' = status /\ \A q \in Runner : Held(q)' = Held(q)
    BY <1>3 DEF TakesSlots, TimesOut, Backoff, GivesBack, Held
  <2> QED BY <2>1, Stutters
<1>4. ASSUME NEW r \in Runner, Receives(r) PROVE Kind
  <2>1. tasks[r] = {}
    BY <1>4 DEF Receives, Inv, Places, InOnePlace
  <2>2. status' = status /\ \A q \in Runner : Held(q)' = Held(q)
    BY <1>4, <2>1 DEF Receives, Held, Inv, Types
  <2> QED BY <2>2, Stutters
<1>5. ASSUME NEW r \in Runner, NEW j \in Job, Delivers(r, j) \/ WorkerTakes(r, j) PROVE Kind
  <2>1. status' = status /\ \A q \in Runner : Held(q)' = Held(q)
    BY <1>5 DEF Delivers, WorkerTakes, Held, Inv, Types
  <2> QED BY <2>1, Stutters
<1>6. ASSUME NEW r \in Runner, WorkerReturnsSlot(r) \/ WorkerStops(r) \/ Cancel(r) PROVE Kind
  <2>1. status' = status /\ \A q \in Runner : Held(q)' = Held(q)
    BY <1>6 DEF WorkerReturnsSlot, WorkerStops, Cancel, Held
  <2> QED BY <2>1, Stutters
<1>7. ASSUME NEW r \in Runner, PollFails(r) \/ PollIsCancelled(r) PROVE Kind
  <2>1. tasks[r] = {} /\ reply[r] \cap (jobs[r] \cup running[r]) = {}
    BY <1>7 DEF PollFails, PollIsCancelled, Inv, Places, InOnePlace
  <2>2. /\ reply[r] \in SUBSET Held(r) /\ Held(r)' = Held(r) \ reply[r] /\ status' = status
        /\ \A q \in Runner \ {r} : Held(q)' = Held(q)
    BY <1>7, <2>1 DEF PollFails, PollIsCancelled, Held, Inv, Types
  <2>3. Pool!LetGo(r, reply[r])
    BY <2>2, LetsGo
  <2> QED BY <1>0, <2>2, <2>3
<1>8. ASSUME NEW r \in Runner, DispatcherStops(r) PROVE Kind
  <2>1. reply[r] = {} /\ tasks[r] \cap (jobs[r] \cup running[r]) = {}
    BY <1>8 DEF DispatcherStops, Inv, Places, InOnePlace
  <2>2. /\ tasks[r] \in SUBSET Held(r) /\ Held(r)' = Held(r) \ tasks[r] /\ status' = status
        /\ \A q \in Runner \ {r} : Held(q)' = Held(q)
    BY <1>8, <2>1 DEF DispatcherStops, Held, Inv, Types
  <2>3. Pool!LetGo(r, tasks[r])
    BY <2>2, LetsGo
  <2> QED BY <1>0, <2>2, <2>3
<1>9. ASSUME NEW r \in Runner, NEW j \in Job, JobEnds(r, j) \/ EndsUnreported(r, j) PROVE Kind
  <2>1. j \in running[r] /\ j \notin reply[r] \cup tasks[r] \cup jobs[r]
    BY <1>9 DEF JobEnds, EndsUnreported, Inv, Places, InOnePlace
  <2>2. /\ {j} \in SUBSET Held(r) /\ Held(r)' = Held(r) \ {j}
        /\ \A q \in Runner \ {r} : Held(q)' = Held(q)
    BY <1>9, <2>1 DEF JobEnds, EndsUnreported, Held, Inv, Types
  <2>3. \A i \in Job : \/ status'[i] = status[i]
                       \/ i \in {j} /\ status'[i] = "ended"
    <3>1. status \in [Job -> Status]
      BY DEF Inv, Types
    <3>2. status' = [status EXCEPT ![j] = "ended"] \/ status' = status
      BY <1>9 DEF JobEnds, EndsUnreported
    <3> QED BY <3>1, <3>2
  <2>4. Pool!LetGo(r, {j})
    BY <2>2, <2>3, LetsGo
  <2> QED BY <1>0, <2>4
<1>10. ASSUME NEW r \in Runner, Crash(r) PROVE Kind
  <2>1. /\ Held(r)' = {} /\ status' = status
        /\ \A q \in Runner \ {r} : Held(q)' = Held(q)
    BY <1>10 DEF Crash, Held, Inv, Types
  <2>2. Pool!LetGo(r, Held(r))
    BY <2>1, LetsGo
  <2> QED BY <1>0, <2>2
<1>11. CASE UNCHANGED vars
  <2>1. status' = status /\ \A q \in Runner : Held(q)' = Held(q)
    BY <1>11 DEF vars, Held
  <2> QED BY <2>1, Stutters
<1> QED BY <1>1, <1>2, <1>3, <1>4, <1>5, <1>6, <1>7, <1>8, <1>9, <1>10, <1>11
       DEF Next, GoesOn, Works, Stops, ServerClaims

\* The dispatchers, workers and the server's claims together implement
\* TaskPool: a job is handed out once, to a runner that has a slot for it,
\* and one that was let go never comes back.
THEOREM Implements == Spec => KeepsPromise
<1>1. Init => Pool!Init
  BY DEF Init, Pool!Init, Pending, HeldBy, LetGo, Held
<1>2. Inv /\ [Next]_vars => [Pool!Next]_(Pool!vars)
  BY PoolStep
<1> QED BY <1>1, <1>2, Invariance, PTL DEF Spec, KeepsPromise, Pool!Spec

-----------------------------------------------------------------------------
(* The job driver.  Its invariant follows a job step by step: what is       *)
(* before the step at hand is passed and whole, what is after it untouched. *)

Early  == {"begins", "clones", "registers", "marks", "works", "skipped", "success",
           "broke", "opens"}
Making == {"creates", "uploads", "made"}
AtStep == Making \cup {"runs", "captures", "reports", "failed"}
Late   == {"ends", "removes", "cleans", "ended"}

DriverTypes ==
    /\ job \in Jobs /\ n \in Nat \ {0}
    /\ pc \in Early \cup {"steps"} \cup AtStep \cup Late
    /\ verdict \in {"success", "failed"} /\ result \in {"running", "success", "failed"}
    /\ passed \subseteq DOMAIN job
    /\ releases \in [DOMAIN job -> [exists : BOOLEAN, assets : Nat, published : BOOLEAN]]

Untouched(i) == releases[i] = NoRelease
IsWhole(i) == job[i].type = "release" =>
    releases[i] = [exists |-> TRUE, assets |-> job[i].assets, published |-> ~job[i].draft]

\* A failure is final; the server hears the verdict, or nothing.
VerdictStands ==
    /\ verdict = "failed" => pc \in Late
    /\ result = "running" \/ (pc \in Late \ {"ends"} /\ result = verdict)

\* Steps are taken in their order and not passed over.
StepsInTurn ==
    /\ pc \in Early =>
          /\ passed = {} /\ (pc = "opens" => n = 1)
          /\ \A i \in DOMAIN job : Untouched(i)
    /\ pc = "steps" => passed = 1 .. n - 1 /\ n <= Len(job) + 1
    /\ pc \in AtStep =>
          /\ n \in DOMAIN job
          /\ passed = IF pc \in {"captures", "reports"} THEN 1 .. n ELSE 1 .. n - 1
    /\ pc \in AtStep \cup {"steps"} =>
          \A i \in DOMAIN job : i > n \/ (i = n /\ pc = "steps") => Untouched(i)
    /\ pc \in Late /\ verdict = "success" => passed = DOMAIN job

\* How far the release at hand has got.
ReleaseInHand ==
    /\ pc \in Making => job[n].type = "release"
    /\ pc \in {"runs", "captures"} => job[n].type # "release" /\ Untouched(n)
    /\ pc = "creates" => Untouched(n)
    /\ pc = "uploads" =>
          releases[n].exists /\ ~releases[n].published /\ releases[n].assets <= job[n].assets
    /\ pc = "made" => IsWhole(n)

PassedAreWhole  == \A i \in passed : IsWhole(i)
PublishedInFull == \A i \in DOMAIN job : releases[i].published => releases[i].assets = job[i].assets

DriverInv ==
    DriverTypes /\ VerdictStands /\ StepsInTurn /\ ReleaseInHand /\ PassedAreWhole /\ PublishedInFull

LEMMA DriverInvInit == DriverInit => DriverInv
  BY DEF DriverInit, DriverInv, DriverTypes, VerdictStands, StepsInTurn, ReleaseInHand,
         PassedAreWhole, PublishedInFull, IsWhole, Untouched, NoRelease, Early, Making, AtStep, Late

LEMMA DriverStep ==
    ASSUME DriverInv, [DriverNext]_driverVars
    PROVE  DriverInv'
<1> USE DEF Early, Making, AtStep, Late, Happens, Breaks, Fault, StepsDead, Step, Settled,
            NoRelease, hostVars, ghostVars, serverVars, endVars
<1>0. /\ Len(job) \in Nat /\ DOMAIN job = 1 .. Len(job)
      /\ \A i \in DOMAIN job : job[i].assets \in Nat /\ job[i].draft \in BOOLEAN
  <2>1. job \in Seq(Steps)
    BY JobsAssumption DEF JobsAssumption, DriverInv, DriverTypes
  <2>2. Len(job) \in Nat /\ DOMAIN job = 1 .. Len(job) /\ \A i \in DOMAIN job : job[i] \in Steps
    BY <2>1
  <2>3. \A x \in Steps : x.assets \in Nat /\ x.draft \in BOOLEAN
    BY DEF Steps
  <2>4. QED
    BY <2>2, <2>3
<1>1. CASE MakesWorkdir
  BY <1>0, <1>1 DEF DriverInv, DriverTypes, VerdictStands, StepsInTurn, ReleaseInHand,
     PassedAreWhole, PublishedInFull, IsWhole, Untouched, MakesWorkdir
<1>2. CASE Clones
  BY <1>0, <1>2 DEF DriverInv, DriverTypes, VerdictStands, StepsInTurn, ReleaseInHand,
     PassedAreWhole, PublishedInFull, IsWhole, Untouched, Clones
<1>3. CASE RegistersPhase
  BY <1>0, <1>3 DEF DriverInv, DriverTypes, VerdictStands, StepsInTurn, ReleaseInHand,
     PassedAreWhole, PublishedInFull, IsWhole, Untouched, RegistersPhase
<1>4. CASE MarksPhase
  BY <1>0, <1>4 DEF DriverInv, DriverTypes, VerdictStands, StepsInTurn, ReleaseInHand,
     PassedAreWhole, PublishedInFull, IsWhole, Untouched, MarksPhase
<1>5. CASE SettlesPhase
  BY <1>0, <1>5 DEF DriverInv, DriverTypes, VerdictStands, StepsInTurn, ReleaseInHand,
     PassedAreWhole, PublishedInFull, IsWhole, Untouched, SettlesPhase
<1>6. CASE FailsPhase
  BY <1>0, <1>6 DEF DriverInv, DriverTypes, VerdictStands, StepsInTurn, ReleaseInHand,
     PassedAreWhole, PublishedInFull, IsWhole, Untouched, FailsPhase
<1>7. CASE OpensSteps
  BY <1>0, <1>7 DEF DriverInv, DriverTypes, VerdictStands, StepsInTurn, ReleaseInHand,
     PassedAreWhole, PublishedInFull, IsWhole, Untouched, OpensSteps
<1>8. CASE StartsStep
  <2>1. DriverTypes'
    BY <1>0, <1>8 DEF DriverInv, DriverTypes, VerdictStands, StepsInTurn, ReleaseInHand,
       PassedAreWhole, PublishedInFull, IsWhole, Untouched, StartsStep
  <2>2. VerdictStands'
    BY <1>0, <1>8 DEF DriverInv, DriverTypes, VerdictStands, StepsInTurn, ReleaseInHand,
       PassedAreWhole, PublishedInFull, IsWhole, Untouched, StartsStep
  <2>3. StepsInTurn'
    BY <1>0, <1>8 DEF DriverInv, DriverTypes, VerdictStands, StepsInTurn, ReleaseInHand,
       PassedAreWhole, PublishedInFull, IsWhole, Untouched, StartsStep
  <2>4. ReleaseInHand'
    <3>1. pc = "steps" /\ n <= Len(job) /\ n \in DOMAIN job /\ UNCHANGED <<job, n, releases>>
      BY <1>0, <1>8 DEF DriverInv, DriverTypes, StartsStep, serverVars
    <3>2. Untouched(n)
      BY <3>1 DEF DriverInv, StepsInTurn
    <3>3. \/ pc' = "failed"
          \/ pc' = "creates" /\ job[n].type = "release"
          \/ pc' = "runs" /\ job[n].type # "release"
      BY <1>8 DEF StartsStep, Step
    <3>4. QED
      BY <3>1, <3>2, <3>3 DEF ReleaseInHand, Untouched
  <2>5. PassedAreWhole'
    BY <1>0, <1>8 DEF DriverInv, DriverTypes, VerdictStands, StepsInTurn, ReleaseInHand,
       PassedAreWhole, PublishedInFull, IsWhole, Untouched, StartsStep
  <2>6. PublishedInFull'
    BY <1>0, <1>8 DEF DriverInv, DriverTypes, VerdictStands, StepsInTurn, ReleaseInHand,
       PassedAreWhole, PublishedInFull, IsWhole, Untouched, StartsStep
  <2>7. QED
    BY <2>1, <2>2, <2>3, <2>4, <2>5, <2>6 DEF DriverInv
<1>9. CASE Captures
  BY <1>0, <1>9 DEF DriverInv, DriverTypes, VerdictStands, StepsInTurn, ReleaseInHand,
     PassedAreWhole, PublishedInFull, IsWhole, Untouched, Captures
<1>10. CASE Reports
  BY <1>0, <1>10 DEF DriverInv, DriverTypes, VerdictStands, StepsInTurn, ReleaseInHand,
     PassedAreWhole, PublishedInFull, IsWhole, Untouched, Reports
<1>11. CASE ReportsFailure
  BY <1>0, <1>11 DEF DriverInv, DriverTypes, VerdictStands, StepsInTurn, ReleaseInHand,
     PassedAreWhole, PublishedInFull, IsWhole, Untouched, ReportsFailure
<1>12. CASE CreatesRelease
  <2> DEFINE now == [releases[n] EXCEPT !.exists = TRUE]
  <2>1. /\ n \in DOMAIN job /\ pc \in Making /\ pc' \in Making \cup {"failed"}
        /\ UNCHANGED <<job, n, passed, verdict, result>>
        /\ releases' = [releases EXCEPT ![n] = now]
    BY <1>12 DEF DriverInv, DriverTypes, StepsInTurn, CreatesRelease, Happens, endVars, ghostVars
  <2>2. now \in [exists : BOOLEAN, assets : Nat, published : BOOLEAN]
    BY <2>1 DEF DriverInv, DriverTypes
  <2>3. releases' \in [DOMAIN job -> [exists : BOOLEAN, assets : Nat, published : BOOLEAN]]
    BY <2>1, <2>2 DEF DriverInv, DriverTypes
  <2>4. releases'[n] = now /\ \A i \in DOMAIN job : i # n => releases'[i] = releases[i]
    BY <2>1 DEF DriverInv, DriverTypes
  <2>5. DriverTypes'
    BY <2>1, <2>3 DEF DriverInv, DriverTypes
  <2>6. VerdictStands'
    BY <1>0, <1>12 DEF DriverInv, DriverTypes, VerdictStands, StepsInTurn, ReleaseInHand,
       PassedAreWhole, PublishedInFull, IsWhole, Untouched, CreatesRelease
  <2>7. StepsInTurn'
    BY <1>0, <2>1, <2>4 DEF DriverInv, StepsInTurn, Untouched
  <2>8. ReleaseInHand'
    BY <1>0, <1>12 DEF DriverInv, DriverTypes, VerdictStands, StepsInTurn, ReleaseInHand,
       PassedAreWhole, PublishedInFull, IsWhole, Untouched, CreatesRelease
  <2>9. PassedAreWhole'
    BY <1>0, <1>12 DEF DriverInv, DriverTypes, VerdictStands, StepsInTurn, ReleaseInHand,
       PassedAreWhole, PublishedInFull, IsWhole, Untouched, CreatesRelease
  <2>10. PublishedInFull'
    BY <1>0, <1>12 DEF DriverInv, DriverTypes, VerdictStands, StepsInTurn, ReleaseInHand,
       PassedAreWhole, PublishedInFull, IsWhole, Untouched, CreatesRelease
  <2>11. QED
    BY <2>5, <2>6, <2>7, <2>8, <2>9, <2>10 DEF DriverInv
<1>13. CASE UploadsAsset
  <2> DEFINE now == [releases[n] EXCEPT !.assets = @ + 1]
  <2>1. /\ n \in DOMAIN job /\ pc \in Making /\ pc' \in Making \cup {"failed"}
        /\ UNCHANGED <<job, n, passed, verdict, result>>
        /\ releases' = [releases EXCEPT ![n] = now]
    BY <1>13 DEF DriverInv, DriverTypes, StepsInTurn, UploadsAsset, Happens, endVars, ghostVars
  <2>2. now \in [exists : BOOLEAN, assets : Nat, published : BOOLEAN]
    <3>1. releases[n] \in [exists : BOOLEAN, assets : Nat, published : BOOLEAN]
      BY <2>1 DEF DriverInv, DriverTypes
    <3>2. QED
      BY <3>1
  <2>3. releases' \in [DOMAIN job -> [exists : BOOLEAN, assets : Nat, published : BOOLEAN]]
    BY <2>1, <2>2 DEF DriverInv, DriverTypes
  <2>4. releases'[n] = now /\ \A i \in DOMAIN job : i # n => releases'[i] = releases[i]
    BY <2>1 DEF DriverInv, DriverTypes
  <2>5. DriverTypes'
    BY <2>1, <2>3 DEF DriverInv, DriverTypes
  <2>6. VerdictStands'
    BY <1>0, <1>13 DEF DriverInv, DriverTypes, VerdictStands, StepsInTurn, ReleaseInHand,
       PassedAreWhole, PublishedInFull, IsWhole, Untouched, UploadsAsset
  <2>7. StepsInTurn'
    BY <1>0, <2>1, <2>4 DEF DriverInv, StepsInTurn, Untouched
  <2>8. ReleaseInHand'
    BY <1>0, <1>13 DEF DriverInv, DriverTypes, VerdictStands, StepsInTurn, ReleaseInHand,
       PassedAreWhole, PublishedInFull, IsWhole, Untouched, UploadsAsset
  <2>9. PassedAreWhole'
    BY <1>0, <1>13 DEF DriverInv, DriverTypes, VerdictStands, StepsInTurn, ReleaseInHand,
       PassedAreWhole, PublishedInFull, IsWhole, Untouched, UploadsAsset
  <2>10. PublishedInFull'
    BY <1>0, <1>13 DEF DriverInv, DriverTypes, VerdictStands, StepsInTurn, ReleaseInHand,
       PassedAreWhole, PublishedInFull, IsWhole, Untouched, UploadsAsset
  <2>11. QED
    BY <2>5, <2>6, <2>7, <2>8, <2>9, <2>10 DEF DriverInv
<1>14. CASE PublishesRelease
  <2> DEFINE now == [releases[n] EXCEPT !.published = TRUE]
  <2>1. /\ n \in DOMAIN job /\ pc \in Making /\ pc' \in Making \cup {"failed"}
        /\ UNCHANGED <<job, n, passed, verdict, result>>
        /\ releases' = [releases EXCEPT ![n] = now]
    BY <1>14 DEF DriverInv, DriverTypes, StepsInTurn, PublishesRelease, Happens, endVars, ghostVars
  <2>2. now \in [exists : BOOLEAN, assets : Nat, published : BOOLEAN]
    BY <2>1 DEF DriverInv, DriverTypes
  <2>3. releases' \in [DOMAIN job -> [exists : BOOLEAN, assets : Nat, published : BOOLEAN]]
    BY <2>1, <2>2 DEF DriverInv, DriverTypes
  <2>4. releases'[n] = now /\ \A i \in DOMAIN job : i # n => releases'[i] = releases[i]
    BY <2>1 DEF DriverInv, DriverTypes
  <2>5. DriverTypes'
    BY <2>1, <2>3 DEF DriverInv, DriverTypes
  <2>6. VerdictStands'
    BY <1>0, <1>14 DEF DriverInv, DriverTypes, VerdictStands, StepsInTurn, ReleaseInHand,
       PassedAreWhole, PublishedInFull, IsWhole, Untouched, PublishesRelease
  <2>7. StepsInTurn'
    BY <1>0, <2>1, <2>4 DEF DriverInv, StepsInTurn, Untouched
  <2>8. ReleaseInHand'
    BY <1>0, <1>14 DEF DriverInv, DriverTypes, VerdictStands, StepsInTurn, ReleaseInHand,
       PassedAreWhole, PublishedInFull, IsWhole, Untouched, PublishesRelease
  <2>9. PassedAreWhole'
    BY <1>0, <1>14 DEF DriverInv, DriverTypes, VerdictStands, StepsInTurn, ReleaseInHand,
       PassedAreWhole, PublishedInFull, IsWhole, Untouched, PublishesRelease
  <2>10. PublishedInFull'
    BY <1>0, <1>14 DEF DriverInv, DriverTypes, VerdictStands, StepsInTurn, ReleaseInHand,
       PassedAreWhole, PublishedInFull, IsWhole, Untouched, PublishesRelease
  <2>11. QED
    BY <2>5, <2>6, <2>7, <2>8, <2>9, <2>10 DEF DriverInv
<1>15. CASE KeepsDraft
  BY <1>0, <1>15 DEF DriverInv, DriverTypes, VerdictStands, StepsInTurn, ReleaseInHand,
     PassedAreWhole, PublishedInFull, IsWhole, Untouched, KeepsDraft
<1>16. CASE ReleaseFails
  BY <1>0, <1>16 DEF DriverInv, DriverTypes, VerdictStands, StepsInTurn, ReleaseInHand,
     PassedAreWhole, PublishedInFull, IsWhole, Untouched, ReleaseFails
<1>17. CASE AssetMissing
  BY <1>0, <1>17 DEF DriverInv, DriverTypes, VerdictStands, StepsInTurn, ReleaseInHand,
     PassedAreWhole, PublishedInFull, IsWhole, Untouched, AssetMissing
<1>18. CASE ReleaseMade
  <2>1. DriverTypes'
    BY <1>0, <1>18 DEF DriverInv, DriverTypes, VerdictStands, StepsInTurn, ReleaseInHand,
       PassedAreWhole, PublishedInFull, IsWhole, Untouched, ReleaseMade
  <2>2. VerdictStands'
    BY <1>0, <1>18 DEF DriverInv, DriverTypes, VerdictStands, StepsInTurn, ReleaseInHand,
       PassedAreWhole, PublishedInFull, IsWhole, Untouched, ReleaseMade
  <2>3. StepsInTurn'
    BY <1>0, <1>18 DEF DriverInv, DriverTypes, VerdictStands, StepsInTurn, ReleaseInHand,
       PassedAreWhole, PublishedInFull, IsWhole, Untouched, ReleaseMade
  <2>4. ReleaseInHand'
    BY <1>0, <1>18 DEF DriverInv, DriverTypes, VerdictStands, StepsInTurn, ReleaseInHand,
       PassedAreWhole, PublishedInFull, IsWhole, Untouched, ReleaseMade
  <2>5. PassedAreWhole'
    BY <1>0, <1>18 DEF DriverInv, DriverTypes, VerdictStands, StepsInTurn, ReleaseInHand,
       PassedAreWhole, PublishedInFull, IsWhole, Untouched, ReleaseMade
  <2>6. PublishedInFull'
    BY <1>0, <1>18 DEF DriverInv, DriverTypes, VerdictStands, StepsInTurn, ReleaseInHand,
       PassedAreWhole, PublishedInFull, IsWhole, Untouched, ReleaseMade
  <2>7. QED
    BY <2>1, <2>2, <2>3, <2>4, <2>5, <2>6 DEF DriverInv
<1>19. CASE AllStepsDone
  BY <1>0, <1>19 DEF DriverInv, DriverTypes, VerdictStands, StepsInTurn, ReleaseInHand,
     PassedAreWhole, PublishedInFull, IsWhole, Untouched, AllStepsDone
<1>20. CASE Terminates
  BY <1>0, <1>20 DEF DriverInv, DriverTypes, VerdictStands, StepsInTurn, ReleaseInHand,
     PassedAreWhole, PublishedInFull, IsWhole, Untouched, Terminates
<1>21. CASE RemovesContainer
  BY <1>0, <1>21 DEF DriverInv, DriverTypes, VerdictStands, StepsInTurn, ReleaseInHand,
     PassedAreWhole, PublishedInFull, IsWhole, Untouched, RemovesContainer
<1>22. CASE RemovesWorkdir
  BY <1>0, <1>22 DEF DriverInv, DriverTypes, VerdictStands, StepsInTurn, ReleaseInHand,
     PassedAreWhole, PublishedInFull, IsWhole, Untouched, RemovesWorkdir
<1>23. CASE ImageReady
  BY <1>0, <1>23 DEF DriverInv, DriverTypes, VerdictStands, StepsInTurn, ReleaseInHand,
     PassedAreWhole, PublishedInFull, IsWhole, Untouched, ImageReady
<1>24. CASE ContainerUp
  BY <1>0, <1>24 DEF DriverInv, DriverTypes, VerdictStands, StepsInTurn, ReleaseInHand,
     PassedAreWhole, PublishedInFull, IsWhole, Untouched, ContainerUp
<1>25. CASE PhaseFails
  BY <1>0, <1>25 DEF DriverInv, DriverTypes, VerdictStands, StepsInTurn, ReleaseInHand,
     PassedAreWhole, PublishedInFull, IsWhole, Untouched, PhaseFails
<1>26. CASE StepEnds
  <2>1. DriverTypes'
    BY <1>0, <1>26 DEF DriverInv, DriverTypes, VerdictStands, StepsInTurn, ReleaseInHand,
       PassedAreWhole, PublishedInFull, IsWhole, Untouched, StepEnds
  <2>2. VerdictStands'
    BY <1>0, <1>26 DEF DriverInv, DriverTypes, VerdictStands, StepsInTurn, ReleaseInHand,
       PassedAreWhole, PublishedInFull, IsWhole, Untouched, StepEnds
  <2>3. StepsInTurn'
    <3>1. n \in 1 .. Len(job) /\ passed = 1 .. n - 1 /\ pc = "runs"
      BY <1>0, <1>26 DEF DriverInv, StepsInTurn, StepEnds
    <3>2. \/ pc' = "captures" /\ passed' = passed \cup {n}
          \/ pc' = "failed" /\ passed' = passed
      BY <1>26 DEF StepEnds, Happens, ghostVars, endVars, serverVars
    <3>3. UNCHANGED <<job, n, verdict, releases>>
      BY <1>26 DEF StepEnds, endVars, serverVars
    <3>4. (1 .. n - 1) \cup {n} = 1 .. n
      BY <1>0, <3>1
    <3>5. pc' = "captures" => passed' = 1 .. n
      BY <3>1, <3>2, <3>4
    <3>6. pc' = "failed" => passed' = 1 .. n - 1
      BY <3>1, <3>2
    <3>7. QED
      BY <1>0, <3>1, <3>2, <3>5, <3>6, <3>3 DEF DriverInv, StepsInTurn, Untouched
  <2>4. ReleaseInHand'
    BY <1>0, <1>26 DEF DriverInv, DriverTypes, VerdictStands, StepsInTurn, ReleaseInHand,
       PassedAreWhole, PublishedInFull, IsWhole, Untouched, StepEnds
  <2>5. PassedAreWhole'
    BY <1>0, <1>26 DEF DriverInv, DriverTypes, VerdictStands, StepsInTurn, ReleaseInHand,
       PassedAreWhole, PublishedInFull, IsWhole, Untouched, StepEnds
  <2>6. PublishedInFull'
    BY <1>0, <1>26 DEF DriverInv, DriverTypes, VerdictStands, StepsInTurn, ReleaseInHand,
       PassedAreWhole, PublishedInFull, IsWhole, Untouched, StepEnds
  <2>7. QED
    BY <2>1, <2>2, <2>3, <2>4, <2>5, <2>6 DEF DriverInv
<1>27. CASE Expires
  BY <1>0, <1>27 DEF DriverInv, DriverTypes, VerdictStands, StepsInTurn, ReleaseInHand,
     PassedAreWhole, PublishedInFull, IsWhole, Untouched, Expires
<1>28. CASE RunnerStops
  BY <1>0, <1>28 DEF DriverInv, DriverTypes, VerdictStands, StepsInTurn, ReleaseInHand,
     PassedAreWhole, PublishedInFull, IsWhole, Untouched, RunnerStops
<1>29. CASE UNCHANGED driverVars
  BY <1>29 DEF DriverInv, DriverTypes, VerdictStands, StepsInTurn, ReleaseInHand,
     PassedAreWhole, PublishedInFull, IsWhole, Untouched, driverVars
<1>30. QED
  BY <1>1, <1>2, <1>3, <1>4, <1>5, <1>6, <1>7, <1>8, <1>9, <1>10, <1>11, <1>12, <1>13, <1>14, <1>15,
     <1>16, <1>17, <1>18, <1>19, <1>20, <1>21, <1>22, <1>23, <1>24, <1>25, <1>26, <1>27, <1>28, <1>29
  DEF DriverNext, Proceeds

\* SuccessIsWhole, for jobs of any steps and any number of calls
\* that fail: a success has all its steps passed and its releases complete, and
\* nothing incomplete is published.
THEOREM SuccessWhole == DriverSpec => []SuccessIsWhole
<1>1. DriverInit => DriverInv
  BY DriverInvInit
<1>2. DriverInv /\ [DriverNext]_driverVars => DriverInv'
  BY DriverStep
<1>3. DriverInv => SuccessIsWhole
  BY DEF DriverInv, DriverTypes, VerdictStands, StepsInTurn, PassedAreWhole, PublishedInFull,
         IsWhole, Early, Making, AtStep, Late, SuccessIsWhole
<1>4. QED
  BY <1>1, <1>2, <1>3, PTL DEF DriverSpec

\* The safety part of DriverEnds: the driver does not come to its
\* end past a container that is up.
THEOREM ContainerGone == DriverSpec => []ContainerRemoved
<1> DEFINE Gone == pc \in {"cleans", "ended"} => container # "up"
<1>1. DriverInit => Gone
  BY DEF DriverInit
<1>2. Gone /\ [DriverNext]_driverVars => Gone'
  BY DEF DriverNext, Proceeds, MakesWorkdir, Clones, RegistersPhase, MarksPhase, SettlesPhase,
         FailsPhase, OpensSteps, StartsStep, Captures, Reports, ReportsFailure,
         CreatesRelease, UploadsAsset, PublishesRelease, KeepsDraft, ReleaseFails,
         AssetMissing, ReleaseMade, AllStepsDone, Terminates, RemovesContainer,
         RemovesWorkdir, ImageReady, ContainerUp, PhaseFails, StepEnds, Expires,
         RunnerStops, hostVars, Settled, driverVars
<1>3. Gone => ContainerRemoved
  BY DEF ContainerRemoved
<1>4. QED
  BY <1>1, <1>2, <1>3, PTL DEF DriverSpec
=============================================================================
