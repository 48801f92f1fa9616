------------------------- MODULE Contribution_proofs -------------------------
(***************************************************************************)
(* Contributions for every number of branches, voters and requests: the    *)
(* variables keep their types, and code only lands when it was approved.   *)
(*                                                                         *)
(* What lands is copied twice, from a branch into a request and from there *)
(* onto another branch, with other requests in between; so the invariant   *)
(* speaks of the branches and of the requests under way alike (Landing).   *)
(* What was pushed as a commit is never pushed again, so what is reachable *)
(* from it stays (Blank, OnBranch). A contribution that did not go astray  *)
(* has one push under way at most and no apply beside it, and its branch   *)
(* is the head its row has, or will have when the sync writes it           *)
(* (Straight). So what an apply reads from the branch is the head whose    *)
(* votes it has computed (Lands, Applied). A lemma sorts the steps first   *)
(* (Shape): all but nine neither push, sync nor apply.                     *)
(*                                                                         *)
(* The second half is about requests that do not overlap.  The one under   *)
(* way then knows that what it has read still holds, step by step from its *)
(* first read to its last write (ContribFacts, IssueFacts); what the       *)
(* requests before it have left follows (Results).                         *)
(***************************************************************************)
EXTENDS Contribution, FiniteSetTheorems, TLAPS

USE DEF pushed, review

\* Steps of a request about a contribution; the others are about an issue.
ContribSteps == {"push", "sync", "upsert", "delete", "vote", "compute", "setStatus",
                 "review", "apply", "applyWrites", "mark", "close", "cleanRow", "cleanClose"}

\* A request points at what its step needs.
Sound(r, pu) ==
    /\ r \in Request
    /\ IF r.at \in ContribSteps THEN r.on \in Contribs /\ r.head <= pu[r.on]
                                ELSE r.on \in {"main"} \cup Issues
ReqOK(r) == Sound(r, pushes)
Requests == req \in [Slots -> Request] /\ \A p \in Slots : ReqOK(req[p])

\* Pushes that are authorized but not received count towards the bound.
Coming(c) == {q \in Slots : At(q, "push") /\ req[q].on = c}
Room == \A c \in Contribs : pushes[c] + Cardinality(Coming(c)) <= MaxPushes

Counters == /\ requests \in 0..MaxRequests /\ overlaps \in 0..MaxOverlaps
            /\ faults \in 0..MaxFaults /\ changes \in 0..MaxChanges
States   == state \in [Issues -> IssueState] /\ refs \subseteq Branches
Pushed   == /\ pushes \in [Contribs -> 0..MaxPushes] /\ content \in [Commits -> Code]
            /\ astray \subseteq Contribs
Reviewed == /\ config \in Configs /\ passed \subseteq Commits
            /\ blind \subseteq Contribs \X (0..MaxPushes)
Tips     == tip \in [Branches -> Code]
Votes    == vote \in [Contribs -> [Voters -> Vote]]

Rows == row \in [Contribs -> Row] /\ \A c \in Contribs : row[c].head <= pushes[c]

Inv == /\ Requests /\ Room /\ Counters /\ States /\ Pushed /\ Reviewed /\ Tips /\ Rows /\ Votes

-----------------------------------------------------------------------------
\* The review computation yields a status, and approves no missing head.
LEMMA VerdictStatus ==
    ASSUME NEW required, NEW n, NEW votes
    PROVE  /\ Verdict(required, n, votes) \in {"pending", "rejected", "approved"}
           /\ Verdict(required, n, votes) = "approved" => n # 0
BY DEF Verdict

LEMMA ReviewStatus ==
    ASSUME NEW r, NEW ok
    PROVE  /\ Review(r, ok) \in {"pending", "rejected", "approved"}
           /\ Review(r, ok) = "approved" => r.head # 0
BY VerdictStatus DEF Review

\* Issues and the default branch are not contribution branches.
LEMMA Apart ==
    /\ \A b \in {"main"} \cup Issues : b \in Branches /\ b \notin Contribs
    /\ \A c \in Contribs : c \in Branches /\ IssueOf(c) \in Issues
    /\ \A b \in {"main"} \cup Issues : BaseOf(b) \in {"main"} \cup Issues
BY ContributionAssumption DEF Branches, Issues, IssueOf, BaseOf

LEMMA Empty == Cardinality({}) = 0
BY FS_EmptySet

-----------------------------------------------------------------------------
LEMMA InitInv == Init => Inv
<1> SUFFICES ASSUME Init PROVE Inv
  OBVIOUS
<1> USE ContributionAssumption
<1>1. \A c \in Contribs : Coming(c) = {}
  BY DEF Init, Coming, At, Idle
<1>2. Room
  <2>1. pushes = [c \in Contribs |-> 0]
    BY DEF Init
  <2>2. MaxPushes \in Nat
    OBVIOUS
  <2> QED BY ONLY <1>1, <2>1, <2>2, Empty DEF Room
<1>3. Requests
  BY DEF Init, Requests, ReqOK, Sound, Request, Idle, Step, Status, Branches, Code, ContribSteps
<1>4. Counters /\ States /\ Pushed /\ Reviewed
  BY DEF Init, Counters, States, Pushed, Reviewed, Issues, IssueState, Branches, Code
<1>5. Tips /\ Rows /\ Votes
  BY DEF Init, Tips, Rows, Votes, Code, Row, Status, Vote, NoVote
<1> QED BY <1>2, <1>3, <1>4, <1>5 DEF Inv

-----------------------------------------------------------------------------
\* Nothing is forgotten of what was pushed and of what was approved.
Grown == /\ \A d \in Contribs : pushes[d] <= pushes'[d]
         /\ passed \subseteq passed' /\ blind \subseteq blind' /\ astray \subseteq astray'

LEMMA Grows == ASSUME Inv, [Next]_vars PROVE Grown
<1> USE ContributionAssumption DEF Inv, Pushed, Grown, Strays
<1>1. ASSUME NEW p \in Slots, NEW c \in Contribs, PushIsAuthorized(p, c) PROVE Grown
  BY <1>1 DEF PushIsAuthorized
<1>2. ASSUME NEW p \in Slots, NEW c \in Contribs, PushDeletesRef(p, c) PROVE Grown
  BY <1>2 DEF PushDeletesRef
<1>3. ASSUME NEW p \in Slots, NEW c \in Contribs, VoteLoads(p, c) PROVE Grown
  BY <1>3 DEF VoteLoads, Load
<1>4. ASSUME NEW p \in Slots, NEW c \in Contribs, ApplyLoads(p, c) PROVE Grown
  BY <1>4 DEF ApplyLoads, Load
<1>5. ASSUME NEW p \in Slots, NEW c \in Contribs, CloseLoads(p, c) PROVE Grown
  BY <1>5 DEF CloseLoads, Load
<1>6. ASSUME NEW p \in Slots, NEW i \in Issues, MergeLoads(p, i) PROVE Grown
  BY <1>6 DEF MergeLoads
<1>7. ASSUME NEW p \in Slots, NEW i \in Issues, CloseIssueLoads(p, i) PROVE Grown
  BY <1>7 DEF CloseIssueLoads
<1>8. ASSUME NEW p \in Slots, CreateLoads(p) PROVE Grown
  BY <1>8 DEF CreateLoads
<1>9. ASSUME NEW p \in Slots, PushReceives(p) PROVE Grown
  BY <1>9 DEF PushReceives, PushMovesRef
<1>10. ASSUME NEW p \in Slots, SyncDeletion(p) PROVE Grown
  BY <1>10 DEF SyncDeletion
<1>11. ASSUME NEW p \in Slots, SyncReadsIssue(p) PROVE Grown
  BY <1>11 DEF SyncReadsIssue
<1>12. ASSUME NEW p \in Slots, SyncUpserts(p) PROVE Grown
  BY <1>12 DEF SyncUpserts
<1>13. ASSUME NEW p \in Slots, ComputeReads(p) PROVE Grown
  BY <1>13 DEF ComputeReads
<1>14. ASSUME NEW p \in Slots, ComputeWrites(p) PROVE Grown
  BY <1>14 DEF ComputeWrites
<1>15. ASSUME NEW p \in Slots, NEW v \in Voters, VoteIsRecorded(p, v) PROVE Grown
  BY <1>15 DEF VoteIsRecorded
<1>16. ASSUME NEW p \in Slots, ApplyReviews(p) PROVE Grown
  BY <1>16 DEF ApplyReviews
<1>17. ASSUME NEW p \in Slots, ApplyMerges(p) PROVE Grown
  BY <1>17 DEF ApplyMerges, MergeReads
<1>18. ASSUME NEW p \in Slots, ApplySetsRef(p) PROVE Grown
  BY <1>18 DEF ApplySetsRef, MergeSetsRef
<1>19. ASSUME NEW p \in Slots, ApplyMarks(p) PROVE Grown
  BY <1>19 DEF ApplyMarks
<1>20. ASSUME NEW p \in Slots, CloseWrites(p) PROVE Grown
  BY <1>20 DEF CloseWrites
<1>21. ASSUME NEW p \in Slots, MergeGate(p) PROVE Grown
  BY <1>21 DEF MergeGate
<1>22. ASSUME NEW p \in Slots, MergeAhead(p) PROVE Grown
  BY <1>22 DEF MergeAhead
<1>23. ASSUME NEW p \in Slots, MergeSubs(p) PROVE Grown
  BY <1>23 DEF MergeSubs, SubIssueGate, OpenDescendants
<1>24. ASSUME NEW p \in Slots, MergeMerges(p) PROVE Grown
  BY <1>24 DEF MergeMerges, MergeReads
<1>25. ASSUME NEW p \in Slots, MergeMovesBase(p) PROVE Grown
  BY <1>25 DEF MergeMovesBase, MergeSetsRef
<1>26. ASSUME NEW p \in Slots, MergeSetsState(p) PROVE Grown
  BY <1>26 DEF MergeSetsState
<1>27. ASSUME NEW p \in Slots, MergeDeletesBranch(p) PROVE Grown
  BY <1>27 DEF MergeDeletesBranch
<1>28. ASSUME NEW p \in Slots, NEW c \in Contribs, CleanDeletes(p, c) PROVE Grown
  BY <1>28 DEF CleanDeletes
<1>29. ASSUME NEW p \in Slots, CleanReads(p) PROVE Grown
  BY <1>29 DEF CleanReads
<1>30. ASSUME NEW p \in Slots, CleanCloses(p) PROVE Grown
  BY <1>30 DEF CleanCloses
<1>31. ASSUME NEW p \in Slots, CleanEnds(p) PROVE Grown
  BY <1>31 DEF CleanEnds
<1>32. ASSUME NEW p \in Slots, CloseIssueSubs(p) PROVE Grown
  BY <1>32 DEF CloseIssueSubs, SubIssueGate, OpenDescendants
<1>33. ASSUME NEW p \in Slots, CloseIssueSetsState(p) PROVE Grown
  BY <1>33 DEF CloseIssueSetsState
<1>34. ASSUME NEW p \in Slots, CreateInserts(p) PROVE Grown
  BY <1>34 DEF CreateInserts
<1>35. ASSUME NEW p \in Slots, CreateMakesBranch(p) PROVE Grown
  BY <1>35 DEF CreateMakesBranch
<1>36. ASSUME NEW p \in Slots, EndsHalfWay(p) PROVE Grown
  BY <1>36 DEF EndsHalfWay
<1>37. CASE UNCHANGED vars
  BY <1>37 DEF vars
<1>38. CASE ConfigChanges
  BY <1>38 DEF ConfigChanges
<1> QED BY <1>1, <1>2, <1>3, <1>4, <1>5, <1>6, <1>7, <1>8, <1>9, <1>10, <1>11, <1>12,
          <1>13, <1>14, <1>15, <1>16, <1>17, <1>18, <1>19, <1>20, <1>21, <1>22, <1>23, <1>24,
          <1>25, <1>26, <1>27, <1>28, <1>29, <1>30, <1>31, <1>32, <1>33, <1>34, <1>35, <1>36,
          <1>37, <1>38
       DEF Next, Arrives, OnContribution, OnIssue

-----------------------------------------------------------------------------
\* What is known of a request under way.
LEMMA Known ==
    ASSUME Inv, NEW p \in Slots
    PROVE  /\ req[p] \in Request /\ req[p].on \in Branches /\ req[p].head \in 0..MaxPushes
           /\ req[p].status \in Status /\ req[p].code \in Code /\ req[p].paths \in BOOLEAN
           /\ req[p].at \in ContribSteps => /\ req[p].on \in Contribs
                                            /\ IssueOf(req[p].on) \in Issues
                                            /\ req[p].head <= pushes[req[p].on]
           /\ req[p].at \notin ContribSteps => req[p].on \in {"main"} \cup Issues
<1>1. ReqOK(req[p])
  BY DEF Inv, Requests
<1>2. req[p] \in Request
  BY <1>1 DEF ReqOK, Sound
<1>3. /\ req[p].on \in Branches /\ req[p].head \in 0..MaxPushes /\ req[p].paths \in BOOLEAN
      /\ req[p].status \in Status /\ req[p].code \in Code
  BY <1>2 DEF Request
<1> QED BY <1>1, <1>2, <1>3, Apart DEF ReqOK, Sound

\* Counters and issue states keep their types.
LEMMA DataStep == ASSUME Inv, [Next]_vars PROVE Counters' /\ States'
<1> USE ContributionAssumption, Apart
    DEF Inv, Counters, States, Begin, Continue, GoTo, Done, Reads
<1>1. ASSUME NEW p \in Slots, NEW c \in Contribs, PushIsAuthorized(p, c) PROVE Counters' /\ States'
  BY <1>1 DEF PushIsAuthorized
<1>2. ASSUME NEW p \in Slots, NEW c \in Contribs, PushDeletesRef(p, c) PROVE Counters' /\ States'
  BY <1>2 DEF PushDeletesRef
<1>3. ASSUME NEW p \in Slots, NEW c \in Contribs, VoteLoads(p, c) PROVE Counters' /\ States'
  BY <1>3 DEF VoteLoads, Load
<1>4. ASSUME NEW p \in Slots, NEW c \in Contribs, ApplyLoads(p, c) PROVE Counters' /\ States'
  BY <1>4 DEF ApplyLoads, Load
<1>5. ASSUME NEW p \in Slots, NEW c \in Contribs, CloseLoads(p, c) PROVE Counters' /\ States'
  BY <1>5 DEF CloseLoads, Load
<1>6. ASSUME NEW p \in Slots, NEW i \in Issues, MergeLoads(p, i) PROVE Counters' /\ States'
  BY <1>6 DEF MergeLoads
<1>7. ASSUME NEW p \in Slots, NEW i \in Issues, CloseIssueLoads(p, i) PROVE Counters' /\ States'
  BY <1>7 DEF CloseIssueLoads
<1>8. ASSUME NEW p \in Slots, CreateLoads(p) PROVE Counters' /\ States'
  BY <1>8 DEF CreateLoads
<1>9. ASSUME NEW p \in Slots, PushReceives(p) PROVE Counters' /\ States'
  BY <1>9, Known DEF PushReceives, PushMovesRef, At, ContribSteps
<1>10. ASSUME NEW p \in Slots, SyncDeletion(p) PROVE Counters' /\ States'
  BY <1>10 DEF SyncDeletion
<1>11. ASSUME NEW p \in Slots, SyncReadsIssue(p) PROVE Counters' /\ States'
  BY <1>11 DEF SyncReadsIssue
<1>12. ASSUME NEW p \in Slots, SyncUpserts(p) PROVE Counters' /\ States'
  BY <1>12 DEF SyncUpserts
<1>13. ASSUME NEW p \in Slots, ComputeReads(p) PROVE Counters' /\ States'
  BY <1>13 DEF ComputeReads
<1>14. ASSUME NEW p \in Slots, ComputeWrites(p) PROVE Counters' /\ States'
  BY <1>14 DEF ComputeWrites
<1>15. ASSUME NEW p \in Slots, NEW v \in Voters, VoteIsRecorded(p, v) PROVE Counters' /\ States'
  BY <1>15 DEF VoteIsRecorded
<1>16. ASSUME NEW p \in Slots, ApplyReviews(p) PROVE Counters' /\ States'
  BY <1>16 DEF ApplyReviews
<1>17. ASSUME NEW p \in Slots, ApplyMerges(p) PROVE Counters' /\ States'
  BY <1>17 DEF ApplyMerges, MergeReads
<1>18. ASSUME NEW p \in Slots, ApplySetsRef(p) PROVE Counters' /\ States'
  BY <1>18, Known DEF ApplySetsRef, MergeSetsRef, At, ContribSteps
<1>19. ASSUME NEW p \in Slots, ApplyMarks(p) PROVE Counters' /\ States'
  BY <1>19 DEF ApplyMarks
<1>20. ASSUME NEW p \in Slots, CloseWrites(p) PROVE Counters' /\ States'
  BY <1>20 DEF CloseWrites
<1>21. ASSUME NEW p \in Slots, MergeGate(p) PROVE Counters' /\ States'
  BY <1>21 DEF MergeGate
<1>22. ASSUME NEW p \in Slots, MergeAhead(p) PROVE Counters' /\ States'
  BY <1>22 DEF MergeAhead
<1>23. ASSUME NEW p \in Slots, MergeSubs(p) PROVE Counters' /\ States'
  BY <1>23 DEF MergeSubs, SubIssueGate
<1>24. ASSUME NEW p \in Slots, MergeMerges(p) PROVE Counters' /\ States'
  BY <1>24 DEF MergeMerges, MergeReads
<1>25. ASSUME NEW p \in Slots, MergeMovesBase(p) PROVE Counters' /\ States'
  BY <1>25, Known DEF MergeMovesBase, MergeSetsRef, At, ContribSteps
<1>26. ASSUME NEW p \in Slots, MergeSetsState(p) PROVE Counters' /\ States'
  BY <1>26 DEF MergeSetsState, IssueState
<1>27. ASSUME NEW p \in Slots, MergeDeletesBranch(p) PROVE Counters' /\ States'
  BY <1>27 DEF MergeDeletesBranch
<1>28. ASSUME NEW p \in Slots, NEW c \in Contribs, CleanDeletes(p, c) PROVE Counters' /\ States'
  BY <1>28 DEF CleanDeletes
<1>29. ASSUME NEW p \in Slots, CleanReads(p) PROVE Counters' /\ States'
  BY <1>29 DEF CleanReads
<1>30. ASSUME NEW p \in Slots, CleanCloses(p) PROVE Counters' /\ States'
  BY <1>30 DEF CleanCloses
<1>31. ASSUME NEW p \in Slots, CleanEnds(p) PROVE Counters' /\ States'
  BY <1>31 DEF CleanEnds
<1>32. ASSUME NEW p \in Slots, CloseIssueSubs(p) PROVE Counters' /\ States'
  BY <1>32 DEF CloseIssueSubs, SubIssueGate
<1>33. ASSUME NEW p \in Slots, CloseIssueSetsState(p) PROVE Counters' /\ States'
  BY <1>33 DEF CloseIssueSetsState, IssueState
<1>34. ASSUME NEW p \in Slots, CreateInserts(p) PROVE Counters' /\ States'
  BY <1>34 DEF CreateInserts, IssueState
<1>35. ASSUME NEW p \in Slots, CreateMakesBranch(p) PROVE Counters' /\ States'
  BY <1>35 DEF CreateMakesBranch, Issues
<1>36. ASSUME NEW p \in Slots, EndsHalfWay(p) PROVE Counters' /\ States'
  BY <1>36 DEF EndsHalfWay
<1>37. CASE UNCHANGED vars
  BY <1>37 DEF vars
<1>38. CASE ConfigChanges
  BY <1>38 DEF ConfigChanges
<1> QED BY <1>1, <1>2, <1>3, <1>4, <1>5, <1>6, <1>7, <1>8, <1>9, <1>10, <1>11, <1>12, <1>13,
          <1>14, <1>15, <1>16, <1>17, <1>18, <1>19, <1>20, <1>21, <1>22, <1>23, <1>24,
          <1>25, <1>26, <1>27, <1>28, <1>29, <1>30, <1>31, <1>32, <1>33, <1>34, <1>35,
          <1>36, <1>37, <1>38
       DEF Next, Arrives, OnContribution, OnIssue

-----------------------------------------------------------------------------
\* Authorized pushes are finitely many, and one more fits.
LEMMA PushFits ==
    ASSUME Inv, NEW p \in Slots, At(p, "push")
    PROVE  /\ req[p].on \in Contribs /\ pushes[req[p].on] + 1 \in 1..MaxPushes
           /\ pushes[req[p].on] \in 0..MaxPushes
<1>1. req[p].on \in Contribs
  BY Known DEF At, ContribSteps
<1> DEFINE C == Coming(req[p].on)
<1>2. IsFiniteSet(C) /\ p \in C
  BY FS_Subset, ContributionAssumption DEF Coming
<1>3. Cardinality(C) \in Nat /\ Cardinality(C) # 0
  <2> HIDE DEF C
  <2> QED BY <1>2, FS_CardinalityType, FS_EmptySet
<1>4. pushes[req[p].on] + Cardinality(C) <= MaxPushes
  BY <1>1 DEF Inv, Room
<1>5. pushes[req[p].on] \in 0..MaxPushes /\ MaxPushes \in Nat
  BY <1>1, ContributionAssumption DEF Inv, Pushed
<1> HIDE DEF C
<1> QED BY <1>1, <1>3, <1>4, <1>5

\* What was pushed, what the review has approved, and the branches.
LEMMA PushedStep == ASSUME Inv, [Next]_vars PROVE Pushed'
<1> USE ContributionAssumption DEF Inv, Pushed, Strays
<1>1. ASSUME NEW p \in Slots, NEW c \in Contribs, PushIsAuthorized(p, c) PROVE Pushed'
  BY <1>1 DEF PushIsAuthorized
<1>2. ASSUME NEW p \in Slots, NEW c \in Contribs, PushDeletesRef(p, c) PROVE Pushed'
  BY <1>2 DEF PushDeletesRef
<1>3. ASSUME NEW p \in Slots, NEW c \in Contribs, VoteLoads(p, c) PROVE Pushed'
  BY <1>3 DEF VoteLoads, Load
<1>4. ASSUME NEW p \in Slots, NEW c \in Contribs, ApplyLoads(p, c) PROVE Pushed'
  BY <1>4 DEF ApplyLoads, Load
<1>5. ASSUME NEW p \in Slots, NEW c \in Contribs, CloseLoads(p, c) PROVE Pushed'
  BY <1>5 DEF CloseLoads, Load
<1>6. ASSUME NEW p \in Slots, NEW i \in Issues, MergeLoads(p, i) PROVE Pushed'
  BY <1>6 DEF MergeLoads
<1>7. ASSUME NEW p \in Slots, NEW i \in Issues, CloseIssueLoads(p, i) PROVE Pushed'
  BY <1>7 DEF CloseIssueLoads
<1>8. ASSUME NEW p \in Slots, CreateLoads(p) PROVE Pushed'
  BY <1>8 DEF CreateLoads
<1>9. ASSUME NEW p \in Slots, PushReceives(p) PROVE Pushed'
  <2>1. PICK c \in Contribs : c = req[p].on
    BY <1>9, PushFits DEF PushReceives
  <2> DEFINE n == pushes[c] + 1
  <2>2. n \in 1..MaxPushes /\ pushes' = [pushes EXCEPT ![c] = n]
    BY <1>9, <2>1, PushFits DEF PushReceives
  <2>3. tip \in [Branches -> Code] /\ <<c, n>> \in Commits /\ IssueOf(c) \in Branches /\ c \in Branches
    BY <2>2, Apart DEF Tips, Commits
  <2>4. content' \in [Commits -> Code]
    <3>1. CASE UNCHANGED content
      BY <3>1
    <3>2. CASE PushMovesRef(p, n)
      <4>0. PICK b \in {{}} \cup {tip[b] : b \in {IssueOf(c)} \cup Contribs} :
                content' = [content EXCEPT ![<<c, n>>] = b \cup {<<c, n>>}]
        BY <2>1, <3>2 DEF PushMovesRef
      <4>1. PICK base \in Code : content' = [content EXCEPT ![<<c, n>>] = base \cup {<<c, n>>}]
        <5>1. \A a \in {IssueOf(c)} \cup Contribs : tip[a] \in Code
          BY <2>3, Apart
        <5>2. b \in Code
          BY <4>0, <5>1 DEF Code
        <5> QED BY <4>0, <5>2
      <4>2. base \cup {<<c, n>>} \in Code
        BY <2>3 DEF Code
      <4> QED BY <4>1, <4>2
    <3> QED BY <1>9, <2>1, <3>1, <3>2 DEF PushReceives
  <2>5. astray' \subseteq Contribs
    BY <1>9, <2>1 DEF PushReceives, PushMovesRef
  <2> QED BY <2>2, <2>4, <2>5
<1>10. ASSUME NEW p \in Slots, SyncDeletion(p) PROVE Pushed'
  BY <1>10 DEF SyncDeletion
<1>11. ASSUME NEW p \in Slots, SyncReadsIssue(p) PROVE Pushed'
  BY <1>11, Known DEF SyncReadsIssue, At, ContribSteps
<1>12. ASSUME NEW p \in Slots, SyncUpserts(p) PROVE Pushed'
  BY <1>12 DEF SyncUpserts, Reads
<1>13. ASSUME NEW p \in Slots, ComputeReads(p) PROVE Pushed'
  BY <1>13 DEF ComputeReads, Reads
<1>14. ASSUME NEW p \in Slots, ComputeWrites(p) PROVE Pushed'
  BY <1>14 DEF ComputeWrites
<1>15. ASSUME NEW p \in Slots, NEW v \in Voters, VoteIsRecorded(p, v) PROVE Pushed'
  BY <1>15 DEF VoteIsRecorded
<1>16. ASSUME NEW p \in Slots, ApplyReviews(p) PROVE Pushed'
  BY <1>16 DEF ApplyReviews, Reads
<1>17. ASSUME NEW p \in Slots, ApplyMerges(p) PROVE Pushed'
  BY <1>17 DEF ApplyMerges, MergeReads
<1>18. ASSUME NEW p \in Slots, ApplySetsRef(p) PROVE Pushed'
  BY <1>18 DEF ApplySetsRef, MergeSetsRef
<1>19. ASSUME NEW p \in Slots, ApplyMarks(p) PROVE Pushed'
  BY <1>19 DEF ApplyMarks
<1>20. ASSUME NEW p \in Slots, CloseWrites(p) PROVE Pushed'
  BY <1>20 DEF CloseWrites
<1>21. ASSUME NEW p \in Slots, MergeGate(p) PROVE Pushed'
  BY <1>21 DEF MergeGate
<1>22. ASSUME NEW p \in Slots, MergeAhead(p) PROVE Pushed'
  BY <1>22 DEF MergeAhead
<1>23. ASSUME NEW p \in Slots, MergeSubs(p) PROVE Pushed'
  BY <1>23 DEF MergeSubs, SubIssueGate
<1>24. ASSUME NEW p \in Slots, MergeMerges(p) PROVE Pushed'
  BY <1>24 DEF MergeMerges, MergeReads
<1>25. ASSUME NEW p \in Slots, MergeMovesBase(p) PROVE Pushed'
  BY <1>25 DEF MergeMovesBase, MergeSetsRef
<1>26. ASSUME NEW p \in Slots, MergeSetsState(p) PROVE Pushed'
  BY <1>26 DEF MergeSetsState
<1>27. ASSUME NEW p \in Slots, MergeDeletesBranch(p) PROVE Pushed'
  BY <1>27 DEF MergeDeletesBranch
<1>28. ASSUME NEW p \in Slots, NEW c \in Contribs, CleanDeletes(p, c) PROVE Pushed'
  BY <1>28 DEF CleanDeletes
<1>29. ASSUME NEW p \in Slots, CleanReads(p) PROVE Pushed'
  BY <1>29 DEF CleanReads
<1>30. ASSUME NEW p \in Slots, CleanCloses(p) PROVE Pushed'
  BY <1>30 DEF CleanCloses
<1>31. ASSUME NEW p \in Slots, CleanEnds(p) PROVE Pushed'
  BY <1>31 DEF CleanEnds
<1>32. ASSUME NEW p \in Slots, CloseIssueSubs(p) PROVE Pushed'
  BY <1>32 DEF CloseIssueSubs, SubIssueGate
<1>33. ASSUME NEW p \in Slots, CloseIssueSetsState(p) PROVE Pushed'
  BY <1>33 DEF CloseIssueSetsState
<1>34. ASSUME NEW p \in Slots, CreateInserts(p) PROVE Pushed'
  BY <1>34 DEF CreateInserts
<1>35. ASSUME NEW p \in Slots, CreateMakesBranch(p) PROVE Pushed'
  BY <1>35 DEF CreateMakesBranch
<1>36. ASSUME NEW p \in Slots, EndsHalfWay(p) PROVE Pushed'
  BY <1>36, Known DEF EndsHalfWay, ContribSteps
<1>37. CASE UNCHANGED vars
  BY <1>37 DEF vars
<1>38. CASE ConfigChanges
  BY <1>38 DEF ConfigChanges
<1> QED BY <1>1, <1>2, <1>3, <1>4, <1>5, <1>6, <1>7, <1>8, <1>9, <1>10, <1>11, <1>12, <1>13,
          <1>14, <1>15, <1>16, <1>17, <1>18, <1>19, <1>20, <1>21, <1>22, <1>23, <1>24,
          <1>25, <1>26, <1>27, <1>28, <1>29, <1>30, <1>31, <1>32, <1>33, <1>34, <1>35,
          <1>36, <1>37, <1>38
       DEF Next, Arrives, OnContribution, OnIssue

LEMMA ReviewedStep == ASSUME Inv, [Next]_vars PROVE Reviewed'
<1> USE ContributionAssumption DEF Inv, Reviewed, Approved
<1>1. ASSUME NEW p \in Slots, NEW c \in Contribs, PushIsAuthorized(p, c) PROVE Reviewed'
  BY <1>1 DEF PushIsAuthorized
<1>2. ASSUME NEW p \in Slots, NEW c \in Contribs, PushDeletesRef(p, c) PROVE Reviewed'
  BY <1>2 DEF PushDeletesRef
<1>3. ASSUME NEW p \in Slots, NEW c \in Contribs, VoteLoads(p, c) PROVE Reviewed'
  BY <1>3 DEF VoteLoads, Load
<1>4. ASSUME NEW p \in Slots, NEW c \in Contribs, ApplyLoads(p, c) PROVE Reviewed'
  BY <1>4 DEF ApplyLoads, Load
<1>5. ASSUME NEW p \in Slots, NEW c \in Contribs, CloseLoads(p, c) PROVE Reviewed'
  BY <1>5 DEF CloseLoads, Load
<1>6. ASSUME NEW p \in Slots, NEW i \in Issues, MergeLoads(p, i) PROVE Reviewed'
  BY <1>6 DEF MergeLoads
<1>7. ASSUME NEW p \in Slots, NEW i \in Issues, CloseIssueLoads(p, i) PROVE Reviewed'
  BY <1>7 DEF CloseIssueLoads
<1>8. ASSUME NEW p \in Slots, CreateLoads(p) PROVE Reviewed'
  BY <1>8 DEF CreateLoads
<1>9. ASSUME NEW p \in Slots, PushReceives(p) PROVE Reviewed'
  BY <1>9 DEF PushReceives, PushMovesRef
<1>10. ASSUME NEW p \in Slots, SyncDeletion(p) PROVE Reviewed'
  BY <1>10 DEF SyncDeletion
<1>11. ASSUME NEW p \in Slots, SyncReadsIssue(p) PROVE Reviewed'
  BY <1>11 DEF SyncReadsIssue
<1>12. ASSUME NEW p \in Slots, SyncUpserts(p) PROVE Reviewed'
  BY <1>12, Known DEF SyncUpserts, At, ContribSteps
<1>13. ASSUME NEW p \in Slots, ComputeReads(p) PROVE Reviewed'
  BY <1>13 DEF ComputeReads, Reads
<1>14. ASSUME NEW p \in Slots, ComputeWrites(p) PROVE Reviewed'
  BY <1>14 DEF ComputeWrites
<1>15. ASSUME NEW p \in Slots, NEW v \in Voters, VoteIsRecorded(p, v) PROVE Reviewed'
  BY <1>15 DEF VoteIsRecorded
<1>16. ASSUME NEW p \in Slots, ApplyReviews(p) PROVE Reviewed'
  BY <1>16, Known DEF ApplyReviews, At, ContribSteps
<1>17. ASSUME NEW p \in Slots, ApplyMerges(p) PROVE Reviewed'
  BY <1>17 DEF ApplyMerges, MergeReads
<1>18. ASSUME NEW p \in Slots, ApplySetsRef(p) PROVE Reviewed'
  BY <1>18 DEF ApplySetsRef, MergeSetsRef
<1>19. ASSUME NEW p \in Slots, ApplyMarks(p) PROVE Reviewed'
  BY <1>19 DEF ApplyMarks
<1>20. ASSUME NEW p \in Slots, CloseWrites(p) PROVE Reviewed'
  BY <1>20 DEF CloseWrites
<1>21. ASSUME NEW p \in Slots, MergeGate(p) PROVE Reviewed'
  BY <1>21 DEF MergeGate
<1>22. ASSUME NEW p \in Slots, MergeAhead(p) PROVE Reviewed'
  BY <1>22 DEF MergeAhead
<1>23. ASSUME NEW p \in Slots, MergeSubs(p) PROVE Reviewed'
  BY <1>23 DEF MergeSubs, SubIssueGate
<1>24. ASSUME NEW p \in Slots, MergeMerges(p) PROVE Reviewed'
  BY <1>24 DEF MergeMerges, MergeReads
<1>25. ASSUME NEW p \in Slots, MergeMovesBase(p) PROVE Reviewed'
  BY <1>25 DEF MergeMovesBase, MergeSetsRef
<1>26. ASSUME NEW p \in Slots, MergeSetsState(p) PROVE Reviewed'
  BY <1>26 DEF MergeSetsState
<1>27. ASSUME NEW p \in Slots, MergeDeletesBranch(p) PROVE Reviewed'
  BY <1>27 DEF MergeDeletesBranch
<1>28. ASSUME NEW p \in Slots, NEW c \in Contribs, CleanDeletes(p, c) PROVE Reviewed'
  BY <1>28 DEF CleanDeletes
<1>29. ASSUME NEW p \in Slots, CleanReads(p) PROVE Reviewed'
  BY <1>29 DEF CleanReads
<1>30. ASSUME NEW p \in Slots, CleanCloses(p) PROVE Reviewed'
  BY <1>30 DEF CleanCloses
<1>31. ASSUME NEW p \in Slots, CleanEnds(p) PROVE Reviewed'
  BY <1>31 DEF CleanEnds
<1>32. ASSUME NEW p \in Slots, CloseIssueSubs(p) PROVE Reviewed'
  BY <1>32 DEF CloseIssueSubs, SubIssueGate
<1>33. ASSUME NEW p \in Slots, CloseIssueSetsState(p) PROVE Reviewed'
  BY <1>33 DEF CloseIssueSetsState
<1>34. ASSUME NEW p \in Slots, CreateInserts(p) PROVE Reviewed'
  BY <1>34 DEF CreateInserts
<1>35. ASSUME NEW p \in Slots, CreateMakesBranch(p) PROVE Reviewed'
  BY <1>35 DEF CreateMakesBranch
<1>36. ASSUME NEW p \in Slots, EndsHalfWay(p) PROVE Reviewed'
  BY <1>36 DEF EndsHalfWay
<1>37. CASE UNCHANGED vars
  BY <1>37 DEF vars
<1>38. CASE ConfigChanges
  BY <1>38 DEF ConfigChanges
<1> QED BY <1>1, <1>2, <1>3, <1>4, <1>5, <1>6, <1>7, <1>8, <1>9, <1>10, <1>11, <1>12, <1>13,
          <1>14, <1>15, <1>16, <1>17, <1>18, <1>19, <1>20, <1>21, <1>22, <1>23, <1>24,
          <1>25, <1>26, <1>27, <1>28, <1>29, <1>30, <1>31, <1>32, <1>33, <1>34, <1>35,
          <1>36, <1>37, <1>38
       DEF Next, Arrives, OnContribution, OnIssue

LEMMA TipsStep == ASSUME Inv, [Next]_vars PROVE Tips'
<1> USE DEF Inv, Tips
<1>1. ASSUME NEW p \in Slots, NEW c \in Contribs, PushIsAuthorized(p, c) PROVE Tips'
  BY <1>1 DEF PushIsAuthorized
<1>2. ASSUME NEW p \in Slots, NEW c \in Contribs, PushDeletesRef(p, c) PROVE Tips'
  BY <1>2 DEF PushDeletesRef, Code
<1>3. ASSUME NEW p \in Slots, NEW c \in Contribs, VoteLoads(p, c) PROVE Tips'
  BY <1>3 DEF VoteLoads, Load
<1>4. ASSUME NEW p \in Slots, NEW c \in Contribs, ApplyLoads(p, c) PROVE Tips'
  BY <1>4 DEF ApplyLoads, Load
<1>5. ASSUME NEW p \in Slots, NEW c \in Contribs, CloseLoads(p, c) PROVE Tips'
  BY <1>5 DEF CloseLoads, Load
<1>6. ASSUME NEW p \in Slots, NEW i \in Issues, MergeLoads(p, i) PROVE Tips'
  BY <1>6 DEF MergeLoads
<1>7. ASSUME NEW p \in Slots, NEW i \in Issues, CloseIssueLoads(p, i) PROVE Tips'
  BY <1>7 DEF CloseIssueLoads
<1>8. ASSUME NEW p \in Slots, CreateLoads(p) PROVE Tips'
  BY <1>8 DEF CreateLoads
<1>9. ASSUME NEW p \in Slots, PushReceives(p) PROVE Tips'
  <2>1. PICK c \in Contribs : c = req[p].on
    BY <1>9, PushFits DEF PushReceives
  <2> DEFINE n == pushes[c] + 1
  <2>2. <<c, n>> \in Commits /\ IssueOf(c) \in Branches /\ c \in Branches
    BY <1>9, <2>1, PushFits, Apart DEF PushReceives, Commits
  <2>3. CASE UNCHANGED tip
    BY <2>3
  <2>4. CASE PushMovesRef(p, n)
    <3>1. PICK base \in Code : tip' = [tip EXCEPT ![c] = base \cup {<<c, n>>}]
      BY <2>1, <2>2, <2>4, Apart DEF PushMovesRef, Code
    <3>2. base \cup {<<c, n>>} \in Code
      BY <2>2 DEF Code
    <3> QED BY <2>2, <3>1, <3>2
  <2> QED BY <1>9, <2>1, <2>3, <2>4 DEF PushReceives
<1>10. ASSUME NEW p \in Slots, SyncDeletion(p) PROVE Tips'
  BY <1>10 DEF SyncDeletion
<1>11. ASSUME NEW p \in Slots, SyncReadsIssue(p) PROVE Tips'
  BY <1>11 DEF SyncReadsIssue
<1>12. ASSUME NEW p \in Slots, SyncUpserts(p) PROVE Tips'
  BY <1>12 DEF SyncUpserts, Reads
<1>13. ASSUME NEW p \in Slots, ComputeReads(p) PROVE Tips'
  BY <1>13 DEF ComputeReads, Reads
<1>14. ASSUME NEW p \in Slots, ComputeWrites(p) PROVE Tips'
  BY <1>14 DEF ComputeWrites
<1>15. ASSUME NEW p \in Slots, NEW v \in Voters, VoteIsRecorded(p, v) PROVE Tips'
  BY <1>15 DEF VoteIsRecorded
<1>16. ASSUME NEW p \in Slots, ApplyReviews(p) PROVE Tips'
  BY <1>16 DEF ApplyReviews, Reads
<1>17. ASSUME NEW p \in Slots, ApplyMerges(p) PROVE Tips'
  BY <1>17 DEF ApplyMerges, MergeReads
<1>18. ASSUME NEW p \in Slots, ApplySetsRef(p) PROVE Tips'
  BY <1>18, Known DEF ApplySetsRef, MergeSetsRef
<1>19. ASSUME NEW p \in Slots, ApplyMarks(p) PROVE Tips'
  BY <1>19 DEF ApplyMarks
<1>20. ASSUME NEW p \in Slots, CloseWrites(p) PROVE Tips'
  BY <1>20 DEF CloseWrites
<1>21. ASSUME NEW p \in Slots, MergeGate(p) PROVE Tips'
  BY <1>21 DEF MergeGate
<1>22. ASSUME NEW p \in Slots, MergeAhead(p) PROVE Tips'
  BY <1>22 DEF MergeAhead
<1>23. ASSUME NEW p \in Slots, MergeSubs(p) PROVE Tips'
  BY <1>23 DEF MergeSubs, SubIssueGate
<1>24. ASSUME NEW p \in Slots, MergeMerges(p) PROVE Tips'
  BY <1>24 DEF MergeMerges, MergeReads
<1>25. ASSUME NEW p \in Slots, MergeMovesBase(p) PROVE Tips'
  BY <1>25, Known DEF MergeMovesBase, MergeSetsRef
<1>26. ASSUME NEW p \in Slots, MergeSetsState(p) PROVE Tips'
  BY <1>26 DEF MergeSetsState
<1>27. ASSUME NEW p \in Slots, MergeDeletesBranch(p) PROVE Tips'
  BY <1>27 DEF MergeDeletesBranch, Code
<1>28. ASSUME NEW p \in Slots, NEW c \in Contribs, CleanDeletes(p, c) PROVE Tips'
  BY <1>28 DEF CleanDeletes, Code
<1>29. ASSUME NEW p \in Slots, CleanReads(p) PROVE Tips'
  BY <1>29 DEF CleanReads
<1>30. ASSUME NEW p \in Slots, CleanCloses(p) PROVE Tips'
  BY <1>30 DEF CleanCloses
<1>31. ASSUME NEW p \in Slots, CleanEnds(p) PROVE Tips'
  BY <1>31 DEF CleanEnds
<1>32. ASSUME NEW p \in Slots, CloseIssueSubs(p) PROVE Tips'
  BY <1>32 DEF CloseIssueSubs, SubIssueGate
<1>33. ASSUME NEW p \in Slots, CloseIssueSetsState(p) PROVE Tips'
  BY <1>33 DEF CloseIssueSetsState
<1>34. ASSUME NEW p \in Slots, CreateInserts(p) PROVE Tips'
  BY <1>34 DEF CreateInserts
<1>35. ASSUME NEW p \in Slots, CreateMakesBranch(p) PROVE Tips'
  BY <1>35, Apart DEF CreateMakesBranch, Issues
<1>36. ASSUME NEW p \in Slots, EndsHalfWay(p) PROVE Tips'
  BY <1>36 DEF EndsHalfWay
<1>37. CASE UNCHANGED vars
  BY <1>37 DEF vars
<1>38. CASE ConfigChanges
  BY <1>38 DEF ConfigChanges
<1> QED BY <1>1, <1>2, <1>3, <1>4, <1>5, <1>6, <1>7, <1>8, <1>9, <1>10, <1>11, <1>12, <1>13,
          <1>14, <1>15, <1>16, <1>17, <1>18, <1>19, <1>20, <1>21, <1>22, <1>23, <1>24,
          <1>25, <1>26, <1>27, <1>28, <1>29, <1>30, <1>31, <1>32, <1>33, <1>34, <1>35,
          <1>36, <1>37, <1>38
       DEF Next, Arrives, OnContribution, OnIssue

\* A row never has a head that was not pushed.
LEMMA RowsStep == ASSUME Inv, [Next]_vars PROVE Rows'
<1>0. row' = row => Rows'
  <2>1. ASSUME NEW c \in Contribs
        PROVE  row[c].head \in Int /\ pushes[c] \in Int /\ pushes'[c] \in Int
    BY PushedStep, ContributionAssumption DEF Inv, Rows, Row, Pushed
  <2> QED BY <2>1, Grows DEF Inv, Rows, Grown
<1>1. ASSUME NEW p \in Slots, NEW c \in Contribs, PushIsAuthorized(p, c) PROVE Rows'
  BY <1>1, <1>0 DEF PushIsAuthorized
<1>2. ASSUME NEW p \in Slots, NEW c \in Contribs, PushDeletesRef(p, c) PROVE Rows'
  BY <1>2, <1>0 DEF PushDeletesRef
<1>3. ASSUME NEW p \in Slots, NEW c \in Contribs, VoteLoads(p, c) PROVE Rows'
  BY <1>3, <1>0 DEF VoteLoads, Load
<1>4. ASSUME NEW p \in Slots, NEW c \in Contribs, ApplyLoads(p, c) PROVE Rows'
  BY <1>4, <1>0 DEF ApplyLoads, Load
<1>5. ASSUME NEW p \in Slots, NEW c \in Contribs, CloseLoads(p, c) PROVE Rows'
  BY <1>5, <1>0 DEF CloseLoads, Load
<1>6. ASSUME NEW p \in Slots, NEW i \in Issues, MergeLoads(p, i) PROVE Rows'
  BY <1>6, <1>0 DEF MergeLoads
<1>7. ASSUME NEW p \in Slots, NEW i \in Issues, CloseIssueLoads(p, i) PROVE Rows'
  BY <1>7, <1>0 DEF CloseIssueLoads
<1>8. ASSUME NEW p \in Slots, CreateLoads(p) PROVE Rows'
  BY <1>8, <1>0 DEF CreateLoads
<1>9. ASSUME NEW p \in Slots, PushReceives(p) PROVE Rows'
  BY <1>9, <1>0 DEF PushReceives, PushMovesRef
<1>10. ASSUME NEW p \in Slots, SyncDeletion(p) PROVE Rows'
  BY <1>10, <1>0 DEF SyncDeletion
<1>11. ASSUME NEW p \in Slots, SyncReadsIssue(p) PROVE Rows'
  BY <1>11, <1>0 DEF SyncReadsIssue
<1>12. ASSUME NEW p \in Slots, SyncUpserts(p) PROVE Rows'
  <2>1. req[p].on \in Contribs /\ row \in [Contribs -> Row] /\ pushes' = pushes
    BY <1>12, Known DEF SyncUpserts, At, ContribSteps, Inv, Rows
  <2>2. \E t \in Status, ok \in BOOLEAN :
            row' = [row EXCEPT ![req[p].on] = [status |-> t, head |-> req[p].head, paths |-> ok]]
    BY <1>12, <2>1 DEF SyncUpserts, Status, Row
  <2>3. req[p].head <= pushes[req[p].on] /\ req[p].head \in 0..MaxPushes
    BY <1>12, Known DEF SyncUpserts, At, ContribSteps
  <2> QED BY <2>1, <2>2, <2>3 DEF Inv, Rows, Row
<1>13. ASSUME NEW p \in Slots, ComputeReads(p) PROVE Rows'
  BY <1>13, <1>0 DEF ComputeReads, Reads
<1>14. ASSUME NEW p \in Slots, ComputeWrites(p) PROVE Rows'
  <2>1. req[p].on \in Contribs /\ pushes' = pushes
    BY <1>14, Known DEF ComputeWrites, At, ContribSteps
  <2>2. row' = [row EXCEPT ![req[p].on].status = req[p].status] /\ req[p].status \in Status
    BY <1>14, Known DEF ComputeWrites, Status
  <2> QED BY <2>1, <2>2 DEF Inv, Rows, Row
<1>15. ASSUME NEW p \in Slots, NEW v \in Voters, VoteIsRecorded(p, v) PROVE Rows'
  BY <1>15, <1>0 DEF VoteIsRecorded
<1>16. ASSUME NEW p \in Slots, ApplyReviews(p) PROVE Rows'
  BY <1>16, <1>0 DEF ApplyReviews, Reads
<1>17. ASSUME NEW p \in Slots, ApplyMerges(p) PROVE Rows'
  BY <1>17, <1>0 DEF ApplyMerges, MergeReads
<1>18. ASSUME NEW p \in Slots, ApplySetsRef(p) PROVE Rows'
  BY <1>18, <1>0 DEF ApplySetsRef, MergeSetsRef
<1>19. ASSUME NEW p \in Slots, ApplyMarks(p) PROVE Rows'
  <2>1. req[p].on \in Contribs /\ pushes' = pushes
    BY <1>19, Known DEF ApplyMarks, At, ContribSteps
  <2>2. row' = [row EXCEPT ![req[p].on].status = "merged"] /\ "merged" \in Status
    BY <1>19, Known DEF ApplyMarks, Status
  <2> QED BY <2>1, <2>2 DEF Inv, Rows, Row
<1>20. ASSUME NEW p \in Slots, CloseWrites(p) PROVE Rows'
  <2>1. req[p].on \in Contribs /\ pushes' = pushes
    BY <1>20, Known DEF CloseWrites, At, ContribSteps
  <2>2. row' = [row EXCEPT ![req[p].on].status = "closed"] /\ "closed" \in Status
    BY <1>20, Known DEF CloseWrites, Status
  <2> QED BY <2>1, <2>2 DEF Inv, Rows, Row
<1>21. ASSUME NEW p \in Slots, MergeGate(p) PROVE Rows'
  BY <1>21, <1>0 DEF MergeGate
<1>22. ASSUME NEW p \in Slots, MergeAhead(p) PROVE Rows'
  BY <1>22, <1>0 DEF MergeAhead
<1>23. ASSUME NEW p \in Slots, MergeSubs(p) PROVE Rows'
  BY <1>23, <1>0 DEF MergeSubs, SubIssueGate
<1>24. ASSUME NEW p \in Slots, MergeMerges(p) PROVE Rows'
  BY <1>24, <1>0 DEF MergeMerges, MergeReads
<1>25. ASSUME NEW p \in Slots, MergeMovesBase(p) PROVE Rows'
  BY <1>25, <1>0 DEF MergeMovesBase, MergeSetsRef
<1>26. ASSUME NEW p \in Slots, MergeSetsState(p) PROVE Rows'
  BY <1>26, <1>0 DEF MergeSetsState
<1>27. ASSUME NEW p \in Slots, MergeDeletesBranch(p) PROVE Rows'
  BY <1>27, <1>0 DEF MergeDeletesBranch
<1>28. ASSUME NEW p \in Slots, NEW c \in Contribs, CleanDeletes(p, c) PROVE Rows'
  BY <1>28, <1>0 DEF CleanDeletes
<1>29. ASSUME NEW p \in Slots, CleanReads(p) PROVE Rows'
  BY <1>29, <1>0 DEF CleanReads
<1>30. ASSUME NEW p \in Slots, CleanCloses(p) PROVE Rows'
  <2>1. req[p].on \in Contribs /\ pushes' = pushes
    BY <1>30, Known DEF CleanCloses, At, ContribSteps
  <2>2. row' = [row EXCEPT ![req[p].on].status = "closed"] /\ "closed" \in Status
    BY <1>30, Known DEF CleanCloses, Status
  <2> QED BY <2>1, <2>2 DEF Inv, Rows, Row
<1>31. ASSUME NEW p \in Slots, CleanEnds(p) PROVE Rows'
  BY <1>31, <1>0 DEF CleanEnds
<1>32. ASSUME NEW p \in Slots, CloseIssueSubs(p) PROVE Rows'
  BY <1>32, <1>0 DEF CloseIssueSubs, SubIssueGate
<1>33. ASSUME NEW p \in Slots, CloseIssueSetsState(p) PROVE Rows'
  BY <1>33, <1>0 DEF CloseIssueSetsState
<1>34. ASSUME NEW p \in Slots, CreateInserts(p) PROVE Rows'
  BY <1>34, <1>0 DEF CreateInserts
<1>35. ASSUME NEW p \in Slots, CreateMakesBranch(p) PROVE Rows'
  BY <1>35, <1>0 DEF CreateMakesBranch
<1>36. ASSUME NEW p \in Slots, EndsHalfWay(p) PROVE Rows'
  BY <1>36, <1>0 DEF EndsHalfWay
<1>37. CASE UNCHANGED vars
  BY <1>37, <1>0 DEF vars
<1>38. CASE ConfigChanges
  BY <1>38, <1>0 DEF ConfigChanges
<1> QED BY <1>1, <1>2, <1>3, <1>4, <1>5, <1>6, <1>7, <1>8, <1>9, <1>10, <1>11, <1>12, <1>13,
          <1>14, <1>15, <1>16, <1>17, <1>18, <1>19, <1>20, <1>21, <1>22, <1>23, <1>24,
          <1>25, <1>26, <1>27, <1>28, <1>29, <1>30, <1>31, <1>32, <1>33, <1>34, <1>35,
          <1>36, <1>37, <1>38
       DEF Next, Arrives, OnContribution, OnIssue

LEMMA VotesStep == ASSUME Inv, [Next]_vars PROVE Votes'
<1> USE DEF Inv, Votes
<1>1. ASSUME NEW p \in Slots, NEW c \in Contribs, PushIsAuthorized(p, c) PROVE Votes'
  BY <1>1 DEF PushIsAuthorized
<1>2. ASSUME NEW p \in Slots, NEW c \in Contribs, PushDeletesRef(p, c) PROVE Votes'
  BY <1>2 DEF PushDeletesRef
<1>3. ASSUME NEW p \in Slots, NEW c \in Contribs, VoteLoads(p, c) PROVE Votes'
  BY <1>3 DEF VoteLoads, Load
<1>4. ASSUME NEW p \in Slots, NEW c \in Contribs, ApplyLoads(p, c) PROVE Votes'
  BY <1>4 DEF ApplyLoads, Load
<1>5. ASSUME NEW p \in Slots, NEW c \in Contribs, CloseLoads(p, c) PROVE Votes'
  BY <1>5 DEF CloseLoads, Load
<1>6. ASSUME NEW p \in Slots, NEW i \in Issues, MergeLoads(p, i) PROVE Votes'
  BY <1>6 DEF MergeLoads
<1>7. ASSUME NEW p \in Slots, NEW i \in Issues, CloseIssueLoads(p, i) PROVE Votes'
  BY <1>7 DEF CloseIssueLoads
<1>8. ASSUME NEW p \in Slots, CreateLoads(p) PROVE Votes'
  BY <1>8 DEF CreateLoads
<1>9. ASSUME NEW p \in Slots, PushReceives(p) PROVE Votes'
  BY <1>9 DEF PushReceives, PushMovesRef
<1>10. ASSUME NEW p \in Slots, SyncDeletion(p) PROVE Votes'
  BY <1>10 DEF SyncDeletion
<1>11. ASSUME NEW p \in Slots, SyncReadsIssue(p) PROVE Votes'
  BY <1>11 DEF SyncReadsIssue
<1>12. ASSUME NEW p \in Slots, SyncUpserts(p) PROVE Votes'
  BY <1>12 DEF SyncUpserts, Reads
<1>13. ASSUME NEW p \in Slots, ComputeReads(p) PROVE Votes'
  BY <1>13 DEF ComputeReads, Reads
<1>14. ASSUME NEW p \in Slots, ComputeWrites(p) PROVE Votes'
  BY <1>14 DEF ComputeWrites
<1>15. ASSUME NEW p \in Slots, NEW v \in Voters, VoteIsRecorded(p, v) PROVE Votes'
  <2>1. req[p].on \in Contribs /\ req[p].head \in 0..MaxPushes
    BY <1>15, Known DEF VoteIsRecorded, At, ContribSteps
  <2>2. PICK x \in {"approve", "reject"} :
            vote' = [vote EXCEPT ![req[p].on][v] = [value |-> x, head |-> req[p].head]]
    BY <1>15 DEF VoteIsRecorded
  <2> QED BY <2>1, <2>2 DEF Vote
<1>16. ASSUME NEW p \in Slots, ApplyReviews(p) PROVE Votes'
  BY <1>16 DEF ApplyReviews, Reads
<1>17. ASSUME NEW p \in Slots, ApplyMerges(p) PROVE Votes'
  BY <1>17 DEF ApplyMerges, MergeReads
<1>18. ASSUME NEW p \in Slots, ApplySetsRef(p) PROVE Votes'
  BY <1>18 DEF ApplySetsRef, MergeSetsRef
<1>19. ASSUME NEW p \in Slots, ApplyMarks(p) PROVE Votes'
  BY <1>19 DEF ApplyMarks
<1>20. ASSUME NEW p \in Slots, CloseWrites(p) PROVE Votes'
  BY <1>20 DEF CloseWrites
<1>21. ASSUME NEW p \in Slots, MergeGate(p) PROVE Votes'
  BY <1>21 DEF MergeGate
<1>22. ASSUME NEW p \in Slots, MergeAhead(p) PROVE Votes'
  BY <1>22 DEF MergeAhead
<1>23. ASSUME NEW p \in Slots, MergeSubs(p) PROVE Votes'
  BY <1>23 DEF MergeSubs, SubIssueGate
<1>24. ASSUME NEW p \in Slots, MergeMerges(p) PROVE Votes'
  BY <1>24 DEF MergeMerges, MergeReads
<1>25. ASSUME NEW p \in Slots, MergeMovesBase(p) PROVE Votes'
  BY <1>25 DEF MergeMovesBase, MergeSetsRef
<1>26. ASSUME NEW p \in Slots, MergeSetsState(p) PROVE Votes'
  BY <1>26 DEF MergeSetsState
<1>27. ASSUME NEW p \in Slots, MergeDeletesBranch(p) PROVE Votes'
  BY <1>27 DEF MergeDeletesBranch
<1>28. ASSUME NEW p \in Slots, NEW c \in Contribs, CleanDeletes(p, c) PROVE Votes'
  BY <1>28 DEF CleanDeletes
<1>29. ASSUME NEW p \in Slots, CleanReads(p) PROVE Votes'
  BY <1>29 DEF CleanReads
<1>30. ASSUME NEW p \in Slots, CleanCloses(p) PROVE Votes'
  BY <1>30 DEF CleanCloses
<1>31. ASSUME NEW p \in Slots, CleanEnds(p) PROVE Votes'
  BY <1>31 DEF CleanEnds
<1>32. ASSUME NEW p \in Slots, CloseIssueSubs(p) PROVE Votes'
  BY <1>32 DEF CloseIssueSubs, SubIssueGate
<1>33. ASSUME NEW p \in Slots, CloseIssueSetsState(p) PROVE Votes'
  BY <1>33 DEF CloseIssueSetsState
<1>34. ASSUME NEW p \in Slots, CreateInserts(p) PROVE Votes'
  BY <1>34 DEF CreateInserts
<1>35. ASSUME NEW p \in Slots, CreateMakesBranch(p) PROVE Votes'
  BY <1>35 DEF CreateMakesBranch
<1>36. ASSUME NEW p \in Slots, EndsHalfWay(p) PROVE Votes'
  BY <1>36 DEF EndsHalfWay
<1>37. CASE UNCHANGED vars
  BY <1>37 DEF vars
<1>38. CASE ConfigChanges
  BY <1>38 DEF ConfigChanges
<1> QED BY <1>1, <1>2, <1>3, <1>4, <1>5, <1>6, <1>7, <1>8, <1>9, <1>10, <1>11, <1>12, <1>13,
          <1>14, <1>15, <1>16, <1>17, <1>18, <1>19, <1>20, <1>21, <1>22, <1>23, <1>24,
          <1>25, <1>26, <1>27, <1>28, <1>29, <1>30, <1>31, <1>32, <1>33, <1>34, <1>35,
          <1>36, <1>37, <1>38
       DEF Next, Arrives, OnContribution, OnIssue

-----------------------------------------------------------------------------
\* A request that is sound stays so while others push and vote.
LEMMA SoundStays ==
    ASSUME Inv, [Next]_vars, NEW q \in Slots PROVE Sound(req[q], pushes')
<1>1. Sound(req[q], pushes) /\ req[q].head \in 0..MaxPushes
  BY Known DEF Inv, Requests, ReqOK
<1>2. \A c \in Contribs : pushes[c] \in Nat /\ pushes'[c] \in Nat /\ pushes[c] <= pushes'[c]
  BY PushedStep, Grows, ContributionAssumption DEF Inv, Pushed, Grown
<1> QED BY <1>1, <1>2, ContributionAssumption DEF Sound

LEMMA RequestsKept == ASSUME Inv, [Next]_vars, req' = req PROVE Requests'
BY SoundStays DEF Inv, Requests, ReqOK

\* A slot that gets a sound request.
LEMMA Continued ==
    ASSUME Inv, [Next]_vars, NEW p \in Slots, NEW r, Sound(r, pushes'),
           Begin(p, r) \/ Continue(p, r)
    PROVE  Requests'
<1>1. req' = [req EXCEPT ![p] = r] /\ req \in [Slots -> Request] /\ r \in Request
  BY DEF Begin, Continue, Inv, Requests, Sound
<1>2. ASSUME NEW q \in Slots PROVE Sound(req'[q], pushes')
  BY <1>1, SoundStays
<1> QED BY <1>1, <1>2 DEF Requests, ReqOK

LEMMA IsDone == ASSUME Inv, [Next]_vars, NEW p \in Slots, Done(p) PROVE Requests'
<1>1. Sound(Idle, pushes')
  BY Apart, ContributionAssumption
     DEF Sound, Idle, Request, Step, Status, Code, ContribSteps
<1> QED BY <1>1, Continued DEF Done

\* A fresh request, with what it has read of a row.
LEMMA Fresh ==
    ASSUME NEW s \in Step, NEW b \in Branches, NEW h \in 0..MaxPushes,
           NEW t \in Status, NEW o \in BOOLEAN,
           IF s \in ContribSteps THEN b \in Contribs /\ h <= pushes'[b]
                                 ELSE b \in {"main"} \cup Issues
    PROVE  /\ Sound([at |-> s, on |-> b, head |-> h, status |-> t, paths |-> o, code |-> {}], pushes')
           /\ h = 0 => Sound(AtStep(s, b), pushes')
           /\ Sound([AtStep(s, b) EXCEPT !.head = h], pushes')
<1>1. ASSUME NEW u \in Status, NEW x \in BOOLEAN
      PROVE  Sound([at |-> s, on |-> b, head |-> h, status |-> u, paths |-> x, code |-> {}], pushes')
  BY DEF Sound, Request, Code
<1>2. AtStep(s, b) = [at |-> s, on |-> b, head |-> 0, status |-> "none", paths |-> TRUE, code |-> {}]
  <2>1. Idle = [at |-> "idle", on |-> "main", head |-> 0, status |-> "none", paths |-> TRUE, code |-> {}]
    BY DEF Idle
  <2>2. AtStep(s, b) = [Idle EXCEPT !.at = s, !.on = b]
    BY DEF AtStep
  <2> QED BY <2>1, <2>2
<1>4. "none" \in Status /\ 0 \in 0..MaxPushes
  BY ContributionAssumption DEF Status
<1>5. Sound([AtStep(s, b) EXCEPT !.head = h], pushes')
  <2> DEFINE z == AtStep(s, b)
             r == [z EXCEPT !.head = h]
  <2>1. z \in Request /\ z.at = s /\ z.on = b
    BY <1>2, <1>4 DEF Request, Code
  <2> HIDE DEF z
  <2>2. r \in Request /\ r.at = s /\ r.on = b /\ r.head = h
    BY <2>1 DEF Request
  <2> HIDE DEF r
  <2>3. Sound(r, pushes')
    BY <2>2 DEF Sound
  <2> QED BY <2>3 DEF r, z
<1>6. ASSUME h = 0 PROVE Sound(AtStep(s, b), pushes')
  BY <1>1, <1>2, <1>4, <1>6
<1> QED BY <1>1, <1>5, <1>6

LEMMA AtBranch ==
    ASSUME Inv, [Next]_vars, NEW s \in Step, NEW b \in Branches,
           IF s \in ContribSteps THEN b \in Contribs ELSE b \in {"main"} \cup Issues
    PROVE  Sound(AtStep(s, b), pushes')
<1>1. s \in ContribSteps => pushes'[b] \in 0..MaxPushes
  BY PushedStep DEF Pushed
<1>2. 0 \in 0..MaxPushes /\ "none" \in Status /\ MaxPushes \in Nat
  BY ContributionAssumption DEF Status
<1>3. s \in ContribSteps => 0 <= pushes'[b]
  BY <1>1, <1>2
<1> QED BY <1>2, <1>3, Fresh

\* A request that goes on about the same branch and head.
LEMMA Onward ==
    ASSUME Inv, [Next]_vars, NEW p \in Slots, NEW s \in Step, s \in ContribSteps <=> req[p].at \in ContribSteps
    PROVE  /\ Sound([req[p] EXCEPT !.at = s], pushes')
           /\ \A t \in Status : Sound([req[p] EXCEPT !.at = s, !.status = t], pushes')
           /\ \A t \in Status, o \in BOOLEAN :
                  Sound([req[p] EXCEPT !.at = s, !.status = t, !.paths = o], pushes')
           /\ \A k \in Code : Sound([req[p] EXCEPT !.at = s, !.code = k], pushes')
<1>1. Sound(req[p], pushes')
  BY SoundStays
<1>2. ASSUME NEW r \in Request, r.at = s, r.on = req[p].on, r.head = req[p].head
      PROVE  Sound(r, pushes')
  BY <1>1, <1>2 DEF Sound
<1>3. [req[p] EXCEPT !.at = s] \in Request
  BY Known DEF Request
<1>4. \A t \in Status : [req[p] EXCEPT !.at = s, !.status = t] \in Request
  BY Known DEF Request
<1>5. \A t \in Status, o \in BOOLEAN : [req[p] EXCEPT !.at = s, !.status = t, !.paths = o] \in Request
  BY Known DEF Request
<1>6. \A k \in Code : [req[p] EXCEPT !.at = s, !.code = k] \in Request
  BY Known DEF Request
<1>7. Sound([req[p] EXCEPT !.at = s], pushes')
  BY <1>2, <1>3, Known DEF Request
<1>8. \A t \in Status : Sound([req[p] EXCEPT !.at = s, !.status = t], pushes')
  BY <1>2, <1>4, Known DEF Request
<1>9. \A t \in Status, o \in BOOLEAN : Sound([req[p] EXCEPT !.at = s, !.status = t, !.paths = o], pushes')
  BY <1>2, <1>5, Known DEF Request
<1>10. \A k \in Code : Sound([req[p] EXCEPT !.at = s, !.code = k], pushes')
  BY <1>2, <1>6, Known DEF Request
<1> QED BY <1>7, <1>8, <1>9, <1>10

LEMMA Going ==
    ASSUME Inv, [Next]_vars, NEW p \in Slots, NEW s \in Step,
           s \in ContribSteps <=> req[p].at \in ContribSteps, GoTo(p, s)
    PROVE  Requests'
BY Onward, Continued DEF GoTo

-----------------------------------------------------------------------------
\* Every request goes on with what its next step needs.
LEMMA RequestsStep == ASSUME Inv, [Next]_vars PROVE Requests'
<1>1. ASSUME NEW p \in Slots, NEW c \in Contribs, PushIsAuthorized(p, c) PROVE Requests'
  <2>1. c \in Branches /\ c \in Contribs
    BY Apart DEF Issues
  <2>2. Sound(AtStep("push", c), pushes')
    BY <2>1, AtBranch DEF Step, ContribSteps
  <2> QED BY <1>1, <2>2, Continued DEF PushIsAuthorized
<1>2. ASSUME NEW p \in Slots, NEW c \in Contribs, PushDeletesRef(p, c) PROVE Requests'
  <2>1. c \in Branches /\ c \in Contribs
    BY Apart DEF Issues
  <2>2. Sound(AtStep("delete", c), pushes')
    BY <2>1, AtBranch DEF Step, ContribSteps
  <2> QED BY <1>2, <2>2, Continued DEF PushDeletesRef
<1>3. ASSUME NEW p \in Slots, NEW c \in Contribs, VoteLoads(p, c) PROVE Requests'
  <2>1. /\ c \in Branches /\ row[c].head \in 0..MaxPushes /\ row[c].status \in Status
        /\ row[c].paths \in BOOLEAN /\ row[c].head <= pushes'[c]
    BY <1>3, Apart DEF VoteLoads, Inv, Rows, Row
  <2>2. Sound([at |-> "vote", on |-> c, head |-> row[c].head, status |-> row[c].status,
               paths |-> row[c].paths, code |-> {}], pushes')
    BY <2>1, Fresh DEF Step, ContribSteps
  <2> QED BY <1>3, <2>2, Continued DEF VoteLoads, Load
<1>4. ASSUME NEW p \in Slots, NEW c \in Contribs, ApplyLoads(p, c) PROVE Requests'
  <2>1. /\ c \in Branches /\ row[c].head \in 0..MaxPushes /\ row[c].status \in Status
        /\ row[c].paths \in BOOLEAN /\ row[c].head <= pushes'[c]
    BY <1>4, Apart DEF ApplyLoads, Inv, Rows, Row
  <2>2. Sound([at |-> "review", on |-> c, head |-> row[c].head, status |-> row[c].status,
               paths |-> row[c].paths, code |-> {}], pushes')
    BY <2>1, Fresh DEF Step, ContribSteps
  <2> QED BY <1>4, <2>2, Continued DEF ApplyLoads, Load
<1>5. ASSUME NEW p \in Slots, NEW c \in Contribs, CloseLoads(p, c) PROVE Requests'
  <2>1. /\ c \in Branches /\ row[c].head \in 0..MaxPushes /\ row[c].status \in Status
        /\ row[c].paths \in BOOLEAN /\ row[c].head <= pushes'[c]
    BY <1>5, Apart DEF CloseLoads, Inv, Rows, Row
  <2>2. Sound([at |-> "close", on |-> c, head |-> row[c].head, status |-> row[c].status,
               paths |-> row[c].paths, code |-> {}], pushes')
    BY <2>1, Fresh DEF Step, ContribSteps
  <2> QED BY <1>5, <2>2, Continued DEF CloseLoads, Load
<1>6. ASSUME NEW p \in Slots, NEW i \in Issues, MergeLoads(p, i) PROVE Requests'
  <2>1. i \in Branches /\ i \in {"main"} \cup Issues
    BY Apart DEF Issues
  <2>2. Sound(AtStep("mergeGate", i), pushes')
    BY <2>1, AtBranch DEF Step, ContribSteps
  <2> QED BY <1>6, <2>2, Continued DEF MergeLoads
<1>7. ASSUME NEW p \in Slots, NEW i \in Issues, CloseIssueLoads(p, i) PROVE Requests'
  <2>1. i \in Branches /\ i \in {"main"} \cup Issues
    BY Apart DEF Issues
  <2>2. Sound(AtStep("closeSubs", i), pushes')
    BY <2>1, AtBranch DEF Step, ContribSteps
  <2> QED BY <1>7, <2>2, Continued DEF CloseIssueLoads
<1>8. ASSUME NEW p \in Slots, CreateLoads(p) PROVE Requests'
  <2>1. "sub" \in Branches /\ "sub" \in {"main"} \cup Issues
    BY Apart DEF Issues
  <2>2. Sound(AtStep("create", "sub"), pushes')
    BY <2>1, AtBranch DEF Step, ContribSteps
  <2> QED BY <1>8, <2>2, Continued DEF CreateLoads
<1>9. ASSUME NEW p \in Slots, PushReceives(p) PROVE Requests'
  <2> DEFINE c == req[p].on
             n == pushes[c] + 1
  <2>1. c \in Contribs /\ c \in Branches /\ n \in 0..MaxPushes /\ pushes' = [pushes EXCEPT ![c] = n]
    BY <1>9, PushFits, Apart DEF PushReceives
  <2>2. n <= pushes'[c]
    BY <2>1 DEF Inv, Pushed
  <2>3. Sound([AtStep("sync", c) EXCEPT !.head = n], pushes')
    <3> HIDE DEF c, n
    <3> QED BY <2>1, <2>2, Fresh DEF Step, ContribSteps, Status
  <2> QED BY <1>9, <2>3, Continued DEF PushReceives
<1>10. ASSUME NEW p \in Slots, SyncDeletion(p) PROVE Requests'
  BY <1>10, IsDone, Going DEF SyncDeletion, At, Step, ContribSteps
<1>11. ASSUME NEW p \in Slots, SyncReadsIssue(p) PROVE Requests'
  BY <1>11, IsDone, Going DEF SyncReadsIssue, At, Step, ContribSteps
<1>12. ASSUME NEW p \in Slots, SyncUpserts(p) PROVE Requests'
  <2> DEFINE t == IF row[req[p].on].status = "none" THEN "pending" ELSE row[req[p].on].status
  <2>1. req[p].on \in Contribs /\ req[p].at = "upsert"
    BY <1>12, Known DEF SyncUpserts, At, ContribSteps
  <2>2. t \in Status
    BY <2>1 DEF Inv, Rows, Row, Status
  <2>3. PICK ok \in BOOLEAN : Continue(p, [req[p] EXCEPT !.at = "compute", !.status = t, !.paths = ok])
    BY <1>12 DEF SyncUpserts
  <2> HIDE DEF t
  <2>4. Sound([req[p] EXCEPT !.at = "compute", !.status = t, !.paths = ok], pushes')
    BY <2>1, <2>2, Onward DEF Step, ContribSteps
  <2> QED BY <2>3, <2>4, Continued
<1>13. ASSUME NEW p \in Slots, ComputeReads(p) PROVE Requests'
  <2>1. PICK ok \in BOOLEAN :
            \/ Done(p)
            \/ Continue(p, [req[p] EXCEPT !.at = "setStatus", !.status = Review(req[p], ok)])
    BY <1>13 DEF ComputeReads
  <2>2. req[p].at = "compute" /\ Review(req[p], ok) \in Status
    BY <1>13, ReviewStatus DEF ComputeReads, At, Status
  <2>3. Sound([req[p] EXCEPT !.at = "setStatus", !.status = Review(req[p], ok)], pushes')
    BY <2>2, Onward DEF Step, ContribSteps
  <2> QED BY <2>1, <2>3, Continued, IsDone
<1>14. ASSUME NEW p \in Slots, ComputeWrites(p) PROVE Requests'
  BY <1>14, IsDone, Going DEF ComputeWrites, At, Step, ContribSteps
<1>15. ASSUME NEW p \in Slots, NEW v \in Voters, VoteIsRecorded(p, v) PROVE Requests'
  BY <1>15, IsDone, Going DEF VoteIsRecorded, At, Step, ContribSteps
<1>16. ASSUME NEW p \in Slots, ApplyReviews(p) PROVE Requests'
  BY <1>16, IsDone, Going DEF ApplyReviews, At, Step, ContribSteps
<1>17. ASSUME NEW p \in Slots, ApplyMerges(p) PROVE Requests'
  <2> DEFINE into == IssueOf(req[p].on)
             k == tip[into] \cup tip[req[p].on]
             r == [req[p] EXCEPT !.at = "applyWrites", !.code = k]
  <2>1. req[p].at = "apply" /\ req[p].on \in Branches /\ into \in Branches
    BY <1>17, Known, Apart DEF ApplyMerges, At, ContribSteps
  <2>2. k \in Code
    BY <2>1 DEF Inv, Tips, Code
  <2>3. Done(p) \/ GoTo(p, "mark") \/ Continue(p, r)
    BY <1>17 DEF ApplyMerges, MergeReads
  <2> HIDE DEF k
  <2>4. Sound(r, pushes')
    BY <2>1, <2>2, Onward DEF Step, ContribSteps
  <2>5. GoTo(p, "mark") => Requests'
    BY <2>1, Going DEF Step, ContribSteps
  <2> HIDE DEF r
  <2> QED BY <2>3, <2>4, <2>5, Continued, IsDone
<1>18. ASSUME NEW p \in Slots, ApplySetsRef(p) PROVE Requests'
  <2>1. req[p].at = "applyWrites" /\ {} \in Code
    BY <1>18 DEF ApplySetsRef, At, Code
  <2>2. Sound([req[p] EXCEPT !.at = "mark", !.code = {}], pushes')
    BY <2>1, Onward DEF Step, ContribSteps
  <2> QED BY <1>18, <2>2, Continued DEF ApplySetsRef, MergeSetsRef
<1>19. ASSUME NEW p \in Slots, ApplyMarks(p) PROVE Requests'
  BY <1>19, IsDone, Going DEF ApplyMarks, At, Step, ContribSteps
<1>20. ASSUME NEW p \in Slots, CloseWrites(p) PROVE Requests'
  BY <1>20, IsDone, Going DEF CloseWrites, At, Step, ContribSteps
<1>21. ASSUME NEW p \in Slots, MergeGate(p) PROVE Requests'
  BY <1>21, IsDone, Going DEF MergeGate, At, Step, ContribSteps
<1>22. ASSUME NEW p \in Slots, MergeAhead(p) PROVE Requests'
  BY <1>22, IsDone, Going DEF MergeAhead, At, Step, ContribSteps
<1>23. ASSUME NEW p \in Slots, MergeSubs(p) PROVE Requests'
  BY <1>23, IsDone, Going DEF MergeSubs, SubIssueGate, At, Step, ContribSteps
<1>24. ASSUME NEW p \in Slots, MergeMerges(p) PROVE Requests'
  <2> DEFINE into == BaseOf(req[p].on)
             k == tip[into] \cup tip[req[p].on]
             r == [req[p] EXCEPT !.at = "mergeWrites", !.code = k]
  <2>1. req[p].at = "merge" /\ req[p].on \in Branches /\ into \in Branches
    BY <1>24, Known, Apart DEF MergeMerges, At, ContribSteps
  <2>2. k \in Code
    BY <2>1 DEF Inv, Tips, Code
  <2>3. Done(p) \/ GoTo(p, "mergeState") \/ Continue(p, r)
    BY <1>24 DEF MergeMerges, MergeReads
  <2> HIDE DEF k
  <2>4. Sound(r, pushes')
    BY <2>1, <2>2, Onward DEF Step, ContribSteps
  <2>5. GoTo(p, "mergeState") => Requests'
    BY <2>1, Going DEF Step, ContribSteps
  <2> HIDE DEF r
  <2> QED BY <2>3, <2>4, <2>5, Continued, IsDone
<1>25. ASSUME NEW p \in Slots, MergeMovesBase(p) PROVE Requests'
  <2>1. req[p].at = "mergeWrites" /\ {} \in Code
    BY <1>25 DEF MergeMovesBase, At, Code
  <2>2. Sound([req[p] EXCEPT !.at = "mergeState", !.code = {}], pushes')
    BY <2>1, Onward DEF Step, ContribSteps
  <2> QED BY <1>25, <2>2, Continued DEF MergeMovesBase, MergeSetsRef
<1>26. ASSUME NEW p \in Slots, MergeSetsState(p) PROVE Requests'
  BY <1>26, IsDone, Going DEF MergeSetsState, At, Step, ContribSteps
<1>27. ASSUME NEW p \in Slots, MergeDeletesBranch(p) PROVE Requests'
  BY <1>27, IsDone, Going DEF MergeDeletesBranch, At, Step, ContribSteps
<1>28. ASSUME NEW p \in Slots, NEW c \in Contribs, CleanDeletes(p, c) PROVE Requests'
  <2>1. c \in Branches
    BY Apart
  <2>2. Sound(AtStep("cleanRow", c), pushes')
    BY <2>1, AtBranch DEF Step, ContribSteps
  <2> QED BY <1>28, <2>2, Continued DEF CleanDeletes
<1>29. ASSUME NEW p \in Slots, CleanReads(p) PROVE Requests'
  <2>1. req[p].at = "cleanRow" /\ IssueOf(req[p].on) \in Issues /\ IssueOf(req[p].on) \in Branches
    BY <1>29, Known, Apart DEF CleanReads, At, ContribSteps
  <2>2. Sound(AtStep("clean", IssueOf(req[p].on)), pushes')
    BY <2>1, AtBranch DEF Step, ContribSteps
  <2> QED BY <1>29, <2>1, <2>2, Continued, Going DEF CleanReads, Step, ContribSteps
<1>30. ASSUME NEW p \in Slots, CleanCloses(p) PROVE Requests'
  <2>1. req[p].at = "cleanClose" /\ IssueOf(req[p].on) \in Issues /\ IssueOf(req[p].on) \in Branches
    BY <1>30, Known, Apart DEF CleanCloses, At, ContribSteps
  <2>2. Sound(AtStep("clean", IssueOf(req[p].on)), pushes')
    BY <2>1, AtBranch DEF Step, ContribSteps
  <2> QED BY <1>30, <2>1, <2>2, Continued, Going DEF CleanCloses, Step, ContribSteps
<1>31. ASSUME NEW p \in Slots, CleanEnds(p) PROVE Requests'
  BY <1>31, IsDone, Going DEF CleanEnds, At, Step, ContribSteps
<1>32. ASSUME NEW p \in Slots, CloseIssueSubs(p) PROVE Requests'
  BY <1>32, IsDone, Going DEF CloseIssueSubs, SubIssueGate, At, Step, ContribSteps
<1>33. ASSUME NEW p \in Slots, CloseIssueSetsState(p) PROVE Requests'
  BY <1>33, IsDone, Going DEF CloseIssueSetsState, At, Step, ContribSteps
<1>34. ASSUME NEW p \in Slots, CreateInserts(p) PROVE Requests'
  BY <1>34, IsDone, Going DEF CreateInserts, At, Step, ContribSteps
<1>35. ASSUME NEW p \in Slots, CreateMakesBranch(p) PROVE Requests'
  BY <1>35, IsDone, Going DEF CreateMakesBranch, At, Step, ContribSteps
<1>36. ASSUME NEW p \in Slots, EndsHalfWay(p) PROVE Requests'
  BY <1>36, IsDone, Going DEF EndsHalfWay, At, Step, ContribSteps
<1>37. CASE UNCHANGED vars
  BY <1>37, RequestsKept DEF vars
<1>38. CASE ConfigChanges
  BY <1>38, RequestsKept DEF ConfigChanges
<1> QED BY <1>1, <1>2, <1>3, <1>4, <1>5, <1>6, <1>7, <1>8, <1>9, <1>10, <1>11, <1>12, <1>13,
          <1>14, <1>15, <1>16, <1>17, <1>18, <1>19, <1>20, <1>21, <1>22, <1>23, <1>24,
          <1>25, <1>26, <1>27, <1>28, <1>29, <1>30, <1>31, <1>32, <1>33, <1>34, <1>35,
          <1>36, <1>37, <1>38
       DEF Next, Arrives, OnContribution, OnIssue

-----------------------------------------------------------------------------
\* A slot that does not become a push makes no new claim on the bound.
LEMMA NoNewPush ==
    ASSUME Inv, [Next]_vars, NEW p \in Slots, NEW r, r.at # "push",
           Begin(p, r) \/ Continue(p, r), pushes' = pushes
    PROVE  Room'
<1>1. req' = [req EXCEPT ![p] = r] /\ req \in [Slots -> Request]
  BY DEF Begin, Continue, Inv, Requests
<1>2. ASSUME NEW c \in Contribs PROVE pushes'[c] + Cardinality(Coming(c)') <= MaxPushes
  <2>1. Coming(c)' \subseteq Coming(c)
    BY <1>1 DEF Coming, At
  <2>2. IsFiniteSet(Coming(c))
    BY FS_Subset, ContributionAssumption DEF Coming
  <2>3. /\ Cardinality(Coming(c)') <= Cardinality(Coming(c))
        /\ Cardinality(Coming(c)') \in Nat /\ Cardinality(Coming(c)) \in Nat
    BY <2>1, <2>2, FS_Subset, FS_CardinalityType
  <2>4. pushes[c] \in Nat /\ MaxPushes \in Nat
    BY ContributionAssumption DEF Inv, Pushed
  <2>5. pushes[c] + Cardinality(Coming(c)) <= MaxPushes
    BY DEF Inv, Room
  <2> QED BY <2>3, <2>4, <2>5
<1> QED BY <1>2 DEF Room

LEMMA RoomWhenDone == ASSUME Inv, [Next]_vars, NEW p \in Slots, Done(p), pushes' = pushes PROVE Room'
<1>1. Idle.at # "push"
  BY DEF Idle
<1> QED BY <1>1, NoNewPush DEF Done

LEMMA RoomWhenGoing ==
    ASSUME Inv, [Next]_vars, NEW p \in Slots, NEW s, s # "push", GoTo(p, s), pushes' = pushes
    PROVE  Room'
<1>1. [req[p] EXCEPT !.at = s].at = s
  BY Known DEF Request
<1> QED BY <1>1, NoNewPush DEF GoTo

\* No more pushes are authorized than the bound says.
LEMMA RoomStep == ASSUME Inv, [Next]_vars PROVE Room'
<1>1. ASSUME NEW p \in Slots, NEW c \in Contribs, PushIsAuthorized(p, c) PROVE Room'
  <2>1. /\ req' = [req EXCEPT ![p] = AtStep("push", c)] /\ req \in [Slots -> Request] /\ req[p].at = "idle"
        /\ pushes' = pushes /\ pushes[c] + Cardinality(Coming(c)) < MaxPushes
    BY <1>1 DEF PushIsAuthorized, Begin, Busy, Coming, Inv, Requests
  <2>2. AtStep("push", c).at = "push" /\ AtStep("push", c).on = c
    BY DEF AtStep, Idle
  <2>3. Coming(c)' = Coming(c) \cup {p} /\ p \notin Coming(c)
    BY <2>1, <2>2 DEF Coming, At
  <2>4. \A d \in Contribs \ {c} : Coming(d)' = Coming(d)
    BY <2>1, <2>2 DEF Coming, At
  <2>5. IsFiniteSet(Coming(c))
    BY FS_Subset, ContributionAssumption DEF Coming
  <2>6. Cardinality(Coming(c)') = Cardinality(Coming(c)) + 1 /\ Cardinality(Coming(c)) \in Nat
    BY <2>3, <2>5, FS_AddElement, FS_CardinalityType
  <2>7. pushes[c] \in Nat /\ MaxPushes \in Nat
    BY ContributionAssumption DEF Inv, Pushed
  <2>8. pushes'[c] + Cardinality(Coming(c)') <= MaxPushes
    BY <2>1, <2>6, <2>7
  <2> QED BY <2>1, <2>4, <2>8 DEF Inv, Room
<1>2. ASSUME NEW p \in Slots, NEW c \in Contribs, PushDeletesRef(p, c) PROVE Room'
  <2>1. AtStep("delete", c).at # "push"
    BY DEF AtStep, Idle
  <2> QED BY <1>2, <2>1, NoNewPush DEF PushDeletesRef
<1>3. ASSUME NEW p \in Slots, NEW c \in Contribs, VoteLoads(p, c) PROVE Room'
  BY <1>3, NoNewPush DEF VoteLoads, Load
<1>4. ASSUME NEW p \in Slots, NEW c \in Contribs, ApplyLoads(p, c) PROVE Room'
  BY <1>4, NoNewPush DEF ApplyLoads, Load
<1>5. ASSUME NEW p \in Slots, NEW c \in Contribs, CloseLoads(p, c) PROVE Room'
  BY <1>5, NoNewPush DEF CloseLoads, Load
<1>6. ASSUME NEW p \in Slots, NEW i \in Issues, MergeLoads(p, i) PROVE Room'
  <2>1. AtStep("mergeGate", i).at # "push"
    BY DEF AtStep, Idle
  <2> QED BY <1>6, <2>1, NoNewPush DEF MergeLoads
<1>7. ASSUME NEW p \in Slots, NEW i \in Issues, CloseIssueLoads(p, i) PROVE Room'
  <2>1. AtStep("closeSubs", i).at # "push"
    BY DEF AtStep, Idle
  <2> QED BY <1>7, <2>1, NoNewPush DEF CloseIssueLoads
<1>8. ASSUME NEW p \in Slots, CreateLoads(p) PROVE Room'
  <2>1. AtStep("create", "sub").at # "push"
    BY DEF AtStep, Idle
  <2> QED BY <1>8, <2>1, NoNewPush DEF CreateLoads
<1>9. ASSUME NEW p \in Slots, PushReceives(p) PROVE Room'
  <2>0. PICK c \in Contribs : c = req[p].on
    BY <1>9, PushFits DEF PushReceives
  <2> DEFINE n == pushes[c] + 1
  <2>1. c \in Contribs /\ pushes' = [pushes EXCEPT ![c] = n] /\ pushes \in [Contribs -> 0..MaxPushes]
    BY <1>9, <2>0 DEF PushReceives, Inv, Pushed
  <2>2. req' = [req EXCEPT ![p] = [AtStep("sync", c) EXCEPT !.head = n]]
        /\ req \in [Slots -> Request] /\ p \in Coming(c)
    BY <1>9, <2>0 DEF PushReceives, Continue, Coming, Inv, Requests
  <2>3. [AtStep("sync", c) EXCEPT !.head = n].at # "push"
    BY DEF AtStep, Idle
  <2>4. /\ Coming(c)' = Coming(c) \ {p}
        /\ \A d \in Contribs \ {c} : Coming(d)' = Coming(d)
    <3> DEFINE r == [AtStep("sync", c) EXCEPT !.head = n]
    <3>1. r.at # "push" /\ req' = [req EXCEPT ![p] = r]
      BY <2>2, <2>3
    <3> HIDE DEF r
    <3> QED BY <2>2, <3>1 DEF Coming, At
  <2>5. IsFiniteSet(Coming(c))
    BY FS_Subset, ContributionAssumption DEF Coming
  <2>6. Cardinality(Coming(c)') = Cardinality(Coming(c)) - 1 /\ Cardinality(Coming(c)) \in Nat
    BY <2>2, <2>4, <2>5, FS_RemoveElement, FS_CardinalityType
  <2>7. pushes[c] \in Int /\ MaxPushes \in Int /\ pushes'[c] = pushes[c] + 1
    BY <2>1, ContributionAssumption
  <2>8. pushes[c] + Cardinality(Coming(c)) <= MaxPushes
    BY <2>1 DEF Inv, Room
  <2>9. pushes'[c] + Cardinality(Coming(c)') <= MaxPushes
    BY <2>6, <2>7, <2>8
  <2>10. \A d \in Contribs \ {c} : pushes'[d] = pushes[d]
    BY <2>1
  <2> HIDE DEF n
  <2> QED BY <2>1, <2>4, <2>9, <2>10 DEF Inv, Room
<1>10. ASSUME NEW p \in Slots, SyncDeletion(p) PROVE Room'
  BY <1>10, RoomWhenDone, RoomWhenGoing DEF SyncDeletion
<1>11. ASSUME NEW p \in Slots, SyncReadsIssue(p) PROVE Room'
  BY <1>11, RoomWhenDone, RoomWhenGoing DEF SyncReadsIssue
<1>12. ASSUME NEW p \in Slots, SyncUpserts(p) PROVE Room'
  <2>1. PICK t, ok : Continue(p, [req[p] EXCEPT !.at = "compute", !.status = t, !.paths = ok])
    BY <1>12 DEF SyncUpserts
  <2>2. [req[p] EXCEPT !.at = "compute", !.status = t, !.paths = ok].at # "push"
    BY Known DEF Request
  <2> QED BY <1>12, <2>1, <2>2, NoNewPush DEF SyncUpserts
<1>13. ASSUME NEW p \in Slots, ComputeReads(p) PROVE Room'
  <2>1. PICK t : Done(p) \/ Continue(p, [req[p] EXCEPT !.at = "setStatus", !.status = t])
    BY <1>13 DEF ComputeReads
  <2>2. [req[p] EXCEPT !.at = "setStatus", !.status = t].at # "push"
    BY Known DEF Request
  <2> QED BY <1>13, <2>1, <2>2, NoNewPush, RoomWhenDone DEF ComputeReads
<1>14. ASSUME NEW p \in Slots, ComputeWrites(p) PROVE Room'
  BY <1>14, RoomWhenDone, RoomWhenGoing DEF ComputeWrites
<1>15. ASSUME NEW p \in Slots, NEW v \in Voters, VoteIsRecorded(p, v) PROVE Room'
  BY <1>15, RoomWhenDone, RoomWhenGoing DEF VoteIsRecorded
<1>16. ASSUME NEW p \in Slots, ApplyReviews(p) PROVE Room'
  BY <1>16, RoomWhenDone, RoomWhenGoing DEF ApplyReviews
<1>17. ASSUME NEW p \in Slots, ApplyMerges(p) PROVE Room'
  <2>1. [req[p] EXCEPT !.at = "applyWrites", !.code = tip[IssueOf(req[p].on)] \cup tip[req[p].on]].at # "push"
    BY Known DEF Request
  <2> QED BY <1>17, <2>1, NoNewPush, RoomWhenDone, RoomWhenGoing DEF ApplyMerges, MergeReads
<1>18. ASSUME NEW p \in Slots, ApplySetsRef(p) PROVE Room'
  <2>1. [req[p] EXCEPT !.at = "mark", !.code = {}].at # "push"
    BY Known DEF Request
  <2> QED BY <1>18, <2>1, NoNewPush, RoomWhenDone, RoomWhenGoing DEF ApplySetsRef, MergeSetsRef
<1>19. ASSUME NEW p \in Slots, ApplyMarks(p) PROVE Room'
  BY <1>19, RoomWhenDone, RoomWhenGoing DEF ApplyMarks
<1>20. ASSUME NEW p \in Slots, CloseWrites(p) PROVE Room'
  BY <1>20, RoomWhenDone, RoomWhenGoing DEF CloseWrites
<1>21. ASSUME NEW p \in Slots, MergeGate(p) PROVE Room'
  BY <1>21, RoomWhenDone, RoomWhenGoing DEF MergeGate
<1>22. ASSUME NEW p \in Slots, MergeAhead(p) PROVE Room'
  BY <1>22, RoomWhenDone, RoomWhenGoing DEF MergeAhead
<1>23. ASSUME NEW p \in Slots, MergeSubs(p) PROVE Room'
  BY <1>23, RoomWhenDone, RoomWhenGoing DEF MergeSubs, SubIssueGate
<1>24. ASSUME NEW p \in Slots, MergeMerges(p) PROVE Room'
  <2>1. [req[p] EXCEPT !.at = "mergeWrites", !.code = tip[BaseOf(req[p].on)] \cup tip[req[p].on]].at # "push"
    BY Known DEF Request
  <2> QED BY <1>24, <2>1, NoNewPush, RoomWhenDone, RoomWhenGoing DEF MergeMerges, MergeReads
<1>25. ASSUME NEW p \in Slots, MergeMovesBase(p) PROVE Room'
  <2>1. [req[p] EXCEPT !.at = "mergeState", !.code = {}].at # "push"
    BY Known DEF Request
  <2> QED BY <1>25, <2>1, NoNewPush, RoomWhenDone, RoomWhenGoing DEF MergeMovesBase, MergeSetsRef
<1>26. ASSUME NEW p \in Slots, MergeSetsState(p) PROVE Room'
  BY <1>26, RoomWhenDone, RoomWhenGoing DEF MergeSetsState
<1>27. ASSUME NEW p \in Slots, MergeDeletesBranch(p) PROVE Room'
  BY <1>27, RoomWhenDone, RoomWhenGoing DEF MergeDeletesBranch
<1>28. ASSUME NEW p \in Slots, NEW c \in Contribs, CleanDeletes(p, c) PROVE Room'
  <2>1. AtStep("cleanRow", c).at # "push"
    BY DEF AtStep, Idle
  <2> QED BY <1>28, <2>1, NoNewPush DEF CleanDeletes
<1>29. ASSUME NEW p \in Slots, CleanReads(p) PROVE Room'
  <2>1. AtStep("clean", IssueOf(req[p].on)).at # "push"
    BY DEF AtStep, Idle
  <2> QED BY <1>29, <2>1, NoNewPush, RoomWhenGoing DEF CleanReads
<1>30. ASSUME NEW p \in Slots, CleanCloses(p) PROVE Room'
  <2>1. AtStep("clean", IssueOf(req[p].on)).at # "push"
    BY DEF AtStep, Idle
  <2> QED BY <1>30, <2>1, NoNewPush, RoomWhenGoing DEF CleanCloses
<1>31. ASSUME NEW p \in Slots, CleanEnds(p) PROVE Room'
  BY <1>31, RoomWhenDone, RoomWhenGoing DEF CleanEnds
<1>32. ASSUME NEW p \in Slots, CloseIssueSubs(p) PROVE Room'
  BY <1>32, RoomWhenDone, RoomWhenGoing DEF CloseIssueSubs, SubIssueGate
<1>33. ASSUME NEW p \in Slots, CloseIssueSetsState(p) PROVE Room'
  BY <1>33, RoomWhenDone, RoomWhenGoing DEF CloseIssueSetsState
<1>34. ASSUME NEW p \in Slots, CreateInserts(p) PROVE Room'
  BY <1>34, RoomWhenDone, RoomWhenGoing DEF CreateInserts
<1>35. ASSUME NEW p \in Slots, CreateMakesBranch(p) PROVE Room'
  BY <1>35, RoomWhenDone, RoomWhenGoing DEF CreateMakesBranch
<1>36. ASSUME NEW p \in Slots, EndsHalfWay(p) PROVE Room'
  BY <1>36, RoomWhenDone, RoomWhenGoing DEF EndsHalfWay
<1>37. CASE UNCHANGED vars
  BY <1>37 DEF vars, Inv, Room, Coming, At
<1>38. CASE ConfigChanges
  BY <1>38 DEF ConfigChanges, Inv, Room, Coming, At
<1> QED BY <1>1, <1>2, <1>3, <1>4, <1>5, <1>6, <1>7, <1>8, <1>9, <1>10, <1>11, <1>12,
          <1>13, <1>14, <1>15, <1>16, <1>17, <1>18, <1>19, <1>20, <1>21, <1>22, <1>23, <1>24,
          <1>25, <1>26, <1>27, <1>28, <1>29, <1>30, <1>31, <1>32, <1>33, <1>34, <1>35, <1>36,
          <1>37, <1>38
       DEF Next, Arrives, OnContribution, OnIssue

-----------------------------------------------------------------------------
\* The invariant, for every number of branches, voters and requests.
THEOREM Invariance == Spec => []Inv
<1>1. Inv /\ [Next]_vars => Inv'
  BY DataStep, PushedStep, ReviewedStep, TipsStep, RowsStep, VotesStep, RequestsStep, RoomStep DEF Inv
<1> QED BY <1>1, InitInv, PTL DEF Spec

\* Rows, branch tips and requests under way stay within their types.
THEOREM TypeCorrect == Spec => []TypeOK
<1>1. Inv => TypeOK
  BY DEF Inv, TypeOK, Requests, Counters, States, Pushed, Reviewed, Tips, Rows, Votes
<1> QED BY <1>1, Invariance, PTL

-----------------------------------------------------------------------------
(* What lands.  The branch of a contribution that did not go astray is the *)
(* head the row has, or will have once the sync under way has written it;  *)
(* so what a request applies is the very head that was reviewed.           *)

Good   == passed \cup Excepted
Syncs  == {"sync", "upsert"}
Writes == {"applyWrites", "mergeWrites"}
Shared == {"main"} \cup Issues

\* Nothing is reachable yet from a commit that is still to be pushed.
Blank == \A x \in Commits : x[2] > pushes[x[1]] => content[x] = {}

\* What the votes approve now is among what they approved at some time.
Voted == Approved(config, vote, pushes) \subseteq passed

\* A contribution's branch is empty or what was pushed as its h-th commit.
Holds(c, h) == tip[c] = {} \/ (h > 0 /\ tip[c] = content[<<c, h>>])
OnBranch    == \A c \in Contribs : \E h \in 0..pushes[c] : Holds(c, h)

Pushing(p, c)  == req[p].at \in PushSteps /\ req[p].on = c
Syncing(p, c)  == req[p].at \in Syncs /\ req[p].on = c
Applying(p, c) == req[p].at \in ApplySteps /\ req[p].on = c

\* One push at a time, no apply beside it, and the row at the branch's head.
Straight(c) ==
    /\ \A p, q \in Slots : Pushing(p, c) /\ (Pushing(q, c) \/ Applying(q, c)) => p = q
    /\ \A p \in Slots : Applying(p, c) => req[p].head = row[c].head
    /\ \A p \in Slots : Syncing(p, c) => Holds(c, req[p].head)
    /\ (\A p \in Slots : ~Syncing(p, c)) => Holds(c, row[c].head)
AllStraight == \A c \in Contribs \ astray : Straight(c)

\* A head whose diff could not be read is known to be; what is applied was
\* approved, or reviewed blindly; what is about to be written may land.
RowsRead == \A c \in Contribs : row[c].paths \/ <<c, row[c].head>> \in blind
Lands(r) ==
    /\ r.at = "review" => r.paths \/ <<r.on, r.head>> \in blind
    /\ r.at \in {"apply", "applyWrites"} => r.head > 0 /\ <<r.on, r.head>> \in passed \cup blind
    /\ r.at \in Writes => r.code \subseteq Reaches(Good)
AllLand == \A p \in Slots : Lands(req[p])

Landing == Blank /\ Voted /\ OnBranch /\ AllStraight /\ RowsRead /\ AllLand /\ LandedWasApproved

-----------------------------------------------------------------------------
\* Most steps neither push, sync nor apply: no head changes, a contribution
\* branch stays or is emptied, and the others get what may already land.
Others(p) == \A q \in Slots \ {p} : req'[q] = req[q]
HeadsKept == \A c \in Contribs : row'[c].head = row[c].head /\ row'[c].paths = row[c].paths
TipsMove  ==
    /\ \A c \in Contribs : tip'[c] = tip[c] \/ tip'[c] = {}
    /\ \A b \in Shared : \/ tip'[b] = {}
                         \/ \E a \in Shared : tip'[b] = tip[a]
                         \/ \E q \in Slots : req[q].at \in Writes /\ tip'[b] = req[q].code
Quiet(p) ==
    /\ Others(p) /\ HeadsKept /\ TipsMove /\ UNCHANGED <<pushes, content, config>>
    /\ UNCHANGED vote \/ Approved(config, vote, pushes)' \subseteq passed'
    /\ req[p].at \notin Syncs
    /\ req'[p].at \notin PushSteps \cup ApplySteps \cup Writes
Telling(p) ==
    \/ \E c \in Contribs : PushIsAuthorized(p, c) \/ ApplyLoads(p, c)
    \/ PushReceives(p) \/ SyncReadsIssue(p) \/ SyncUpserts(p) \/ EndsHalfWay(p)
    \/ ApplyReviews(p) \/ ApplyMerges(p) \/ MergeMerges(p)

\* What the request of a slot is after a step.
LEMMA Went ==
    ASSUME Inv, NEW p \in Slots, NEW s, GoTo(p, s)
    PROVE  /\ req'[p].at = s /\ req'[p].on = req[p].on /\ Others(p)
           /\ req'[p].head = req[p].head /\ req'[p].paths = req[p].paths
<1>1. req \in [Slots -> Request] /\ req[p] \in Request
  BY DEF Inv, Requests
<1>2. req' = [req EXCEPT ![p] = [req[p] EXCEPT !.at = s]]
  BY DEF GoTo, Continue
<1> QED BY <1>1, <1>2 DEF Request, Others

LEMMA Ended ==
    ASSUME Inv, NEW p \in Slots, Done(p)
    PROVE  req'[p].at = "idle" /\ Others(p)
<1>1. req \in [Slots -> Request]
  BY DEF Inv, Requests
<1> QED BY <1>1 DEF Done, Continue, Idle, Others

LEMMA Came ==
    ASSUME Inv, NEW p \in Slots, NEW s, NEW b,
           Begin(p, AtStep(s, b)) \/ Continue(p, AtStep(s, b))
    PROVE  req'[p].at = s /\ req'[p].on = b /\ Others(p)
<1>1. req \in [Slots -> Request]
  BY DEF Inv, Requests
<1>2. req' = [req EXCEPT ![p] = AtStep(s, b)]
  BY DEF Begin, Continue
<1> QED BY <1>1, <1>2 DEF AtStep, Idle, Others

LEMMA Loaded ==
    ASSUME Inv, NEW p \in Slots, NEW s, NEW c, Load(p, s, c)
    PROVE  /\ req'[p].at = s /\ req'[p].on = c /\ Others(p)
           /\ req'[p].head = row[c].head /\ req'[p].paths = row[c].paths
           /\ ~Busy(p)
<1>1. req \in [Slots -> Request]
  BY DEF Inv, Requests
<1>2. req' = [req EXCEPT ![p] = [at |-> s, on |-> c, head |-> row[c].head,
                                status |-> row[c].status, paths |-> row[c].paths, code |-> {}]]
  BY DEF Load, Begin
<1> QED BY <1>1, <1>2 DEF Load, Begin, Others

Plans(p, s, k) == Continue(p, [req[p] EXCEPT !.at = s, !.code = k])
LEMMA Planned ==
    ASSUME Inv, NEW p \in Slots, NEW s, NEW k, Plans(p, s, k)
    PROVE  /\ req'[p].at = s /\ req'[p].on = req[p].on /\ req'[p].code = k
           /\ req'[p].head = req[p].head /\ Others(p)
<1>1. req \in [Slots -> Request] /\ req[p] \in Request
  BY DEF Inv, Requests
<1> QED BY <1>1 DEF Plans, Continue, Request, Others

LEMMA Computed ==
    ASSUME Inv, NEW p \in Slots, NEW s, NEW t,
           Continue(p, [req[p] EXCEPT !.at = s, !.status = t])
    PROVE  req'[p].at = s /\ req'[p].on = req[p].on /\ Others(p)
<1>1. req \in [Slots -> Request] /\ req[p] \in Request
  BY DEF Inv, Requests
<1> QED BY <1>1 DEF Continue, Request, Others

\* Every other step is quiet.
LEMMA Shape ==
    ASSUME Inv, [Next]_vars
    PROVE  \/ \E p \in Slots : Quiet(p) \/ Telling(p)
           \/ UNCHANGED vars \/ ConfigChanges
<1> USE DEF Quiet, Syncs, Writes, PushSteps, ApplySteps
<1>0. /\ UNCHANGED row => HeadsKept
      /\ UNCHANGED tip => TipsMove
  BY DEF HeadsKept, TipsMove
<1>1. ASSUME NEW p \in Slots, NEW c \in Contribs, PushIsAuthorized(p, c) PROVE Quiet(p) \/ Telling(p)
  BY <1>1 DEF Telling
<1>2. ASSUME NEW p \in Slots, NEW c \in Contribs, PushDeletesRef(p, c) PROVE Quiet(p) \/ Telling(p)
  <2>1. TipsMove
    BY <1>2, Apart DEF PushDeletesRef, TipsMove, Shared, Inv, Tips
  <2>3. Others(p) /\ req'[p].at \in {"delete"}
    BY <1>2, Came DEF PushDeletesRef
  <2> QED BY <1>2, <1>0, <2>1, <2>3 DEF PushDeletesRef, Begin, Busy
<1>3. ASSUME NEW p \in Slots, NEW c \in Contribs, VoteLoads(p, c) PROVE Quiet(p) \/ Telling(p)
  <2>3. Others(p) /\ req'[p].at \in {"vote"}
    BY <1>3, Loaded DEF VoteLoads
  <2> QED BY <1>3, <1>0, <2>3, Loaded DEF VoteLoads, Busy
<1>4. ASSUME NEW p \in Slots, NEW c \in Contribs, ApplyLoads(p, c) PROVE Quiet(p) \/ Telling(p)
  BY <1>4 DEF Telling
<1>5. ASSUME NEW p \in Slots, NEW c \in Contribs, CloseLoads(p, c) PROVE Quiet(p) \/ Telling(p)
  <2>3. Others(p) /\ req'[p].at \in {"close"}
    BY <1>5, Loaded DEF CloseLoads
  <2> QED BY <1>5, <1>0, <2>3, Loaded DEF CloseLoads, Busy
<1>6. ASSUME NEW p \in Slots, NEW i \in Issues, MergeLoads(p, i) PROVE Quiet(p) \/ Telling(p)
  <2>3. Others(p) /\ req'[p].at \in {"mergeGate"}
    BY <1>6, Came DEF MergeLoads
  <2> QED BY <1>6, <1>0, <2>3 DEF MergeLoads, Begin, Busy
<1>7. ASSUME NEW p \in Slots, NEW i \in Issues, CloseIssueLoads(p, i) PROVE Quiet(p) \/ Telling(p)
  <2>3. Others(p) /\ req'[p].at \in {"closeSubs"}
    BY <1>7, Came DEF CloseIssueLoads
  <2> QED BY <1>7, <1>0, <2>3 DEF CloseIssueLoads, Begin, Busy
<1>8. ASSUME NEW p \in Slots, CreateLoads(p) PROVE Quiet(p) \/ Telling(p)
  <2>3. Others(p) /\ req'[p].at \in {"create"}
    BY <1>8, Came DEF CreateLoads
  <2> QED BY <1>8, <1>0, <2>3 DEF CreateLoads, Begin, Busy
<1>9. ASSUME NEW p \in Slots, PushReceives(p) PROVE Quiet(p) \/ Telling(p)
  BY <1>9 DEF Telling
<1>10. ASSUME NEW p \in Slots, SyncDeletion(p) PROVE Quiet(p) \/ Telling(p)
  <2>3. Others(p) /\ req'[p].at \in {"idle", "close"}
    BY <1>10, Went, Ended DEF SyncDeletion
  <2> QED BY <1>10, <1>0, <2>3 DEF SyncDeletion, At
<1>11. ASSUME NEW p \in Slots, SyncReadsIssue(p) PROVE Quiet(p) \/ Telling(p)
  BY <1>11 DEF Telling
<1>12. ASSUME NEW p \in Slots, SyncUpserts(p) PROVE Quiet(p) \/ Telling(p)
  BY <1>12 DEF Telling
<1>13. ASSUME NEW p \in Slots, ComputeReads(p) PROVE Quiet(p) \/ Telling(p)
  <2>3. Others(p) /\ req'[p].at \in {"idle", "setStatus"}
    BY <1>13, Ended, Computed DEF ComputeReads
  <2> QED BY <1>13, <1>0, <2>3 DEF ComputeReads, At
<1>14. ASSUME NEW p \in Slots, ComputeWrites(p) PROVE Quiet(p) \/ Telling(p)
  <2>1. req[p].on \in Contribs /\ row \in [Contribs -> Row]
    BY <1>14, Known DEF ComputeWrites, At, ContribSteps, Inv, Rows
  <2>2. HeadsKept
    BY <1>14, <2>1 DEF ComputeWrites, HeadsKept, Row
  <2> QED BY <1>14, <1>0, <2>2, Ended DEF ComputeWrites, At
<1>15. ASSUME NEW p \in Slots, NEW v \in Voters, VoteIsRecorded(p, v) PROVE Quiet(p) \/ Telling(p)
  <2>3. Others(p) /\ req'[p].at \in {"compute"}
    BY <1>15, Went DEF VoteIsRecorded
  <2> QED BY <1>15, <1>0, <2>3 DEF VoteIsRecorded, At
<1>16. ASSUME NEW p \in Slots, ApplyReviews(p) PROVE Quiet(p) \/ Telling(p)
  BY <1>16 DEF Telling
<1>17. ASSUME NEW p \in Slots, ApplyMerges(p) PROVE Quiet(p) \/ Telling(p)
  BY <1>17 DEF Telling
<1>18. ASSUME NEW p \in Slots, ApplySetsRef(p) PROVE Quiet(p) \/ Telling(p)
  <2>1. TipsMove
    BY <1>18, Apart, Known DEF ApplySetsRef, MergeSetsRef, TipsMove, Shared, Inv, Tips, At, ContribSteps
  <2>3. Others(p) /\ req'[p].at \in {"mark"}
    BY <1>18, Planned DEF ApplySetsRef, MergeSetsRef, Plans
  <2> QED BY <1>18, <1>0, <2>1, <2>3 DEF ApplySetsRef, MergeSetsRef, At
<1>19. ASSUME NEW p \in Slots, ApplyMarks(p) PROVE Quiet(p) \/ Telling(p)
  <2>1. req[p].on \in Contribs /\ row \in [Contribs -> Row]
    BY <1>19, Known DEF ApplyMarks, At, ContribSteps, Inv, Rows
  <2>2. HeadsKept
    BY <1>19, <2>1 DEF ApplyMarks, HeadsKept, Row
  <2> QED BY <1>19, <1>0, <2>2, Ended DEF ApplyMarks, At
<1>20. ASSUME NEW p \in Slots, CloseWrites(p) PROVE Quiet(p) \/ Telling(p)
  <2>1. req[p].on \in Contribs /\ row \in [Contribs -> Row]
    BY <1>20, Known DEF CloseWrites, At, ContribSteps, Inv, Rows
  <2>2. HeadsKept
    BY <1>20, <2>1 DEF CloseWrites, HeadsKept, Row
  <2> QED BY <1>20, <1>0, <2>2, Ended DEF CloseWrites, At
<1>21. ASSUME NEW p \in Slots, MergeGate(p) PROVE Quiet(p) \/ Telling(p)
  <2>3. Others(p) /\ req'[p].at \in {"idle", "mergeAhead"}
    BY <1>21, Went, Ended DEF MergeGate
  <2> QED BY <1>21, <1>0, <2>3 DEF MergeGate, At
<1>22. ASSUME NEW p \in Slots, MergeAhead(p) PROVE Quiet(p) \/ Telling(p)
  <2>3. Others(p) /\ req'[p].at \in {"idle", "mergeSubs"}
    BY <1>22, Went, Ended DEF MergeAhead
  <2> QED BY <1>22, <1>0, <2>3 DEF MergeAhead, At
<1>23. ASSUME NEW p \in Slots, MergeSubs(p) PROVE Quiet(p) \/ Telling(p)
  <2>3. Others(p) /\ req'[p].at \in {"idle", "merge"}
    BY <1>23, Went, Ended DEF MergeSubs, SubIssueGate
  <2> QED BY <1>23, <1>0, <2>3 DEF MergeSubs, SubIssueGate, At
<1>24. ASSUME NEW p \in Slots, MergeMerges(p) PROVE Quiet(p) \/ Telling(p)
  BY <1>24 DEF Telling
<1>25. ASSUME NEW p \in Slots, MergeMovesBase(p) PROVE Quiet(p) \/ Telling(p)
  <2>1. TipsMove
    BY <1>25, Apart, Known DEF MergeMovesBase, MergeSetsRef, TipsMove, Shared, Inv, Tips, At, ContribSteps
  <2>3. Others(p) /\ req'[p].at \in {"mergeState"}
    BY <1>25, Planned DEF MergeMovesBase, MergeSetsRef, Plans
  <2> QED BY <1>25, <1>0, <2>1, <2>3 DEF MergeMovesBase, MergeSetsRef, At
<1>26. ASSUME NEW p \in Slots, MergeSetsState(p) PROVE Quiet(p) \/ Telling(p)
  <2>3. Others(p) /\ req'[p].at \in {"deleteBranch"}
    BY <1>26, Went DEF MergeSetsState
  <2> QED BY <1>26, <1>0, <2>3 DEF MergeSetsState, At
<1>27. ASSUME NEW p \in Slots, MergeDeletesBranch(p) PROVE Quiet(p) \/ Telling(p)
  <2>1. TipsMove
    BY <1>27, Apart, Known DEF MergeDeletesBranch, TipsMove, Shared, Inv, Tips, At, ContribSteps
  <2>3. Others(p) /\ req'[p].at \in {"clean"}
    BY <1>27, Went DEF MergeDeletesBranch
  <2> QED BY <1>27, <1>0, <2>1, <2>3 DEF MergeDeletesBranch, At
<1>28. ASSUME NEW p \in Slots, NEW c \in Contribs, CleanDeletes(p, c) PROVE Quiet(p) \/ Telling(p)
  <2>1. TipsMove
    BY <1>28, Apart DEF CleanDeletes, TipsMove, Shared, Inv, Tips
  <2>3. Others(p) /\ req'[p].at \in {"cleanRow"}
    BY <1>28, Came DEF CleanDeletes
  <2> QED BY <1>28, <1>0, <2>1, <2>3 DEF CleanDeletes, At
<1>29. ASSUME NEW p \in Slots, CleanReads(p) PROVE Quiet(p) \/ Telling(p)
  <2>3. Others(p) /\ req'[p].at \in {"clean", "cleanClose"}
    BY <1>29, Came, Went DEF CleanReads
  <2> QED BY <1>29, <1>0, <2>3 DEF CleanReads, At
<1>30. ASSUME NEW p \in Slots, CleanCloses(p) PROVE Quiet(p) \/ Telling(p)
  <2>1. req[p].on \in Contribs /\ row \in [Contribs -> Row]
    BY <1>30, Known DEF CleanCloses, At, ContribSteps, Inv, Rows
  <2>2. HeadsKept
    BY <1>30, <2>1 DEF CleanCloses, HeadsKept, Row
  <2>3. Others(p) /\ req'[p].at \in {"clean"}
    BY <1>30, Came DEF CleanCloses
  <2> QED BY <1>30, <1>0, <2>2, <2>3 DEF CleanCloses, At
<1>31. ASSUME NEW p \in Slots, CleanEnds(p) PROVE Quiet(p) \/ Telling(p)
  BY <1>31, <1>0, Ended DEF CleanEnds, At
<1>32. ASSUME NEW p \in Slots, CloseIssueSubs(p) PROVE Quiet(p) \/ Telling(p)
  <2>3. Others(p) /\ req'[p].at \in {"idle", "closeIssue"}
    BY <1>32, Went, Ended DEF CloseIssueSubs, SubIssueGate
  <2> QED BY <1>32, <1>0, <2>3 DEF CloseIssueSubs, SubIssueGate, At
<1>33. ASSUME NEW p \in Slots, CloseIssueSetsState(p) PROVE Quiet(p) \/ Telling(p)
  BY <1>33, <1>0, Ended DEF CloseIssueSetsState, At
<1>34. ASSUME NEW p \in Slots, CreateInserts(p) PROVE Quiet(p) \/ Telling(p)
  <2>3. Others(p) /\ req'[p].at \in {"idle", "createBranch"}
    BY <1>34, Went, Ended DEF CreateInserts
  <2> QED BY <1>34, <1>0, <2>3 DEF CreateInserts, At
<1>35. ASSUME NEW p \in Slots, CreateMakesBranch(p) PROVE Quiet(p) \/ Telling(p)
  <2>1. TipsMove
    BY <1>35, Apart DEF CreateMakesBranch, TipsMove, Shared, Inv, Tips, Issues
  <2> QED BY <1>35, <1>0, <2>1, Ended DEF CreateMakesBranch, At
<1>36. ASSUME NEW p \in Slots, EndsHalfWay(p) PROVE Quiet(p) \/ Telling(p)
  BY <1>36 DEF Telling
<1> QED BY <1>1, <1>2, <1>3, <1>4, <1>5, <1>6, <1>7, <1>8, <1>9, <1>10, <1>11, <1>12, <1>13,
          <1>14, <1>15, <1>16, <1>17, <1>18, <1>19, <1>20, <1>21, <1>22, <1>23, <1>24,
          <1>25, <1>26, <1>27, <1>28, <1>29, <1>30, <1>31, <1>32, <1>33, <1>34, <1>35, <1>36
       DEF Next, Arrives, OnContribution, OnIssue

\* The others change little else: a push what was pushed, a sync the row.
LEMMA Upserted ==
    ASSUME Inv, NEW p \in Slots, SyncUpserts(p)
    PROVE  /\ Others(p) /\ req'[p].at = "compute" /\ req'[p].on = req[p].on
           /\ req[p].on \in Contribs /\ UNCHANGED <<pushes, content, tip, config, vote, astray>>
           /\ \A c \in Contribs : row'[c] # row[c] => c = req[p].on
           /\ row'[req[p].on].head = req[p].head
           /\ row'[req[p].on].paths \/ <<req[p].on, req[p].head>> \in blind'
<1>1. /\ req \in [Slots -> Request] /\ req[p] \in Request /\ row \in [Contribs -> Row]
      /\ req[p].on \in Contribs
  BY Known DEF Inv, Requests, Rows, SyncUpserts, At, ContribSteps
<1> DEFINE s == IF row[req[p].on].status = "none" THEN "pending" ELSE row[req[p].on].status
<1>2. PICK ok \in BOOLEAN :
          /\ row' = [row EXCEPT ![req[p].on] = [status |-> s, head |-> req[p].head, paths |-> ok]]
          /\ req' = [req EXCEPT ![p] = [req[p] EXCEPT !.at = "compute", !.status = s, !.paths = ok]]
          /\ blind' = IF ok THEN blind ELSE blind \cup {<<req[p].on, req[p].head>>}
  BY DEF SyncUpserts, Continue
<1> HIDE DEF s
<1>3. Others(p) /\ req'[p].at = "compute" /\ req'[p].on = req[p].on
  BY <1>1, <1>2 DEF Request, Others
<1>4. row'[req[p].on] = [status |-> s, head |-> req[p].head, paths |-> ok]
  BY <1>1, <1>2
<1>5. \A c \in Contribs \ {req[p].on} : row'[c] = row[c]
  BY <1>1, <1>2
<1>6. UNCHANGED <<pushes, content, tip, config, vote, astray>>
  BY DEF SyncUpserts
<1> QED BY <1>1, <1>2, <1>3, <1>4, <1>5, <1>6

LEMMA Told ==
    ASSUME Inv, NEW p \in Slots, Telling(p)
    PROVE  /\ Others(p) /\ UNCHANGED <<config, vote>>
           /\ PushReceives(p) \/ UNCHANGED <<pushes, content, tip>>
           /\ SyncUpserts(p) \/ UNCHANGED row
<1>1. ASSUME NEW c \in Contribs, PushIsAuthorized(p, c)
      PROVE  Others(p) /\ UNCHANGED <<config, vote, pushes, content, tip, row>>
  BY <1>1, Came DEF PushIsAuthorized
<1>2. ASSUME NEW c \in Contribs, ApplyLoads(p, c)
      PROVE  Others(p) /\ UNCHANGED <<config, vote, pushes, content, tip, row>>
  BY <1>2, Loaded DEF ApplyLoads
<1>3. CASE PushReceives(p)
  <2>1. req \in [Slots -> Request]
    BY DEF Inv, Requests
  <2> QED BY <1>3, <2>1 DEF PushReceives, Continue, Others
<1>4. CASE SyncReadsIssue(p)
  BY <1>4, Went, Ended DEF SyncReadsIssue
<1>5. CASE SyncUpserts(p)
  BY <1>5, Upserted
<1>6. CASE EndsHalfWay(p)
  BY <1>6, Ended DEF EndsHalfWay
<1>7. CASE ApplyReviews(p)
  BY <1>7, Went, Ended DEF ApplyReviews
<1>8. CASE ApplyMerges(p)
  BY <1>8, Went, Ended, Planned DEF ApplyMerges, MergeReads, Plans
<1>9. CASE MergeMerges(p)
  BY <1>9, Went, Ended, Planned DEF MergeMerges, MergeReads, Plans
<1> QED BY <1>1, <1>2, <1>3, <1>4, <1>5, <1>6, <1>7, <1>8, <1>9 DEF Telling

\* A push moves the branch to the new commit, or it was refused.
Receipt(p, c, n) ==
    /\ c = req[p].on /\ n = pushes[c] + 1
    /\ c \in Contribs /\ n \in 1..MaxPushes /\ pushes[c] \in Nat
    /\ pushes'[c] = n /\ \A d \in Contribs \ {c} : pushes'[d] = pushes[d]
    /\ req[p].at = "push" /\ req'[p].at = "sync" /\ req'[p].on = c /\ req'[p].head = n
    /\ UNCHANGED row /\ passed' = passed \cup Approved(config, vote, pushes')
    /\ \A b \in Branches \ {c} : tip'[b] = tip[b]
    /\ \A x \in Commits : x # <<c, n>> => content'[x] = content[x]
    /\ \/ tip'[c] = content'[<<c, n>>]
       \/ UNCHANGED <<tip, content>> /\ c \in astray'

LEMMA Received ==
    ASSUME Inv, NEW p \in Slots, PushReceives(p)
    PROVE  \E c, n : Receipt(p, c, n)
<1> SUFFICES ASSUME NEW c, NEW n, c = req[p].on, n = pushes[c] + 1 PROVE Receipt(p, c, n)
  OBVIOUS
<1>1. /\ req \in [Slots -> Request] /\ pushes \in [Contribs -> 0..MaxPushes]
      /\ tip \in [Branches -> Code] /\ content \in [Commits -> Code]
      /\ c \in Contribs /\ c \in Branches /\ n \in 1..MaxPushes /\ MaxPushes \in Nat
  BY PushFits, Apart, ContributionAssumption DEF PushReceives, Inv, Requests, Pushed, Tips
<1>2. /\ pushes' = [pushes EXCEPT ![c] = n] /\ UNCHANGED row /\ req[p].at = "push"
      /\ passed' = passed \cup Approved(config, vote, pushes')
      /\ req' = [req EXCEPT ![p] = [AtStep("sync", c) EXCEPT !.head = n]]
  BY DEF PushReceives, Continue, At
<1>3. req'[p].at = "sync" /\ req'[p].on = c /\ req'[p].head = n
  BY <1>1, <1>2 DEF AtStep, Idle
<1>4. <<c, n>> \in Commits /\ pushes'[c] = n /\ \A d \in Contribs \ {c} : pushes'[d] = pushes[d]
  BY <1>1, <1>2 DEF Commits
<1>5. CASE UNCHANGED <<tip, content>> /\ c \in astray'
  BY <1>1, <1>2, <1>3, <1>4, <1>5 DEF Receipt
<1>6. CASE PushMovesRef(p, n)
  <2>1. PICK base : /\ tip' = [tip EXCEPT ![c] = base \cup {<<c, n>>}]
                    /\ content' = [content EXCEPT ![<<c, n>>] = base \cup {<<c, n>>}]
    BY <1>6 DEF PushMovesRef
  <2>2. tip'[c] = content'[<<c, n>>] /\ \A b \in Branches \ {c} : tip'[b] = tip[b]
    BY <1>1, <1>4, <2>1
  <2>3. \A x \in Commits : x # <<c, n>> => content'[x] = content[x]
    BY <1>1, <2>1
  <2> QED BY <1>1, <1>2, <1>3, <1>4, <2>2, <2>3 DEF Receipt
<1> QED BY <1>5, <1>6 DEF PushReceives, Strays

-----------------------------------------------------------------------------
\* What a pushed commit reaches never changes, so what may land still may.
LEMMA ContentStays ==
    ASSUME Inv, Blank, [Next]_vars
    PROVE  /\ Blank'
           /\ \A x \in Commits : x[2] <= pushes[x[1]] => content'[x] = content[x]
           /\ \A x \in Commits : content[x] \subseteq content'[x]
<1>1. CASE UNCHANGED <<pushes, content>>
  BY <1>1 DEF Blank
<1>2. ASSUME NEW p \in Slots, PushReceives(p)
      PROVE  /\ Blank'
             /\ \A x \in Commits : x[2] <= pushes[x[1]] => content'[x] = content[x]
             /\ \A x \in Commits : content[x] \subseteq content'[x]
  <2>1. PICK c, n : Receipt(p, c, n)
    BY <1>2, Received
  <2>2. /\ c \in Contribs /\ n \in 1..MaxPushes /\ pushes[c] \in Nat /\ n = pushes[c] + 1
        /\ pushes'[c] = n /\ \A d \in Contribs \ {c} : pushes'[d] = pushes[d]
        /\ \A x \in Commits : x # <<c, n>> => content'[x] = content[x]
    BY <2>1 DEF Receipt
  <2>3. <<c, n>> \in Commits /\ content[<<c, n>>] = {}
    BY <2>2 DEF Blank, Commits
  <2>4. \A x \in Commits : /\ x[1] \in Contribs /\ x[2] \in 1..MaxPushes /\ x = <<x[1], x[2]>>
                           /\ pushes[x[1]] \in Nat
    BY DEF Commits, Inv, Pushed
  <2>5. ASSUME NEW x \in Commits, x[2] <= pushes[x[1]] PROVE content'[x] = content[x]
    BY <2>2, <2>4, <2>5
  <2>6. ASSUME NEW x \in Commits, x[2] > pushes'[x[1]] PROVE content'[x] = {}
    BY <2>2, <2>4, <2>6 DEF Blank
  <2>7. Blank'
    BY <2>6 DEF Blank, Commits
  <2> QED BY <2>2, <2>3, <2>5, <2>7
<1>3. CASE UNCHANGED vars
  BY <1>1, <1>3 DEF vars
<1>4. CASE ConfigChanges
  BY <1>1, <1>4 DEF ConfigChanges
<1> QED BY <1>1, <1>2, <1>3, <1>4, Shape, Told DEF Quiet

LEMMA ReachesStay == ASSUME Inv, Blank, [Next]_vars PROVE Reaches(Good) \subseteq Reaches(Good)'
<1>1. Good \subseteq Good'
  BY Grows DEF Grown, Good, Excepted, Commits
<1>2. \A x \in Commits : content[x] \subseteq content'[x]
  BY ContentStays
<1> QED BY <1>1, <1>2 DEF Reaches, Commits

LEMMA VotedStep == ASSUME Inv, Voted, [Next]_vars PROVE Voted'
<1>0. passed \subseteq passed'
  BY Grows DEF Grown
<1>1. CASE UNCHANGED <<config, vote, pushes>>
  BY <1>0, <1>1 DEF Voted
<1>2. ASSUME NEW p \in Slots, PushReceives(p) PROVE Voted'
  BY <1>2, Told DEF PushReceives, Telling, Voted
<1>3. ASSUME NEW p \in Slots, Quiet(p) PROVE Voted'
  BY <1>1, <1>3 DEF Quiet, Voted
<1>4. CASE ConfigChanges
  BY <1>4 DEF ConfigChanges, Voted
<1>5. CASE UNCHANGED vars
  BY <1>1, <1>5 DEF vars
<1> QED BY <1>1, <1>2, <1>3, <1>4, <1>5, Shape, Told

LEMMA OnBranchStep == ASSUME Inv, Blank, OnBranch, [Next]_vars PROVE OnBranch'
<1>0. /\ MaxPushes \in Nat /\ pushes \in [Contribs -> 0..MaxPushes]
      /\ \A x \in Commits : x[2] <= pushes[x[1]] => content'[x] = content[x]
  BY ContentStays, ContributionAssumption DEF Inv, Pushed
<1>1. ASSUME NEW c \in Contribs, pushes[c] <= pushes'[c], tip'[c] \in {tip[c], {}}
      PROVE  \E h \in 0..pushes'[c] : Holds(c, h)'
  <2>1. PICK h \in 0..pushes[c] : Holds(c, h)
    BY DEF OnBranch
  <2>2. pushes'[c] \in Nat
    BY PushedStep, ContributionAssumption DEF Pushed
  <2>3. h > 0 => content'[<<c, h>>] = content[<<c, h>>]
    BY <1>0 DEF Commits
  <2> QED BY <1>0, <1>1, <2>1, <2>2, <2>3 DEF Holds
<1>2. CASE \A c \in Contribs : tip'[c] \in {tip[c], {}}
  BY <1>1, <1>2, Grows DEF OnBranch, Grown
<1>3. ASSUME NEW p \in Slots, PushReceives(p) PROVE OnBranch'
  <2>1. PICK c, n : Receipt(p, c, n)
    BY <1>3, Received
  <2>2. CASE UNCHANGED tip
    BY <1>2, <2>2
  <2>3. CASE tip'[c] = content'[<<c, n>>]
    <3>1. n \in 0..pushes'[c] /\ n > 0
      BY <2>1 DEF Receipt
    <3>2. Holds(c, n)'
      BY <2>3, <3>1 DEF Holds
    <3>3. ASSUME NEW d \in Contribs \ {c} PROVE \E h \in 0..pushes'[d] : Holds(d, h)'
      <4>1. tip'[d] = tip[d] /\ pushes[d] <= pushes'[d]
        BY <2>1, Apart, Grows DEF Receipt, Grown
      <4> QED BY <1>1, <4>1
    <3> QED BY <3>1, <3>2, <3>3 DEF OnBranch
  <2> QED BY <2>1, <2>2, <2>3 DEF Receipt
<1>4. CASE UNCHANGED vars
  BY <1>2, <1>4 DEF vars
<1>5. CASE ConfigChanges
  BY <1>2, <1>5 DEF ConfigChanges
<1> QED BY <1>2, <1>3, <1>4, <1>5, Shape, Told DEF Quiet, TipsMove

LEMMA RowsReadStep == ASSUME Inv, RowsRead, [Next]_vars PROVE RowsRead'
<1>0. blind \subseteq blind'
  BY Grows DEF Grown
<1>1. CASE HeadsKept
  BY <1>0, <1>1 DEF RowsRead, HeadsKept
<1>2. CASE UNCHANGED row
  BY <1>0, <1>2 DEF RowsRead
<1>3. ASSUME NEW p \in Slots, SyncUpserts(p) PROVE RowsRead'
  <2>1. PICK c : c = req[p].on
    OBVIOUS
  <2>2. /\ c \in Contribs
        /\ row'[c].paths \/ <<c, row'[c].head>> \in blind'
        /\ \A d \in Contribs \ {c} : row'[d] = row[d]
    BY <1>3, <2>1, Upserted
  <2> QED BY <1>0, <2>2 DEF RowsRead
<1> QED BY <1>1, <1>2, <1>3, Shape, Told DEF Quiet, vars, ConfigChanges

-----------------------------------------------------------------------------
\* What is being applied may land: it is the head that was approved, unless
\* the contribution went astray.
LEMMA Applied ==
    ASSUME Inv, Landing, NEW p \in Slots, At(p, "apply")
    PROVE  tip[req[p].on] \subseteq Reaches(Good)
<1>1. PICK c : c = req[p].on
  OBVIOUS
<1>2. /\ c \in Contribs /\ req[p].head \in 0..MaxPushes
      /\ MaxPushes \in Nat /\ pushes[c] \in 0..MaxPushes
  BY <1>1, Known, ContributionAssumption DEF At, ContribSteps, Inv, Pushed
<1>3. ASSUME NEW h \in 1..MaxPushes, <<c, h>> \in Good, Holds(c, h)
      PROVE  tip[c] \subseteq Reaches(Good)
  <2>1. <<c, h>> \in Good \cap Commits
    BY <1>2, <1>3 DEF Commits
  <2> QED BY <1>3, <2>1 DEF Holds, Reaches
<1>4. CASE c \in astray
  <2>1. PICK h \in 0..pushes[c] : Holds(c, h)
    BY <1>2 DEF Landing, OnBranch
  <2>2. CASE h = 0
    BY <1>1, <2>1, <2>2 DEF Holds
  <2>3. CASE h # 0
    <3>1. h \in 1..MaxPushes
      BY <1>2, <2>3
    <3>2. <<c, h>> \in Good
      BY <1>2, <1>4, <3>1 DEF Good, Excepted, Commits
    <3> QED BY <1>1, <1>3, <2>1, <3>1, <3>2
  <2> QED BY <2>2, <2>3
<1>5. CASE c \notin astray
  <2>1. Straight(c) /\ Applying(p, c) /\ ~Pushing(p, c)
    BY <1>1, <1>2, <1>5 DEF Landing, AllStraight, Applying, Pushing, At, ApplySteps, PushSteps
  <2>2. \A q \in Slots : ~Syncing(q, c)
    BY <2>1 DEF Straight, Syncing, Pushing, Syncs, PushSteps
  <2>3. Holds(c, req[p].head)
    BY <2>1, <2>2 DEF Straight
  <2>4. req[p].head > 0 /\ <<c, req[p].head>> \in Good
    BY <1>1 DEF Landing, AllLand, Lands, At, Good, Excepted
  <2>5. req[p].head \in 1..MaxPushes
    BY <1>2, <2>4
  <2> QED BY <1>1, <1>3, <2>3, <2>4, <2>5
<1> QED BY <1>4, <1>5

\* What a branch gets was there, or may land.
LEMMA LandedStep == ASSUME Inv, Landing, [Next]_vars PROVE LandedWasApproved'
<1>0. Reaches(Good) \subseteq Reaches(Good)' /\ \A b \in Shared : tip[b] \subseteq Reaches(Good)
  BY ReachesStay DEF Landing, LandedWasApproved, Good, Shared
<1>1. CASE TipsMove
  <2>1. \A q \in Slots : req[q].at \in Writes => req[q].code \subseteq Reaches(Good)
    BY DEF Landing, AllLand, Lands
  <2> QED BY <1>0, <1>1, <2>1 DEF TipsMove, LandedWasApproved, Good, Shared
<1>2. CASE \A b \in Shared : tip'[b] = tip[b]
  BY <1>0, <1>2 DEF LandedWasApproved, Good, Shared
<1>3. ASSUME NEW p \in Slots, PushReceives(p) PROVE LandedWasApproved'
  <2>1. PICK c, n : Receipt(p, c, n)
    BY <1>3, Received
  <2> QED BY <1>2, <2>1, Apart DEF Receipt, Shared
<1> QED BY <1>1, <1>2, <1>3, Shape, Told DEF Quiet, vars, ConfigChanges

\* A request that does not move keeps what is known of what it lands.
LEMMA LandsKept ==
    ASSUME NEW r, Lands(r), Grown, Reaches(Good) \subseteq Reaches(Good)'
    PROVE  Lands(r)'
BY DEF Lands, Grown

\* A review that approves names a head the votes have approved, or one that
\* nobody was required to review.
LEMMA ReviewApproves ==
    ASSUME Inv, Landing, NEW p \in Slots, At(p, "review"), Review(req[p], TRUE) = "approved"
    PROVE  <<req[p].on, req[p].head>> \in passed \cup blind
<1>1. PICK r : r = req[p]
  OBVIOUS
<1>2. /\ r.on \in Contribs /\ r.head \in 0..MaxPushes /\ r.head <= pushes[r.on]
      /\ MaxPushes \in Nat /\ r.head # 0 /\ r.paths \in BOOLEAN
  BY <1>1, Known, ReviewStatus, ContributionAssumption DEF At, ContribSteps
<1>3. r.paths \/ <<r.on, r.head>> \in blind
  BY <1>1 DEF Landing, AllLand, Lands, At
<1>4. Verdict(RequiredReviewers(config, r.on, r.paths), r.head, vote[r.on]) = "approved"
  BY <1>1 DEF Review
<1>5. CASE r.paths = TRUE
  <2>1. <<r.on, r.head>> \in Commits
    BY <1>2 DEF Commits
  <2>2. <<r.on, r.head>> \in Approved(config, vote, pushes)
    BY <1>2, <1>4, <1>5, <2>1 DEF Approved
  <2> QED BY <1>1, <2>2 DEF Landing, Voted
<1> QED BY <1>1, <1>2, <1>3, <1>5

\* Every other step: the request lands what may land.
LEMMA TellingLands ==
    ASSUME Inv, Landing, [Next]_vars, NEW p \in Slots, Telling(p)
    PROVE  Lands(req[p])'
<1>0. /\ Grown /\ Reaches(Good) \subseteq Reaches(Good)'
      /\ \A b \in Shared : tip[b] \subseteq Reaches(Good)
  BY Grows, ReachesStay DEF Landing, LandedWasApproved, Good, Shared
<1>1. ASSUME req'[p].at \notin {"review", "apply"} \cup Writes, TRUE PROVE Lands(req[p])'
  BY <1>1 DEF Lands, Writes
<1>2. ASSUME NEW c \in Contribs, PushIsAuthorized(p, c) PROVE Lands(req[p])'
  BY <1>1, <1>2, Came DEF PushIsAuthorized, Writes
<1>3. ASSUME NEW c \in Contribs, ApplyLoads(p, c) PROVE Lands(req[p])'
  <2>1. /\ req'[p].at = "review" /\ req'[p].on = c /\ req'[p].head = row[c].head
        /\ req'[p].paths = row[c].paths
    BY <1>3, Loaded DEF ApplyLoads
  <2> QED BY <1>0, <2>1 DEF Lands, Writes, Landing, RowsRead, Grown
<1>4. CASE PushReceives(p)
  <2>1. req'[p].at = "sync"
    BY <1>4, Received DEF Receipt
  <2> QED BY <1>1, <2>1 DEF Writes
<1>5. CASE SyncReadsIssue(p)
  <2>1. req'[p].at \in {"idle", "upsert"}
    BY <1>5, Went, Ended DEF SyncReadsIssue
  <2> QED BY <1>1, <2>1 DEF Writes
<1>6. CASE SyncUpserts(p)
  BY <1>1, <1>6, Upserted DEF Writes
<1>7. CASE EndsHalfWay(p)
  BY <1>1, <1>7, Ended DEF EndsHalfWay, Writes
<1>8. CASE ApplyReviews(p)
  <2>1. CASE Done(p)
    BY <1>1, <2>1, Ended DEF Writes
  <2>2. CASE ~Done(p)
    <3>1. PICK ok \in BOOLEAN :
              /\ Review(req[p], ok) = "approved" /\ GoTo(p, "apply")
              /\ blind' = IF ok THEN blind ELSE blind \cup {<<req[p].on, req[p].head>>}
      BY <1>8, <2>2 DEF ApplyReviews
    <3>2. req[p].head > 0
      BY <1>8, <3>1, ReviewStatus, Known DEF ApplyReviews
    <3>3. <<req[p].on, req[p].head>> \in (passed \cup blind)'
      <4>1. CASE ok = TRUE
        BY <1>0, <1>8, <3>1, <4>1, ReviewApproves DEF ApplyReviews, Grown
      <4>2. CASE ok = FALSE
        BY <3>1, <4>2
      <4> QED BY <4>1, <4>2
    <3>4. req'[p].at = "apply" /\ req'[p].on = req[p].on /\ req'[p].head = req[p].head
      BY <3>1, Went
    <3> QED BY <3>2, <3>3, <3>4 DEF Lands, Writes
  <2> QED BY <2>1, <2>2
<1>9. CASE ApplyMerges(p)
  <2>1. CASE Done(p)
    BY <1>1, <2>1, Ended DEF Writes
  <2>2. CASE GoTo(p, "mark")
    BY <1>1, <2>2, Went DEF Writes
  <2>3. CASE Continue(p, [req[p] EXCEPT !.at = "applyWrites",
                                        !.code = tip[IssueOf(req[p].on)] \cup tip[req[p].on]])
    <3>0. PICK k : k = tip[IssueOf(req[p].on)] \cup tip[req[p].on]
      OBVIOUS
    <3>1. /\ req'[p].at = "applyWrites" /\ req'[p].on = req[p].on /\ req'[p].head = req[p].head
          /\ req'[p].code = tip[IssueOf(req[p].on)] \cup tip[req[p].on]
      <4>1. Plans(p, "applyWrites", k)
        BY <2>3, <3>0 DEF Plans
      <4> QED BY <3>0, <4>1, Planned
    <3>2. tip[IssueOf(req[p].on)] \cup tip[req[p].on] \subseteq Reaches(Good)
      BY <1>0, <1>9, Applied, Known DEF ApplyMerges, At, ContribSteps, Shared
    <3>3. req[p].head > 0 /\ <<req[p].on, req[p].head>> \in (passed \cup blind)'
      BY <1>0, <1>9 DEF ApplyMerges, At, Landing, AllLand, Lands, Grown
    <3> QED BY <1>0, <3>1, <3>2, <3>3 DEF Lands
  <2> QED BY <1>9, <2>1, <2>2, <2>3 DEF ApplyMerges, MergeReads
<1>10. CASE MergeMerges(p)
  <2>1. CASE Done(p)
    BY <1>1, <2>1, Ended DEF Writes
  <2>2. CASE GoTo(p, "mergeState")
    BY <1>1, <2>2, Went DEF Writes
  <2>3. CASE Continue(p, [req[p] EXCEPT !.at = "mergeWrites",
                                        !.code = tip[BaseOf(req[p].on)] \cup tip[req[p].on]])
    <3>0. PICK k : k = tip[BaseOf(req[p].on)] \cup tip[req[p].on]
      OBVIOUS
    <3>1. /\ req'[p].at = "mergeWrites"
          /\ req'[p].code = tip[BaseOf(req[p].on)] \cup tip[req[p].on]
      <4>1. Plans(p, "mergeWrites", k)
        BY <2>3, <3>0 DEF Plans
      <4> QED BY <3>0, <4>1, Planned
    <3>2. req[p].on \in Shared /\ BaseOf(req[p].on) \in Shared
      BY <1>10, Known, Apart DEF MergeMerges, At, ContribSteps, Shared
    <3> QED BY <1>0, <3>1, <3>2 DEF Lands
  <2> QED BY <1>10, <2>1, <2>2, <2>3 DEF MergeMerges, MergeReads
<1> QED BY <1>2, <1>3, <1>4, <1>5, <1>6, <1>7, <1>8, <1>9, <1>10 DEF Telling

LEMMA AllLandStep == ASSUME Inv, Landing, [Next]_vars PROVE AllLand'
<1>0. Grown /\ Reaches(Good) \subseteq Reaches(Good)'
  BY Grows, ReachesStay DEF Landing
<1>1. ASSUME NEW q \in Slots, req'[q] = req[q] PROVE Lands(req[q])'
  <2>1. PICK r : r = req[q] /\ r = req'[q]
    BY <1>1
  <2>2. Lands(r)
    BY <2>1 DEF Landing, AllLand
  <2> QED BY <1>0, <2>1, <2>2, LandsKept
<1>2. ASSUME NEW p \in Slots, Others(p), Lands(req[p])' PROVE AllLand'
  BY <1>1, <1>2 DEF AllLand, Others
<1>3. ASSUME NEW p \in Slots, Quiet(p) PROVE AllLand'
  <2>1. Lands(req[p])'
    BY <1>3 DEF Quiet, Lands, Writes, ApplySteps
  <2> QED BY <1>2, <1>3, <2>1 DEF Quiet
<1>4. ASSUME NEW p \in Slots, Telling(p) PROVE AllLand'
  BY <1>2, <1>4, TellingLands, Told
<1>5. CASE UNCHANGED req
  BY <1>1, <1>5 DEF AllLand
<1> QED BY <1>3, <1>4, <1>5, Shape DEF vars, ConfigChanges

-----------------------------------------------------------------------------
\* A head that held the branch holds it as long as that is not pushed.
LEMMA HoldsStays ==
    ASSUME Inv, Blank, [Next]_vars, NEW c \in Contribs, tip'[c] \in {tip[c], {}},
           NEW h \in Nat, h <= pushes[c], Holds(c, h)
    PROVE  Holds(c, h)'
<1>1. h > 0 => <<c, h>> \in Commits
  BY ContributionAssumption DEF Commits, Inv, Pushed
<1>2. h > 0 => content'[<<c, h>>] = content[<<c, h>>]
  BY <1>1, ContentStays
<1> QED BY <1>2 DEF Holds

\* Requests that push, sync or apply c neither come nor move; one may end
\* that does not sync.
LEMMA StraightStays ==
    ASSUME Inv, Blank, [Next]_vars, NEW c \in Contribs, Straight(c), NEW p \in Slots, Others(p),
           tip'[c] \in {tip[c], {}}, row'[c].head = row[c].head,
           Pushing(p, c)' => Pushing(p, c),
           Applying(p, c)' => Applying(p, c) /\ req'[p].head = req[p].head,
           Syncing(p, c)' <=> Syncing(p, c),
           Syncing(p, c) => req'[p].head = req[p].head
    PROVE  Straight(c)'
<1>1. /\ \A q \in Slots : Pushing(q, c)' => Pushing(q, c)
      /\ \A q \in Slots : Applying(q, c)' => Applying(q, c) /\ req'[q].head = req[q].head
      /\ \A q \in Slots : Syncing(q, c)' <=> Syncing(q, c)
      /\ \A q \in Slots : Syncing(q, c) => req'[q].head = req[q].head
  BY DEF Others, Pushing, Applying, Syncing
<1>2. \A q \in Slots : Syncing(q, c) => req[q].head \in Nat /\ req[q].head <= pushes[c]
  BY Known DEF Syncing, Syncs, ContribSteps
<1>3. row[c].head \in Nat /\ row[c].head <= pushes[c]
  BY DEF Inv, Rows, Row
<1>4. \A q \in Slots : Syncing(q, c)' => Holds(c, req[q].head)' /\ req'[q].head = req[q].head
  BY <1>1, <1>2, HoldsStays DEF Straight
<1>5. (\A q \in Slots : ~Syncing(q, c)') => Holds(c, row[c].head)'
  BY <1>1, <1>3, HoldsStays DEF Straight
<1> QED BY <1>1, <1>4, <1>5 DEF Straight, Holds

LEMMA Elsewhere ==
    ASSUME Inv, Blank, [Next]_vars, NEW c \in Contribs, Straight(c), NEW p \in Slots, Others(p),
           tip'[c] \in {tip[c], {}}, row'[c].head = row[c].head,
           ~Syncing(p, c), ~Pushing(p, c)', ~Applying(p, c)'
    PROVE  Straight(c)'
<1>1. ~Syncing(p, c)'
  BY DEF Syncing, Pushing, Syncs, PushSteps
<1> QED BY <1>1, StraightStays

\* A push is authorized, or an apply begins: nothing else is under way on it.
LEMMA StraightPush ==
    ASSUME Inv, Blank, [Next]_vars, NEW p \in Slots, NEW d \in Contribs, PushIsAuthorized(p, d),
           NEW c \in Contribs, c \notin astray', Straight(c)
    PROVE  Straight(c)'
<1>1. /\ Others(p) /\ req'[p].at = "push" /\ req'[p].on = d /\ req[p].at = "idle"
      /\ UNCHANGED <<tip, row, content>>
  BY Came DEF PushIsAuthorized, Begin, Busy
<1>2. ~Syncing(p, c) /\ ~Syncing(p, c)' /\ ~Applying(p, c)'
  BY <1>1 DEF Syncing, Applying, Syncs, ApplySteps
<1>3. CASE c # d
  BY <1>1, <1>2, <1>3, Elsewhere DEF Pushing
<1>4. CASE c = d
  <2>1. \A q \in Slots : ~Pushing(q, c) /\ ~Applying(q, c)
    BY <1>4 DEF PushIsAuthorized, UnderWay, Strays, Pushing, Applying
  <2>2. \A q \in Slots \ {p} : ~Pushing(q, c)' /\ ~Applying(q, c)'
    BY <1>1, <2>1 DEF Others, Pushing, Applying
  <2>3. /\ \A q \in Slots : ~Syncing(q, c) /\ ~Syncing(q, c)'
        /\ \A q \in Slots : ~Applying(q, c)'
    BY <1>2, <2>1, <2>2 DEF Syncing, Pushing, Syncs, PushSteps
  <2>4. Holds(c, row[c].head)'
    BY <1>1, <2>3 DEF Straight, Holds
  <2> QED BY <2>2, <2>3, <2>4 DEF Straight
<1> QED BY <1>3, <1>4

LEMMA StraightApply ==
    ASSUME Inv, Blank, [Next]_vars, NEW p \in Slots, NEW d \in Contribs, ApplyLoads(p, d),
           NEW c \in Contribs, c \notin astray', Straight(c)
    PROVE  Straight(c)'
<1>1. /\ Others(p) /\ req'[p].at = "review" /\ req'[p].on = d /\ req[p].at = "idle"
      /\ req'[p].head = row[d].head /\ UNCHANGED <<tip, row, content>>
  BY Loaded DEF ApplyLoads, Busy
<1>2. ~Syncing(p, c) /\ ~Pushing(p, c)'
  BY <1>1 DEF Syncing, Pushing, Syncs, PushSteps
<1>3. CASE c # d
  BY <1>1, <1>2, <1>3, Elsewhere DEF Applying
<1>4. CASE c = d
  <2>1. \A q \in Slots : ~Pushing(q, c)
    BY <1>4 DEF ApplyLoads, UnderWay, Strays, Pushing
  <2>2. \A q \in Slots : ~Pushing(q, c)'
    BY <1>1, <1>2, <2>1 DEF Others, Pushing
  <2>3. \A q \in Slots : ~Syncing(q, c) /\ ~Syncing(q, c)'
    BY <2>1, <2>2 DEF Syncing, Pushing, Syncs, PushSteps
  <2>4. \A q \in Slots : Applying(q, c)' => req'[q].head = row'[c].head
    BY <1>1, <1>4 DEF Others, Applying, Straight
  <2>5. Holds(c, row[c].head)'
    BY <1>1, <2>3 DEF Straight, Holds
  <2> QED BY <2>2, <2>3, <2>4, <2>5 DEF Straight
<1> QED BY <1>3, <1>4

\* A push is received: the branch is what the sync will write.
LEMMA StraightReceived ==
    ASSUME Inv, Blank, [Next]_vars, NEW p \in Slots, PushReceives(p),
           NEW c \in Contribs, c \notin astray', Straight(c)
    PROVE  Straight(c)'
<1>1. PICK d, n : Receipt(p, d, n)
  BY Received
<1>2. Others(p) /\ UNCHANGED row /\ n > 0
  BY <1>1, Told DEF Telling, Receipt
<1>3. CASE c # d
  <2>1. ~Syncing(p, c) /\ ~Pushing(p, c)' /\ ~Applying(p, c)' /\ tip'[c] = tip[c]
    BY <1>1, <1>3, Apart DEF Receipt, Syncing, Syncs, Pushing, Applying
  <2> QED BY <1>2, <2>1, Elsewhere
<1>4. CASE c = d
  <2>1. /\ req[p].at = "push" /\ req[p].on = c /\ req'[p].at = "sync" /\ req'[p].on = c
        /\ req'[p].head = n /\ tip'[c] = content'[<<c, n>>]
    BY <1>1, <1>4 DEF Receipt
  <2>2. \A q \in Slots \ {p} : ~Pushing(q, c) /\ ~Applying(q, c)
    BY <2>1 DEF Straight, Pushing, PushSteps
  <2>3. \A q \in Slots \ {p} : ~Pushing(q, c)' /\ ~Applying(q, c)'
    BY <1>2, <2>2 DEF Others, Pushing, Applying
  <2>4. ~Applying(p, c)' /\ Syncing(p, c)'
    BY <2>1 DEF Applying, Syncing, Syncs, ApplySteps
  <2>5. \A q \in Slots \ {p} : ~Syncing(q, c)'
    BY <2>3 DEF Syncing, Pushing, Syncs, PushSteps
  <2>6. Holds(c, req[p].head)'
    BY <1>2, <2>1 DEF Holds
  <2> QED BY <2>3, <2>4, <2>5, <2>6 DEF Straight
<1> QED BY <1>3, <1>4

\* A sync writes the head of the branch.
LEMMA StraightUpserts ==
    ASSUME Inv, Blank, [Next]_vars, NEW p \in Slots, SyncUpserts(p),
           NEW c \in Contribs, c \notin astray', Straight(c)
    PROVE  Straight(c)'
<1>1. /\ Others(p) /\ req'[p].at = "compute" /\ UNCHANGED <<tip, content>>
      /\ req[p].at = "upsert"
  BY Upserted DEF SyncUpserts, At
<1>2. ~Syncing(p, c)' /\ ~Pushing(p, c)' /\ ~Applying(p, c)'
  BY <1>1 DEF Syncing, Syncs, Pushing, Applying, PushSteps, ApplySteps
<1>3. CASE c # req[p].on
  <2>1. row'[c] = row[c]
    BY <1>3, Upserted
  <2> QED BY <1>1, <1>2, <1>3, <2>1, Elsewhere DEF Syncing
<1>4. CASE c = req[p].on
  <2>1. Syncing(p, c) /\ Pushing(p, c) /\ row'[c].head = req[p].head
    BY <1>1, <1>4, Upserted DEF Syncing, Pushing, Syncs, PushSteps
  <2>2. \A q \in Slots \ {p} : ~Pushing(q, c) /\ ~Applying(q, c)
    BY <2>1 DEF Straight
  <2>3. \A q \in Slots : ~Pushing(q, c)' /\ ~Applying(q, c)'
    BY <1>1, <1>2, <2>2 DEF Others, Pushing, Applying
  <2>4. Holds(c, row[c].head)'
    BY <1>1, <2>1 DEF Straight, Holds
  <2> QED BY <2>3, <2>4 DEF Straight, Syncing, Pushing, Syncs, PushSteps
<1> QED BY <1>3, <1>4

\* The other steps: what does not end as it should has gone astray.
LEMMA StraightRest ==
    ASSUME Inv, Blank, [Next]_vars, NEW p \in Slots,
           SyncReadsIssue(p) \/ EndsHalfWay(p) \/ ApplyReviews(p) \/ ApplyMerges(p) \/ MergeMerges(p),
           NEW c \in Contribs, c \notin astray', Straight(c)
    PROVE  Straight(c)'
<1>1. Others(p) /\ UNCHANGED <<tip, row>>
  <2>1. Telling(p) /\ Others(p)
    BY Told DEF Telling
  <2> QED BY <2>1 DEF SyncReadsIssue, EndsHalfWay, ApplyReviews, ApplyMerges, MergeMerges
<1>2. ASSUME ~Syncing(p, c), req'[p].at \notin PushSteps \cup ApplySteps PROVE Straight(c)'
  BY <1>1, <1>2, Elsewhere DEF Pushing, Applying
<1>3. ASSUME Done(p), ~Syncing(p, c) PROVE Straight(c)'
  BY <1>2, <1>3, Ended DEF PushSteps, ApplySteps
<1>4. CASE SyncReadsIssue(p)
  <2>1. CASE GoTo(p, "upsert")
    <3>1. /\ req[p].at = "sync" /\ req'[p].at = "upsert" /\ req'[p].on = req[p].on
          /\ req'[p].head = req[p].head
      BY <1>4, <2>1, Went DEF SyncReadsIssue, At
    <3>2. /\ Pushing(p, c)' => Pushing(p, c)
          /\ ~Applying(p, c)'
          /\ Syncing(p, c)' <=> Syncing(p, c)
      BY <3>1 DEF Pushing, Applying, Syncing, Syncs, PushSteps, ApplySteps
    <3> QED BY <1>1, <3>1, <3>2, StraightStays
  <2>2. CASE Done(p) /\ Strays(req[p].on)
    BY <1>3, <2>2 DEF Strays, Syncing
  <2> QED BY <1>4, <2>1, <2>2 DEF SyncReadsIssue
<1>5. CASE EndsHalfWay(p)
  BY <1>3, <1>5 DEF EndsHalfWay, Strays, Syncing, Syncs
<1>6. CASE ApplyReviews(p) \/ ApplyMerges(p)
  <2>0. ~Syncing(p, c) /\ req[p].at \in ApplySteps
    BY <1>6 DEF ApplyReviews, ApplyMerges, At, Syncing, Syncs, ApplySteps
  <2>1. ASSUME req'[p].at \in ApplySteps, req'[p].on = req[p].on, req'[p].head = req[p].head
        PROVE  Straight(c)'
    <3>1. /\ ~Pushing(p, c)' /\ ~Syncing(p, c)'
          /\ Applying(p, c)' => Applying(p, c)
      BY <2>0, <2>1 DEF Pushing, Applying, Syncing, Syncs, PushSteps, ApplySteps
    <3> QED BY <1>1, <2>0, <2>1, <3>1, StraightStays
  <2>2. CASE GoTo(p, "apply")
    BY <2>1, <2>2, Went DEF ApplySteps
  <2>3. CASE GoTo(p, "mark")
    BY <1>2, <2>0, <2>3, Went DEF PushSteps, ApplySteps
  <2>4. ASSUME NEW k, Plans(p, "applyWrites", k) PROVE Straight(c)'
    BY <2>1, <2>4, Planned DEF ApplySteps
  <2>5. Done(p) \/ GoTo(p, "apply") \/ GoTo(p, "mark") \/ \E k : Plans(p, "applyWrites", k)
    BY <1>6 DEF ApplyReviews, ApplyMerges, MergeReads, Plans
  <2> QED BY <1>3, <2>0, <2>2, <2>3, <2>4, <2>5
<1>7. CASE MergeMerges(p)
  <2>0. ~Syncing(p, c)
    BY <1>7 DEF MergeMerges, At, Syncing, Syncs
  <2>1. CASE GoTo(p, "mergeState")
    BY <1>2, <2>0, <2>1, Went DEF PushSteps, ApplySteps
  <2>2. ASSUME NEW k, Plans(p, "mergeWrites", k) PROVE Straight(c)'
    BY <1>2, <2>0, <2>2, Planned DEF PushSteps, ApplySteps
  <2>3. Done(p) \/ GoTo(p, "mergeState") \/ \E k : Plans(p, "mergeWrites", k)
    BY <1>7 DEF MergeMerges, MergeReads, Plans
  <2> QED BY <1>3, <2>0, <2>1, <2>2, <2>3
<1> QED BY <1>4, <1>5, <1>6, <1>7

LEMMA StraightStep == ASSUME Inv, Blank, AllStraight, [Next]_vars PROVE AllStraight'
<1> SUFFICES ASSUME NEW c \in Contribs, c \notin astray' PROVE Straight(c)'
  BY DEF AllStraight
<1>1. Straight(c)
  BY Grows DEF AllStraight, Grown
<1>2. ASSUME NEW p \in Slots, Quiet(p) PROVE Straight(c)'
  <2>1. /\ ~Syncing(p, c) /\ ~Pushing(p, c)' /\ ~Applying(p, c)' /\ Others(p)
        /\ tip'[c] \in {tip[c], {}} /\ row'[c].head = row[c].head
    BY <1>2 DEF Quiet, Syncing, Pushing, Applying, TipsMove, HeadsKept
  <2> QED BY <1>1, <2>1, Elsewhere
<1>3. ASSUME NEW p \in Slots, Telling(p) PROVE Straight(c)'
  BY <1>1, <1>3, StraightPush, StraightApply, StraightReceived, StraightUpserts, StraightRest
  DEF Telling
<1>4. CASE UNCHANGED <<req, tip, row, content>>
  BY <1>1, <1>4 DEF Straight, Holds, Pushing, Applying, Syncing
<1> QED BY <1>2, <1>3, <1>4, Shape DEF vars, ConfigChanges

-----------------------------------------------------------------------------
LEMMA LandingInit == Init => Landing
<1> SUFFICES ASSUME Init PROVE Landing
  OBVIOUS
<1>1. /\ tip = [b \in Branches |-> {}] /\ content = [x \in Commits |-> {}]
      /\ pushes = [c \in Contribs |-> 0] /\ req = [p \in Slots |-> Idle]
      /\ row = [c \in Contribs |-> [status |-> "none", head |-> 0, paths |-> TRUE]]
  BY DEF Init
<1>2. Blank
  BY <1>1 DEF Blank
<1>3. Voted
  <2>1. \A x \in Commits : ~(x[2] <= pushes[x[1]])
    BY <1>1, ContributionAssumption DEF Commits
  <2> QED BY <2>1 DEF Voted, Approved
<1>4. OnBranch
  <2>1. \A c \in Contribs : 0 \in 0..pushes[c] /\ tip[c] = {}
    BY <1>1, Apart
  <2> QED BY <2>1 DEF OnBranch, Holds
<1>5. AllStraight
  <2>1. \A p \in Slots : req[p].at = "idle"
    BY <1>1 DEF Idle
  <2>2. \A c \in Contribs : tip[c] = {}
    BY <1>1, Apart
  <2> QED BY <2>1, <2>2 DEF AllStraight, Straight, Pushing, Applying, Syncing, Holds,
                            PushSteps, ApplySteps, Syncs
<1>6. RowsRead
  BY <1>1 DEF RowsRead
<1>7. AllLand
  BY <1>1 DEF AllLand, Lands, Idle, Writes
<1>8. LandedWasApproved
  BY <1>1, Apart DEF LandedWasApproved
<1> QED BY <1>2, <1>3, <1>4, <1>5, <1>6, <1>7, <1>8 DEF Landing

LEMMA LandingStep == ASSUME Inv, Landing, [Next]_vars PROVE Landing'
BY ContentStays, VotedStep, OnBranchStep, StraightStep, RowsReadStep, AllLandStep, LandedStep
DEF Landing

\* Code reaches an issue branch or the base only through the review, however
\* requests overlap and fail: what is there is reachable from a commit that
\* the votes approved by the configuration as it was then, unless the review
\* could not read the configuration or the diff, or the row of the
\* contribution was behind its branch.
THEOREM LandedCodeWasReviewed == Spec => []LandedWasApproved
<1>1. Inv /\ Landing /\ [Next]_vars => Landing'
  BY LandingStep
<1>2. Landing => LandedWasApproved
  BY DEF Landing
<1> QED BY <1>1, <1>2, LandingInit, Invariance, PTL DEF Spec

-----------------------------------------------------------------------------
(* Requests that do not overlap.  The one under way has read nothing that  *)
(* has changed since.                                                      *)

\* A branch that is gone has no commits; a contribution branch that is there
\* has one of its own.
GoneIsEmpty == \A b \in Branches : b \notin refs => tip[b] = {}
OwnCommit   == \A c \in Contribs : c \in refs => \E x \in tip[c] : x[1] = c
TipInv      == GoneIsEmpty /\ OwnCommit

GateSteps  == {"mergeGate", "mergeAhead", "mergeSubs", "merge", "mergeWrites", "mergeState",
               "closeSubs", "closeIssue"}

\* What the votes say by the present configuration.
Current(c) == Verdict(RequiredReviewers(config, c, row[c].paths), row[c].head, vote[c])

\* What a request knows of its contribution, ...
ContribFacts(r) ==
    LET c == r.on
    IN  /\ r.at \in {"upsert", "vote", "compute", "setStatus"} => state[IssueOf(c)] = "open"
        /\ r.at \in {"vote", "compute"} => /\ r.head = row[c].head /\ r.status = row[c].status
                                           /\ r.paths = row[c].paths
        /\ r.at = "setStatus" => /\ r.status \in {"pending", "rejected", "approved"}
                                 /\ faults > 0 \/ changes > 0 \/ r.status = Current(c)
        /\ r.at \in {"setStatus", "review", "apply", "applyWrites", "mark", "close", "cleanClose"}
               => row[c].status \notin Terminal
        /\ r.at = "applyWrites" => tip[IssueOf(c)] \subseteq r.code /\ \E x \in r.code : x[1] = c
        /\ r.at = "mark" => \E x \in tip[IssueOf(c)] : x[1] = c

\* ... and of its issue.
IssueFacts(r) ==
    LET i == r.on
    IN  /\ r.at \in GateSteps \cup {"deleteBranch"} => i \in Issues
        /\ r.at \in GateSteps => state[i] = "open"
        /\ r.at \in {"mergeAhead", "mergeSubs", "merge", "mergeWrites", "mergeState"} =>
               \A c \in Of(i) : row[c].status # "pending"
        /\ r.at \in {"merge", "mergeWrites", "mergeState", "closeIssue"} =>
               faults > 0 \/ OpenDescendants(i) = {}
        /\ r.at = "mergeWrites" => tip[i] \cup tip[BaseOf(i)] \subseteq r.code
        /\ r.at \in {"mergeState", "deleteBranch"} => tip[i] \subseteq tip[BaseOf(i)]
        /\ r.at = "create" => state["root"] = "open"

\* A status that the votes have made stale is being recomputed.
Computing(c) == \E p \in Slots : req[p].at \in {"compute", "setStatus"} /\ req[p].on = c
Cached(c)    == row[c].status \in Terminal \cup {"none", Current(c)}
CacheKept    == faults = 0 /\ changes = 0 => \A c \in Contribs : Cached(c) \/ Computing(c)
ConfigKept   == UNCHANGED <<config, changes>>

MergedIsReviewed == \A c \in Contribs : state[IssueOf(c)] = "merged" => row[c].status # "pending"
ParentIsLast     == faults > 0 \/ (state["root"] \in {"merged", "closed"} => state["sub"] # "open")

OneBusy == \A p, q \in Slots : Busy(p) /\ Busy(q) => p = q
Facts   == \A p \in Slots : ContribFacts(req[p]) /\ IssueFacts(req[p])
Results == AppliedIsOnBranch /\ MergedIsReviewed /\ ParentIsLast /\ CacheKept

AloneInv == overlaps = 0 => OneBusy /\ Facts /\ Results

-----------------------------------------------------------------------------
\* What the actions do to branches that are gone and to those of contributions.
LEMMA TipInvInit == Init => TipInv
<1> SUFFICES ASSUME Init PROVE TipInv
  OBVIOUS
<1>1. tip = [b \in Branches |-> {}] /\ refs = {"main"} \cup {i \in Issues : state[i] = "open"}
  BY DEF Init
<1>2. GoneIsEmpty
  BY <1>1 DEF GoneIsEmpty
<1>3. OwnCommit
  BY <1>1, Apart DEF OwnCommit
<1> QED BY <1>2, <1>3 DEF TipInv

LEMMA TipInvStep == ASSUME Inv, TipInv, [Next]_vars PROVE TipInv'
<1> USE DEF TipInv, GoneIsEmpty, OwnCommit
<1>0. tip \in [Branches -> Code] /\ refs \subseteq Branches
  BY DEF Inv, Tips, States
<1>1. ASSUME NEW b \in {"main"} \cup Issues, NEW S, refs' = refs \cup {b}, tip' = [tip EXCEPT ![b] = S]
      PROVE  TipInv'
  BY <1>0, <1>1, Apart
<1>2. ASSUME NEW b \in Branches, refs' = refs \ {b}, tip' = [tip EXCEPT ![b] = {}]
      PROVE  TipInv'
  BY <1>0, <1>2
<1>3. ASSUME NEW p \in Slots, PushReceives(p) PROVE TipInv'
  <2> DEFINE k == req[p].on
             n == pushes[k] + 1
  <2>1. k \in Contribs /\ k \in Branches
    BY <1>3, Known, Apart DEF PushReceives, At, ContribSteps
  <2>2. CASE UNCHANGED <<refs, tip>>
    BY <2>2
  <2>3. CASE PushMovesRef(p, n)
    <3>1. PICK base : tip' = [tip EXCEPT ![k] = base \cup {<<k, n>>}]
      BY <2>3 DEF PushMovesRef
    <3>2. refs' = refs \cup {k} /\ <<k, n>>[1] = k
      BY <2>3 DEF PushMovesRef
    <3>3. tip'[k] = base \cup {<<k, n>>} /\ \A b \in Branches \ {k} : tip'[b] = tip[b]
      BY <1>0, <2>1, <3>1
    <3> HIDE DEF k, n
    <3>4. \E x \in tip'[k] : x[1] = k
      BY <3>2, <3>3
    <3> QED BY <2>1, <3>2, <3>3, <3>4, Apart
  <2> QED BY <1>3, <2>2, <2>3 DEF PushReceives
<1>4. ASSUME NEW p \in Slots, NEW c \in Contribs, PushDeletesRef(p, c) \/ CleanDeletes(p, c) PROVE TipInv'
  BY <1>2, <1>4, Apart DEF PushDeletesRef, CleanDeletes
<1>5. ASSUME NEW p \in Slots, ApplySetsRef(p) \/ MergeMovesBase(p) PROVE TipInv'
  <2>1. CASE ApplySetsRef(p)
    BY <1>1, <2>1, Known DEF ApplySetsRef, MergeSetsRef, At, ContribSteps
  <2>2. CASE MergeMovesBase(p)
    BY <1>1, <2>2, Known, Apart DEF MergeMovesBase, MergeSetsRef, At, ContribSteps
  <2> QED BY <1>5, <2>1, <2>2
<1>6. ASSUME NEW p \in Slots, MergeDeletesBranch(p) PROVE TipInv'
  BY <1>2, <1>6, Known DEF MergeDeletesBranch
<1>7. ASSUME NEW p \in Slots, CreateMakesBranch(p) PROVE TipInv'
  BY <1>1, <1>7 DEF CreateMakesBranch, Issues
<1>8. CASE UNCHANGED <<refs, tip>>
  BY <1>8
<1> QED
  BY <1>3, <1>4, <1>5, <1>6, <1>7, <1>8
  DEF Next, Arrives, OnContribution, OnIssue, vars, PushIsAuthorized, VoteLoads, ApplyLoads,
      CloseLoads, MergeLoads, CloseIssueLoads, CreateLoads, SyncDeletion, SyncReadsIssue,
      SyncUpserts, ComputeReads, ComputeWrites, VoteIsRecorded, ApplyReviews, ApplyMerges,
      ApplyMarks, CloseWrites, MergeGate, MergeAhead, MergeSubs, SubIssueGate, MergeMerges,
      MergeSetsState, CleanReads, CleanCloses, CleanEnds, CloseIssueSubs, CloseIssueSetsState,
      CreateInserts, EndsHalfWay, ConfigChanges

-----------------------------------------------------------------------------
\* The request of a slot is the only one before and after a step.
OnlyOne(p) ==
    /\ overlaps = 0
    /\ \A q \in Slots \ {p} : req[q].at = "idle" /\ req'[q].at = "idle"

LEMMA Only ==
    ASSUME Inv, AloneInv, overlaps' = 0, NEW p \in Slots, NEW r,
           Begin(p, r) \/ (Busy(p) /\ Continue(p, r))
    PROVE  OnlyOne(p) /\ req'[p] = r
<1>1. overlaps \in Nat /\ req \in [Slots -> Request]
  BY DEF Inv, Counters, Requests
<1>2. overlaps = 0 /\ (Begin(p, r) => \A q \in Slots : ~Busy(q))
  BY <1>1 DEF Begin, Continue
<1>3. req' = [req EXCEPT ![p] = r]
  BY DEF Begin, Continue
<1>4. \A q \in Slots \ {p} : ~Busy(q)
  BY <1>2 DEF AloneInv, OneBusy
<1> QED BY <1>1, <1>2, <1>3, <1>4 DEF OnlyOne, Busy

\* A first step, a further step, and the end of a request.
LEMMA Starts ==
    ASSUME Inv, AloneInv, overlaps' = 0, NEW p \in Slots, NEW s, NEW b, Begin(p, AtStep(s, b))
    PROVE  OnlyOne(p) /\ req[p].at = "idle" /\ req'[p].at = s /\ req'[p].on = b
<1>1. AtStep(s, b).at = s /\ AtStep(s, b).on = b
  BY DEF AtStep, Idle
<1>2. OnlyOne(p) /\ req'[p] = AtStep(s, b) /\ req[p].at = "idle"
  BY Only DEF Begin, Busy
<1> QED BY <1>1, <1>2

LEMMA Loads ==
    ASSUME Inv, AloneInv, overlaps' = 0, NEW p \in Slots, NEW s, NEW c \in Contribs, Load(p, s, c)
    PROVE  /\ OnlyOne(p) /\ req[p].at = "idle" /\ req'[p].at = s /\ req'[p].on = c
           /\ req'[p].head = row[c].head /\ req'[p].status = row[c].status
           /\ req'[p].paths = row[c].paths
<1>1. Begin(p, [at |-> s, on |-> c, head |-> row[c].head, status |-> row[c].status,
                paths |-> row[c].paths, code |-> {}])
  BY DEF Load
<1>2. /\ req'[p] = [at |-> s, on |-> c, head |-> row[c].head, status |-> row[c].status,
                    paths |-> row[c].paths, code |-> {}]
      /\ OnlyOne(p)
  BY <1>1, Only
<1> QED BY <1>1, <1>2 DEF Begin, Busy

LEMMA Goes ==
    ASSUME Inv, AloneInv, overlaps' = 0, NEW p \in Slots, Busy(p), NEW s, GoTo(p, s)
    PROVE  /\ OnlyOne(p) /\ req'[p].at = s /\ req'[p].on = req[p].on
           /\ req'[p].head = req[p].head /\ req'[p].status = req[p].status
           /\ req'[p].code = req[p].code /\ req'[p].paths = req[p].paths
<1>1. req'[p] = [req[p] EXCEPT !.at = s] /\ OnlyOne(p)
  BY Only DEF GoTo
<1> QED BY <1>1, Known DEF Request

LEMMA Ends ==
    ASSUME Inv, AloneInv, overlaps' = 0, NEW p \in Slots, Busy(p), Done(p)
    PROVE  OnlyOne(p) /\ req'[p].at = "idle"
BY Only DEF Done, Idle

LEMMA Reading ==
    ASSUME Inv, NEW ok \in BOOLEAN, Reads(ok)
    PROVE  faults' = faults \/ (ok = FALSE /\ faults' > 0)
BY DEF Reads, Inv, Counters

\* What is known as long as requests do not overlap.
LEMMA Alone ==
    ASSUME AloneInv, NEW p \in Slots, OnlyOne(p)
    PROVE  /\ ContribFacts(req[p]) /\ IssueFacts(req[p])
           /\ AppliedIsOnBranch /\ MergedIsReviewed /\ ParentIsLast /\ CacheKept
           /\ \A c \in Contribs :
                  Computing(c) => req[p].at \in {"compute", "setStatus"} /\ req[p].on = c
BY DEF AloneInv, OnlyOne, Facts, Results, Computing

LEMMA AloneNext ==
    ASSUME NEW p \in Slots, OnlyOne(p), ContribFacts(req[p])', IssueFacts(req[p])', Results'
    PROVE  AloneInv'
<1>1. \A q \in Slots \ {p} : ContribFacts(req[q])' /\ IssueFacts(req[q])'
  BY DEF OnlyOne, ContribFacts, IssueFacts, GateSteps
<1>2. OneBusy'
  BY DEF OnlyOne, OneBusy, Busy
<1> QED BY <1>1, <1>2 DEF AloneInv, Facts

LEMMA AloneEnds ==
    ASSUME NEW p \in Slots, OnlyOne(p), req'[p].at = "idle", Results'
    PROVE  AloneInv'
<1>1. ContribFacts(req[p])' /\ IssueFacts(req[p])'
  BY DEF ContribFacts, IssueFacts, GateSteps
<1> QED BY <1>1, AloneNext

\* No commit leaves the issue branches and the base.
TipsKept ==
    \A b \in {"main"} \cup Issues : \A x \in tip[b] :
        \E a \in {"main"} \cup Issues : x \in tip'[a]

\* What was applied stays somewhere.
LEMMA AppliedStays ==
    ASSUME AppliedIsOnBranch, TipsKept,
           \A c \in Contribs : row'[c].status = "merged" =>
               \/ row[c].status = "merged"
               \/ \E b \in {"main"} \cup Issues : \E x \in tip[b] : x[1] = c
    PROVE  AppliedIsOnBranch'
<1> SUFFICES ASSUME NEW c \in Contribs, row'[c].status = "merged"
             PROVE  \E b \in {"main"} \cup Issues : \E x \in tip'[b] : x[1] = c
  BY DEF AppliedIsOnBranch
<1>1. PICK b \in {"main"} \cup Issues : \E x \in tip[b] : x[1] = c
  BY DEF AppliedIsOnBranch
<1> QED BY <1>1 DEF TipsKept

\* The status of the request's contribution is right after the step.
CachedAfter(p) == \E c \in Contribs : c = req[p].on /\ Cached(c)'

\* At most the contribution of the request differs, and its status is right,
\* or being recomputed.
LEMMA CacheStays ==
    ASSUME Inv, AloneInv, ConfigKept, NEW p \in Slots, OnlyOne(p),
           faults' = faults \/ faults' > 0,
           \A c \in Contribs : c = req[p].on \/ (row'[c] = row[c] /\ vote'[c] = vote[c]),
           \/ req[p].at \notin {"compute", "setStatus"} /\ UNCHANGED <<row, vote>>
           \/ CachedAfter(p)
           \/ req'[p].at \in {"compute", "setStatus"} /\ req'[p].on = req[p].on
           \/ faults' > 0
    PROVE  CacheKept'
<1> SUFFICES ASSUME faults' = 0, changes' = 0, NEW c \in Contribs PROVE Cached(c)' \/ Computing(c)'
  BY DEF CacheKept
<1>1. Cached(c) \/ Computing(c)
  <2>1. faults = 0 /\ changes = 0
    BY DEF Inv, Counters, ConfigKept
  <2> QED BY <2>1, Alone DEF CacheKept
<1>2. row'[c] = row[c] /\ vote'[c] = vote[c] => Cached(c)' = Cached(c)
  BY DEF Cached, Current, ConfigKept
<1>3. Computing(c) => req[p].at \in {"compute", "setStatus"} /\ req[p].on = c
  BY Alone
<1>4. CASE c = req[p].on
  <2>1. CASE req[p].at \notin {"compute", "setStatus"} /\ UNCHANGED <<row, vote>>
    BY <1>1, <1>2, <1>3, <2>1
  <2>2. CASE CachedAfter(p)
    BY <1>4, <2>2 DEF CachedAfter
  <2>3. CASE req'[p].at \in {"compute", "setStatus"} /\ req'[p].on = req[p].on
    BY <1>4, <2>3 DEF Computing
  <2> QED BY <2>1, <2>2, <2>3
<1>5. CASE c # req[p].on
  BY <1>1, <1>2, <1>3, <1>5
<1> QED BY <1>4, <1>5

\* Issues, rows and votes stay.
LEMMA ResultsStay ==
    ASSUME Inv, AloneInv, ConfigKept, NEW p \in Slots, OnlyOne(p), UNCHANGED <<state, row,
           vote>>, TipsKept,
           faults' = faults \/ faults' > 0,
           \/ req[p].at \notin {"compute", "setStatus"}
           \/ CachedAfter(p)
           \/ req'[p].at \in {"compute", "setStatus"} /\ req'[p].on = req[p].on
           \/ faults' > 0
    PROVE  Results'
<1>1. AppliedIsOnBranch'
  BY Alone, AppliedStays
<1>2. MergedIsReviewed'
  BY Alone DEF MergedIsReviewed
<1>3. ParentIsLast'
  BY Alone DEF ParentIsLast
<1>4. CacheKept'
  BY CacheStays
<1> QED BY <1>1, <1>2, <1>3, <1>4 DEF Results

\* No commit moves.
LEMMA TipsStay ==
    ASSUME \A b \in {"main"} \cup Issues : tip'[b] = tip[b]
    PROVE  TipsKept
BY DEF TipsKept

-----------------------------------------------------------------------------
\* A request that starts, about an open issue or about a branch.
LEMMA StartsAlone ==
    ASSUME Inv, AloneInv, ConfigKept, overlaps' = 0, NEW p \in Slots,
           NEW s \in {"push", "delete", "mergeGate", "closeSubs", "create"}, NEW b,
           Begin(p, AtStep(s, b)), UNCHANGED <<state, row, vote, faults>>, TipsKept,
           s \in {"mergeGate", "closeSubs"} => b \in Issues /\ state[b] = "open",
           s = "create" => state["root"] = "open"
    PROVE  AloneInv'
<1>1. OnlyOne(p) /\ req[p].at = "idle" /\ req'[p].at = s /\ req'[p].on = b
  BY Starts
<1>2. Results'
  BY <1>1, ResultsStay
<1>3. ContribFacts(req[p])'
  BY <1>1 DEF ContribFacts
<1>4. IssueFacts(req[p])'
  BY <1>1 DEF IssueFacts, GateSteps
<1> QED BY <1>1, <1>2, <1>3, <1>4, AloneNext

\* A request that starts by loading a contribution.
LEMMA LoadsAlone ==
    ASSUME Inv, AloneInv, ConfigKept, overlaps' = 0, NEW p \in Slots, NEW c \in Contribs,
           NEW s \in {"vote", "review", "close"}, Load(p, s, c),
           UNCHANGED <<state, tip, row, vote, faults>>,
           s = "vote" => state[IssueOf(c)] = "open",
           s # "vote" => row[c].status \notin Terminal
    PROVE  AloneInv'
<1>1. /\ OnlyOne(p) /\ req[p].at = "idle" /\ req'[p].at = s /\ req'[p].on = c
      /\ req'[p].head = row[c].head /\ req'[p].status = row[c].status
      /\ req'[p].paths = row[c].paths
  BY Loads
<1>2. Results'
  BY <1>1, ResultsStay, TipsStay
<1>3. ContribFacts(req[p])'
  BY <1>1 DEF ContribFacts
<1>4. IssueFacts(req[p])'
  BY <1>1 DEF IssueFacts, GateSteps
<1> QED BY <1>1, <1>2, <1>3, <1>4, AloneNext

\* A request that ends without having written rows, votes or issues.
LEMMA EndsAlone ==
    ASSUME Inv, AloneInv, ConfigKept, overlaps' = 0, NEW p \in Slots, Busy(p), Done(p),
           UNCHANGED <<state, row, vote>>, TipsKept, faults' = faults \/ faults' > 0,
           \/ req[p].at \notin {"compute", "setStatus"} \/ CachedAfter(p) \/ faults' > 0
    PROVE  AloneInv'
<1>1. OnlyOne(p) /\ req'[p].at = "idle"
  BY Ends
<1>2. Results'
  BY <1>1, ResultsStay
<1> QED BY <1>1, <1>2, AloneEnds

\* A request that goes on without having written rows, votes or issues.
LEMMA GoesAlone ==
    ASSUME Inv, AloneInv, ConfigKept, NEW p \in Slots, OnlyOne(p),
           UNCHANGED <<state, row, vote>>, TipsKept, faults' = faults \/ faults' > 0,
           \/ req[p].at \notin {"compute", "setStatus"}
           \/ req'[p].at \in {"compute", "setStatus"} /\ req'[p].on = req[p].on,
           ContribFacts(req[p])', IssueFacts(req[p])'
    PROVE  AloneInv'
BY ResultsStay, AloneNext

\* MergeReads, when the two branches are those of an issue and its base, or of
\* a contribution and its issue.
LEMMA ReadsTips ==
    ASSUME Inv, AloneInv, overlaps' = 0, NEW p \in Slots, Busy(p),
           NEW into \in Branches, NEW from \in Branches, NEW writes, NEW contained,
           MergeReads(p, into, from, writes, contained)
    PROVE  \/ Done(p)
           \/ /\ OnlyOne(p) /\ req'[p].at = contained /\ req'[p].on = req[p].on
              /\ from \in refs /\ tip[from] \subseteq tip[into]
           \/ /\ OnlyOne(p) /\ req'[p].at = writes /\ req'[p].on = req[p].on
              /\ from \in refs /\ req'[p].code = tip[into] \cup tip[from]
<1>1. CASE Done(p)
  BY <1>1
<1>2. CASE from \in refs /\ tip[from] \subseteq tip[into] /\ GoTo(p, contained)
  BY <1>2, Goes
<1>3. CASE from \in refs /\ Continue(p, [req[p] EXCEPT !.at = writes, !.code = tip[into] \cup tip[from]])
  <2>1. OnlyOne(p) /\ req'[p] = [req[p] EXCEPT !.at = writes, !.code = tip[into] \cup tip[from]]
    BY <1>3, Only
  <2> QED BY <1>3, <2>1, Known DEF Request
<1> QED BY <1>1, <1>2, <1>3 DEF MergeReads

\* MergeSetsRef: the branch gets what the request has read and merged.
LEMMA SetsRef ==
    ASSUME Inv, AloneInv, overlaps' = 0, NEW p \in Slots, Busy(p),
           NEW into \in {"main"} \cup Issues, NEW next, MergeSetsRef(p, into, next),
           tip[into] \subseteq req[p].code
    PROVE  /\ OnlyOne(p) /\ req'[p].at = next /\ req'[p].on = req[p].on
           /\ tip'[into] = req[p].code /\ TipsKept
           /\ \A b \in Branches \ {into} : tip'[b] = tip[b]
<1>1. tip \in [Branches -> Code] /\ into \in Branches
  BY Apart DEF Inv, Tips
<1>2. OnlyOne(p) /\ req'[p] = [req[p] EXCEPT !.at = next, !.code = {}]
  BY Only DEF MergeSetsRef
<1>3. tip'[into] = req[p].code /\ \A b \in Branches \ {into} : tip'[b] = tip[b]
  BY <1>1 DEF MergeSetsRef
<1>4. TipsKept
  <2> SUFFICES ASSUME NEW b \in {"main"} \cup Issues, NEW x \in tip[b] PROVE x \in tip'[b]
    BY DEF TipsKept
  <2>1. b \in Branches
    BY Apart
  <2> QED BY <1>3, <2>1
<1> QED BY <1>2, <1>3, <1>4, Known DEF Request

-----------------------------------------------------------------------------
\* The first steps of the requests.
LEMMA AloneArrives ==
    ASSUME Inv, TipInv, AloneInv, ConfigKept, overlaps' = 0, NEW p \in Slots, Arrives(p)
    PROVE  AloneInv'
<1>1. ASSUME NEW c \in Contribs, PushIsAuthorized(p, c) PROVE AloneInv'
  BY <1>1, StartsAlone, TipsStay DEF PushIsAuthorized
<1>2. ASSUME NEW c \in Contribs, PushDeletesRef(p, c) PROVE AloneInv'
  <2>1. \A b \in {"main"} \cup Issues : tip'[b] = tip[b]
    BY <1>2, Apart DEF PushDeletesRef, Inv, Tips
  <2> QED BY <1>2, <2>1, StartsAlone, TipsStay DEF PushDeletesRef
<1>3. ASSUME NEW c \in Contribs, VoteLoads(p, c) PROVE AloneInv'
  BY <1>3, LoadsAlone DEF VoteLoads
<1>4. ASSUME NEW c \in Contribs, ApplyLoads(p, c) PROVE AloneInv'
  BY <1>4, LoadsAlone DEF ApplyLoads
<1>5. ASSUME NEW c \in Contribs, CloseLoads(p, c) PROVE AloneInv'
  BY <1>5, LoadsAlone DEF CloseLoads
<1>6. ASSUME NEW i \in Issues, MergeLoads(p, i) PROVE AloneInv'
  BY <1>6, StartsAlone, TipsStay DEF MergeLoads
<1>7. ASSUME NEW i \in Issues, CloseIssueLoads(p, i) PROVE AloneInv'
  BY <1>7, StartsAlone, TipsStay DEF CloseIssueLoads
<1>8. CASE CreateLoads(p)
  BY <1>8, StartsAlone, TipsStay DEF CreateLoads
<1> QED BY <1>1, <1>2, <1>3, <1>4, <1>5, <1>6, <1>7, <1>8 DEF Arrives

\* Pushes and the sync that follows them.
LEMMA AlonePush ==
    ASSUME Inv, TipInv, AloneInv, ConfigKept, overlaps' = 0, NEW p \in Slots,
           PushReceives(p) \/ SyncDeletion(p) \/ SyncReadsIssue(p)
    PROVE  AloneInv'
<1> DEFINE c == req[p].on
<1>1. CASE PushReceives(p)
  <2>1. c \in Contribs /\ Busy(p)
    BY <1>1, Known DEF PushReceives, At, Busy, ContribSteps
  <2>2. PICK n : Continue(p, [AtStep("sync", c) EXCEPT !.head = n])
    BY <1>1 DEF PushReceives
  <2>3. OnlyOne(p) /\ req'[p] = [AtStep("sync", c) EXCEPT !.head = n]
    BY <2>1, <2>2, Only
  <2>4. req'[p].at = "sync"
    BY <2>3 DEF AtStep, Idle
  <2>5. ContribFacts(req[p])'
    BY <2>4 DEF ContribFacts
  <2>6. IssueFacts(req[p])'
    BY <2>4 DEF IssueFacts, GateSteps
  <2>7. \A b \in {"main"} \cup Issues : tip'[b] = tip[b]
    BY <1>1, <2>1, Apart DEF PushReceives, PushMovesRef, Inv, Tips
  <2> QED BY <1>1, <2>3, <2>5, <2>6, <2>7, TipsStay, GoesAlone DEF PushReceives, At
<1>2. CASE SyncDeletion(p)
  <2>1. Busy(p) /\ At(p, "delete")
    BY <1>2 DEF SyncDeletion, At, Busy
  <2>2. CASE Done(p)
    BY <1>2, <2>1, <2>2, EndsAlone, TipsStay DEF SyncDeletion, At
  <2>3. CASE row[c].status \notin Terminal /\ GoTo(p, "close")
    <3>1. OnlyOne(p) /\ req'[p].at = "close" /\ req'[p].on = c
      BY <2>1, <2>3, Goes
    <3>2. ContribFacts(req[p])'
      BY <1>2, <2>3, <3>1 DEF ContribFacts, SyncDeletion
    <3>3. IssueFacts(req[p])'
      BY <3>1 DEF IssueFacts, GateSteps
    <3> QED BY <1>2, <2>1, <3>1, <3>2, <3>3, TipsStay, GoesAlone DEF SyncDeletion, At
  <2> QED BY <1>2, <2>2, <2>3 DEF SyncDeletion
<1>3. CASE SyncReadsIssue(p)
  <2>1. Busy(p) /\ At(p, "sync")
    BY <1>3 DEF SyncReadsIssue, At, Busy
  <2>2. CASE Done(p)
    BY <1>3, <2>1, <2>2, EndsAlone, TipsStay DEF SyncReadsIssue, At
  <2>3. CASE state[IssueOf(c)] = "open" /\ GoTo(p, "upsert")
    <3>1. OnlyOne(p) /\ req'[p].at = "upsert" /\ req'[p].on = c
      BY <2>1, <2>3, Goes
    <3>2. ContribFacts(req[p])'
      BY <1>3, <2>3, <3>1 DEF ContribFacts, SyncReadsIssue
    <3>3. IssueFacts(req[p])'
      BY <3>1 DEF IssueFacts, GateSteps
    <3> QED BY <1>3, <2>1, <3>1, <3>2, <3>3, TipsStay, GoesAlone DEF SyncReadsIssue, At
  <2> QED BY <1>3, <2>2, <2>3 DEF SyncReadsIssue
<1> QED BY <1>1, <1>2, <1>3

\* The row is upserted, then its status recomputed.
LEMMA AloneUpserts ==
    ASSUME Inv, TipInv, AloneInv, ConfigKept, overlaps' = 0, NEW p \in Slots, SyncUpserts(p)
    PROVE  AloneInv'
<1> DEFINE c == req[p].on
           s == IF row[c].status = "none" THEN "pending" ELSE row[c].status
<1>1. c \in Contribs /\ Busy(p) /\ req[p].at = "upsert" /\ row \in [Contribs -> Row]
  BY Known DEF SyncUpserts, At, Busy, ContribSteps, Inv, Rows
<1>2. PICK ok \in BOOLEAN :
          /\ Reads(ok)
          /\ row' = [row EXCEPT ![c] = [status |-> s, head |-> req[p].head, paths |-> ok]]
          /\ Continue(p, [req[p] EXCEPT !.at = "compute", !.status = s, !.paths = ok])
  BY DEF SyncUpserts
<1>3. OnlyOne(p) /\ req'[p] = [req[p] EXCEPT !.at = "compute", !.status = s, !.paths = ok]
  BY <1>1, <1>2, Only
<1>4. /\ req'[p].at = "compute" /\ req'[p].on = c
      /\ req'[p].head = req[p].head /\ req'[p].status = s /\ req'[p].paths = ok
  BY <1>3, Known DEF Request
<1>5. /\ row'[c] = [status |-> s, head |-> req[p].head, paths |-> ok]
      /\ \A d \in Contribs \ {c} : row'[d] = row[d]
  BY <1>1, <1>2
<1>6. state[IssueOf(c)] = "open"
  BY <1>1, <1>3, Alone DEF ContribFacts
<1>7. UNCHANGED <<state, tip, vote>> /\ (faults' = faults \/ faults' > 0)
  BY <1>2, Reading DEF SyncUpserts
<1> HIDE DEF c
<1>8. ContribFacts(req[p])'
  BY <1>4, <1>5, <1>6, <1>7 DEF ContribFacts
<1>9. IssueFacts(req[p])'
  BY <1>4 DEF IssueFacts, GateSteps
<1>10. Results'
  <2>1. \A d \in Contribs : row'[d].status = "merged" => row[d].status = "merged"
    BY <1>5
  <2>2. AppliedIsOnBranch'
    BY <1>3, <1>7, <2>1, Alone, AppliedStays, TipsStay
  <2>3. MergedIsReviewed'
    BY <1>3, <1>5, <1>6, <1>7, Alone DEF MergedIsReviewed
  <2>4. ParentIsLast'
    BY <1>3, <1>7, Alone DEF ParentIsLast
  <2>5. CacheKept'
    BY <1>3, <1>4, <1>5, <1>7, CacheStays DEF c
  <2> QED BY <2>2, <2>3, <2>4, <2>5 DEF Results
<1> QED BY <1>3, <1>8, <1>9, <1>10, AloneNext

\* The review computation reads the votes and writes the status.
LEMMA AloneComputes ==
    ASSUME Inv, TipInv, AloneInv, ConfigKept, overlaps' = 0, NEW p \in Slots,
           ComputeReads(p) \/ ComputeWrites(p)
    PROVE  AloneInv'
<1> DEFINE c == req[p].on
<1>1. c \in Contribs /\ Busy(p) /\ row \in [Contribs -> Row]
  BY Known DEF ComputeReads, ComputeWrites, At, Busy, ContribSteps, Inv, Rows
<1>2. CASE ComputeReads(p)
  <2>1. req[p].at = "compute" /\ UNCHANGED <<state, refs, tip, row, vote>>
    BY <1>2 DEF ComputeReads, At
  <2>2. PICK ok \in BOOLEAN :
            /\ Reads(ok)
            /\ IF req[p].status \in Terminal \/ Review(req[p], ok) = req[p].status
               THEN Done(p)
               ELSE Continue(p, [req[p] EXCEPT !.at = "setStatus", !.status = Review(req[p], ok)])
    BY <1>2 DEF ComputeReads
  <2>3. faults' = faults \/ (ok = FALSE /\ faults' > 0)
    BY <2>2, Reading
  <2>4. PICK verdict : verdict = Review(req[p], ok)
    OBVIOUS
  <2>5. OnlyOne(p)
    BY <1>1, <2>2, Only DEF Done
  <2>6. /\ req[p].head = row[c].head /\ req[p].status = row[c].status
        /\ req[p].paths = row[c].paths /\ state[IssueOf(c)] = "open"
    BY <2>1, <2>5, Alone DEF ContribFacts
  <2>7. faults' > 0 \/ verdict = Current(c)
    <3>1. CASE ok = TRUE
      BY <2>4, <2>6, <3>1 DEF Review, Current
    <3>2. CASE ok = FALSE
      BY <2>2, <3>2 DEF Reads, Inv, Counters
    <3> QED BY <3>1, <3>2
  <2>8. verdict \in {"pending", "rejected", "approved"}
    BY <2>4, ReviewStatus
  <2>9. CASE (req[p].status \in Terminal \/ verdict = req[p].status) /\ Done(p)
    <3>1. faults' > 0 \/ CachedAfter(p)
      <4> SUFFICES ASSUME verdict = Current(c), NEW d \in Contribs, d = c PROVE Cached(d)'
        BY <1>1, <2>7 DEF CachedAfter
      <4> HIDE DEF c
      <4> QED BY <2>1, <2>6, <2>9 DEF Cached, Current, ConfigKept
    <3> QED BY <1>1, <2>1, <2>3, <2>9, <3>1, EndsAlone, TipsStay
  <2>10. CASE req'[p] = [req[p] EXCEPT !.at = "setStatus", !.status = verdict]
              /\ req[p].status \notin Terminal
    <3>1. req'[p].at = "setStatus" /\ req'[p].on = c /\ req'[p].status = verdict
      BY <2>10, Known DEF Request
    <3> HIDE DEF c
    <3>2. ContribFacts(req[p])'
      BY <2>1, <2>6, <2>7, <2>8, <2>10, <3>1 DEF ContribFacts, Current, ConfigKept
    <3>3. IssueFacts(req[p])'
      BY <3>1 DEF IssueFacts, GateSteps
    <3> QED BY <2>1, <2>3, <2>5, <3>1, <3>2, <3>3, GoesAlone, TipsStay DEF c
  <2> QED BY <1>1, <2>2, <2>4, <2>9, <2>10, Only
<1>3. CASE ComputeWrites(p)
  <2>1. /\ req[p].at = "setStatus" /\ Done(p) /\ UNCHANGED <<state, refs, tip, vote, faults>>
        /\ row' = [row EXCEPT ![c].status = req[p].status]
    BY <1>3 DEF ComputeWrites, At
  <2>2. OnlyOne(p) /\ req'[p].at = "idle"
    BY <1>1, <2>1, Ends
  <2>3. /\ req[p].status \in {"pending", "rejected", "approved"}
        /\ faults > 0 \/ changes > 0 \/ req[p].status = Current(c)
        /\ state[IssueOf(c)] = "open"
    <3>1. ContribFacts(req[p])
      BY <2>2, Alone
    <3>2. req[p].status \in {"pending", "rejected", "approved"}
      BY <2>1, <3>1 DEF ContribFacts
    <3>3. faults > 0 \/ changes > 0 \/ req[p].status = Current(c)
      BY <2>1, <3>1 DEF ContribFacts
    <3>4. state[IssueOf(c)] = "open"
      BY <2>1, <3>1 DEF ContribFacts
    <3> QED BY <3>2, <3>3, <3>4
  <2>4. /\ row'[c].status = req[p].status /\ row'[c].head = row[c].head
        /\ row'[c].paths = row[c].paths
        /\ \A d \in Contribs \ {c} : row'[d] = row[d]
    BY <1>1, <2>1 DEF Row
  <2> HIDE DEF c
  <2>5. req[p].status # "merged"
    BY <2>3
  <2>6. AppliedIsOnBranch'
    <3>1. \A d \in Contribs : row'[d].status = "merged" => row[d].status = "merged"
      BY <2>4, <2>5
    <3> QED BY <2>1, <2>2, <3>1, Alone, AppliedStays, TipsStay
  <2>7. MergedIsReviewed'
    BY <2>1, <2>2, <2>3, <2>4, Alone DEF MergedIsReviewed
  <2>8. ParentIsLast'
    BY <2>1, <2>2, Alone DEF ParentIsLast
  <2>9. CacheKept'
    <3>1. CASE faults > 0 \/ changes > 0
      BY <2>1, <3>1 DEF CacheKept, ConfigKept, Inv, Counters
    <3>2. CASE req[p].status = Current(c)
      <4>1. CachedAfter(p)
        <5> SUFFICES ASSUME NEW d \in Contribs, d = c PROVE Cached(d)'
          BY <1>1 DEF CachedAfter, c
        <5> QED BY <2>1, <2>4, <3>2 DEF Cached, Current, ConfigKept
      <4> QED BY <2>1, <2>2, <2>4, <4>1, CacheStays DEF c
    <3> QED BY <2>3, <3>1, <3>2
  <2> QED BY <2>2, <2>6, <2>7, <2>8, <2>9, AloneEnds DEF Results
<1> QED BY <1>2, <1>3

\* A vote is recorded, and the status recomputed.
LEMMA AloneVotes ==
    ASSUME Inv, TipInv, AloneInv, ConfigKept, overlaps' = 0, NEW p \in Slots, NEW v \in Voters,
           VoteIsRecorded(p, v)
    PROVE  AloneInv'
<1> DEFINE c == req[p].on
<1>1. c \in Contribs /\ Busy(p) /\ req[p].at = "vote" /\ vote \in [Contribs -> [Voters -> Vote]]
  BY Known DEF VoteIsRecorded, At, Busy, ContribSteps, Inv, Votes
<1>2. GoTo(p, "compute") /\ UNCHANGED <<state, tip, row, faults>>
  BY DEF VoteIsRecorded
<1>3. \A d \in Contribs \ {c} : vote'[d] = vote[d]
  BY <1>1 DEF VoteIsRecorded
<1>4. /\ OnlyOne(p) /\ req'[p].at = "compute" /\ req'[p].on = c
      /\ req'[p].head = req[p].head /\ req'[p].status = req[p].status
      /\ req'[p].paths = req[p].paths
  BY <1>1, <1>2, Goes
<1>5. /\ req[p].head = row[c].head /\ req[p].status = row[c].status
      /\ req[p].paths = row[c].paths /\ state[IssueOf(c)] = "open"
  BY <1>1, <1>4, Alone DEF ContribFacts
<1> HIDE DEF c
<1>6. ContribFacts(req[p])'
  BY <1>2, <1>4, <1>5 DEF ContribFacts
<1>7. IssueFacts(req[p])'
  BY <1>4 DEF IssueFacts, GateSteps
<1>8. AppliedIsOnBranch'
  BY <1>2, <1>4, Alone, AppliedStays, TipsStay
<1>9. MergedIsReviewed' /\ ParentIsLast'
  BY <1>2, <1>4, Alone DEF MergedIsReviewed, ParentIsLast
<1>10. CacheKept'
  BY <1>2, <1>3, <1>4, CacheStays DEF c
<1> QED BY <1>4, <1>6, <1>7, <1>8, <1>9, <1>10, AloneNext DEF Results

\* A contribution is applied.
LEMMA AloneApplies ==
    ASSUME Inv, TipInv, AloneInv, ConfigKept, overlaps' = 0, NEW p \in Slots,
           ApplyReviews(p) \/ ApplyMerges(p) \/ ApplySetsRef(p)
    PROVE  AloneInv'
<1> DEFINE c == req[p].on
<1>1. c \in Contribs /\ c \in Branches /\ IssueOf(c) \in Issues /\ Busy(p)
  BY Known DEF ApplyReviews, ApplyMerges, ApplySetsRef, At, Busy, ContribSteps
<1>2. CASE ApplyReviews(p)
  <2>1. /\ req[p].at = "review" /\ UNCHANGED <<state, refs, tip, row, vote>>
        /\ faults' = faults \/ faults' > 0
    BY <1>2, Reading DEF ApplyReviews, At
  <2>2. CASE Done(p)
    BY <1>1, <2>1, <2>2, EndsAlone, TipsStay
  <2>3. CASE GoTo(p, "apply")
    <3>1. OnlyOne(p) /\ req'[p].at = "apply" /\ req'[p].on = c
      BY <1>1, <2>3, Goes
    <3>2. row[c].status \notin Terminal
      BY <2>1, <3>1, Alone DEF ContribFacts
    <3>3. ContribFacts(req[p])'
      BY <2>1, <3>1, <3>2 DEF ContribFacts
    <3>4. IssueFacts(req[p])'
      BY <3>1 DEF IssueFacts, GateSteps
    <3> QED BY <2>1, <3>1, <3>3, <3>4, TipsStay, GoesAlone
  <2> QED BY <1>2, <2>2, <2>3 DEF ApplyReviews
<1>3. CASE ApplyMerges(p)
  <2>1. req[p].at = "apply" /\ UNCHANGED <<state, refs, tip, row, vote, faults>>
    BY <1>3 DEF ApplyMerges, At
  <2>2. /\ IssueOf(c) \in Branches
        /\ MergeReads(p, IssueOf(c), c, "applyWrites", "mark")
    BY <1>1, <1>3, Apart DEF ApplyMerges
  <2>3. CASE Done(p)
    BY <1>1, <2>1, <2>3, EndsAlone, TipsStay
  <2>4. CASE /\ OnlyOne(p) /\ req'[p].at \in {"mark", "applyWrites"} /\ req'[p].on = c /\ c \in refs
             /\ req'[p].at = "mark" => tip[c] \subseteq tip[IssueOf(c)]
             /\ req'[p].at = "applyWrites" => req'[p].code = tip[IssueOf(c)] \cup tip[c]
    <3>1. row[c].status \notin Terminal
      BY <2>1, <2>4, Alone DEF ContribFacts
    <3>2. \E x \in tip[c] : x[1] = c
      BY <1>1, <2>4 DEF TipInv, OwnCommit
    <3> HIDE DEF c
    <3>3. ContribFacts(req[p])'
      BY <2>1, <2>4, <3>1, <3>2 DEF ContribFacts
    <3>4. IssueFacts(req[p])'
      BY <2>4 DEF IssueFacts, GateSteps
    <3> QED BY <2>1, <2>4, <3>3, <3>4, TipsStay, GoesAlone
  <2> QED BY <1>1, <2>2, <2>3, <2>4, ReadsTips
<1>4. CASE ApplySetsRef(p)
  <2>1. /\ req[p].at = "applyWrites" /\ UNCHANGED <<state, row, vote, faults>>
        /\ MergeSetsRef(p, IssueOf(c), "mark")
    BY <1>4 DEF ApplySetsRef, At
  <2>2. OnlyOne(p)
    BY <1>1, <2>1, Only DEF MergeSetsRef
  <2>3. /\ row[c].status \notin Terminal
        /\ tip[IssueOf(c)] \subseteq req[p].code /\ \E x \in req[p].code : x[1] = c
    BY <2>1, <2>2, Alone DEF ContribFacts
  <2> DEFINE into == IssueOf(c)
  <2>4. req'[p].at = "mark" /\ req'[p].on = c /\ tip'[into] = req[p].code /\ TipsKept
    <3>1. into \in {"main"} \cup Issues /\ tip[into] \subseteq req[p].code /\ MergeSetsRef(p, into, "mark")
      BY <1>1, <2>1, <2>3
    <3> HIDE DEF into
    <3> QED BY <1>1, <3>1, SetsRef
  <2> HIDE DEF c
  <2>5. ContribFacts(req[p])'
    BY <2>1, <2>3, <2>4 DEF ContribFacts
  <2>6. IssueFacts(req[p])'
    BY <2>4 DEF IssueFacts, GateSteps
  <2> QED BY <2>1, <2>2, <2>4, <2>5, <2>6, GoesAlone
<1> QED BY <1>2, <1>3, <1>4

\* A contribution is marked merged or closed.
LEMMA AloneSettles ==
    ASSUME Inv, TipInv, AloneInv, ConfigKept, overlaps' = 0, NEW p \in Slots,
           ApplyMarks(p) \/ CloseWrites(p) \/ CleanCloses(p)
    PROVE  AloneInv'
<1> DEFINE c == req[p].on
<1>1. c \in Contribs /\ Busy(p) /\ row \in [Contribs -> Row]
  BY Known DEF ApplyMarks, CloseWrites, CleanCloses, At, Busy, ContribSteps, Inv, Rows
<1>2. UNCHANGED <<state, refs, tip, vote, faults>>
  BY DEF ApplyMarks, CloseWrites, CleanCloses
<1>3. PICK s \in Terminal : /\ row' = [row EXCEPT ![c].status = s]
                            /\ s = "merged" => req[p].at = "mark"
  BY DEF ApplyMarks, CloseWrites, CleanCloses, At, Terminal
<1>4. row'[c].status = s /\ \A d \in Contribs \ {c} : row'[d] = row[d]
  BY <1>1, <1>3 DEF Row
<1>5. OnlyOne(p) /\ req'[p].at \in {"idle", "clean"}
  <2>1. CASE Done(p)
    BY <1>1, <2>1, Ends
  <2>2. CASE Continue(p, AtStep("clean", IssueOf(c)))
    <3>1. AtStep("clean", IssueOf(c)).at = "clean"
      BY DEF AtStep, Idle
    <3>2. OnlyOne(p) /\ req'[p] = AtStep("clean", IssueOf(c))
      BY <1>1, <2>2, Only
    <3> QED BY <3>1, <3>2
  <2> QED BY <2>1, <2>2 DEF ApplyMarks, CloseWrites, CleanCloses
<1>6. req[p].at = "mark" => \E b \in {"main"} \cup Issues : \E x \in tip[b] : x[1] = c
  <2>1. IssueOf(c) \in Issues
    BY <1>1, Apart
  <2> QED BY <1>5, <2>1, Alone DEF ContribFacts
<1> HIDE DEF c
<1>7. ContribFacts(req[p])'
  BY <1>5 DEF ContribFacts
<1>8. IssueFacts(req[p])'
  BY <1>5 DEF IssueFacts, GateSteps
<1>9. AppliedIsOnBranch'
  <2>1. \A d \in Contribs : row'[d].status = "merged" =>
            \/ row[d].status = "merged"
            \/ \E b \in {"main"} \cup Issues : \E x \in tip[b] : x[1] = d
    BY <1>3, <1>4, <1>6
  <2> QED BY <1>2, <1>5, <2>1, Alone, AppliedStays, TipsStay
<1>10. MergedIsReviewed'
  BY <1>2, <1>4, <1>5, Alone DEF MergedIsReviewed, Terminal
<1>11. ParentIsLast'
  BY <1>2, <1>5, Alone DEF ParentIsLast
<1>12. CacheKept'
  <2>1. CachedAfter(p)
    <3> SUFFICES ASSUME NEW d \in Contribs, d = c PROVE Cached(d)'
      BY <1>1 DEF CachedAfter, c
    <3> QED BY <1>4 DEF Cached
  <2> QED BY <1>2, <1>4, <1>5, <2>1, CacheStays DEF c
<1> QED BY <1>5, <1>7, <1>8, <1>9, <1>10, <1>11, <1>12, AloneNext DEF Results

\* The gates of a merge, and of closing an issue.
LEMMA AloneGates ==
    ASSUME Inv, TipInv, AloneInv, ConfigKept, overlaps' = 0, NEW p \in Slots,
           MergeGate(p) \/ MergeAhead(p) \/ MergeSubs(p) \/ CloseIssueSubs(p)
    PROVE  AloneInv'
<1> DEFINE i == req[p].on
<1>1. /\ Busy(p) /\ UNCHANGED <<state, refs, tip, row, vote>> /\ TipsKept
      /\ req[p].at \in {"mergeGate", "mergeAhead", "mergeSubs", "closeSubs"}
      /\ faults' = faults \/ faults' > 0
  BY TipsStay DEF MergeGate, MergeAhead, MergeSubs, CloseIssueSubs, SubIssueGate, At, Busy, Inv, Counters
<1>2. CASE Done(p)
  BY <1>1, <1>2, EndsAlone
<1>3. ASSUME NEW s \in {"mergeAhead", "mergeSubs", "merge", "closeIssue"}, GoTo(p, s),
             req[p].at = "mergeGate" => \A c \in Of(i) : row[c].status # "pending",
             s \in {"mergeAhead", "mergeSubs", "merge"} => req[p].at \in {"mergeGate", "mergeAhead", "mergeSubs"},
             s \in {"merge", "closeIssue"} => faults' > 0 \/ OpenDescendants(i) = {}
      PROVE  AloneInv'
  <2>1. OnlyOne(p) /\ req'[p].at = s /\ req'[p].on = i
    BY <1>1, <1>3, Goes
  <2>2. /\ i \in Issues /\ state[i] = "open"
        /\ req[p].at \in {"mergeAhead", "mergeSubs"} => \A c \in Of(i) : row[c].status # "pending"
    BY <1>1, <2>1, Alone DEF IssueFacts, GateSteps
  <2> HIDE DEF i
  <2>3. ContribFacts(req[p])'
    BY <2>1 DEF ContribFacts
  <2>4. IssueFacts(req[p])'
    BY <1>1, <1>3, <2>1, <2>2 DEF IssueFacts, GateSteps, Of, OpenDescendants
  <2> QED BY <1>1, <2>1, <2>3, <2>4, GoesAlone
<1>4. CASE MergeGate(p)
  BY <1>2, <1>3, <1>4 DEF MergeGate, At
<1>5. CASE MergeAhead(p)
  BY <1>2, <1>3, <1>5 DEF MergeAhead, At
<1>6. CASE MergeSubs(p)
  BY <1>2, <1>3, <1>6 DEF MergeSubs, SubIssueGate, At, Inv, Counters
<1>7. CASE CloseIssueSubs(p)
  BY <1>2, <1>3, <1>7 DEF CloseIssueSubs, SubIssueGate, At, Inv, Counters
<1> QED BY <1>4, <1>5, <1>6, <1>7

\* An issue is merged into its base.
LEMMA AloneMerges ==
    ASSUME Inv, TipInv, AloneInv, ConfigKept, overlaps' = 0, NEW p \in Slots,
           MergeMerges(p) \/ MergeMovesBase(p) \/ MergeDeletesBranch(p)
    PROVE  AloneInv'
<1> DEFINE i == req[p].on
           into == BaseOf(i)
<1>1. /\ Busy(p) /\ UNCHANGED <<state, row, vote, faults>>
      /\ req[p].at \in {"merge", "mergeWrites", "deleteBranch"}
  BY DEF MergeMerges, MergeMovesBase, MergeDeletesBranch, MergeSetsRef, At, Busy
<1>2. OnlyOne(p) => /\ i \in Issues /\ i \in Branches
                    /\ into \in {"main"} \cup Issues /\ into \in Branches /\ into # i
  <2>1. OnlyOne(p) => i \in Issues
    BY <1>1, Alone DEF IssueFacts, GateSteps
  <2> HIDE DEF i
  <2>2. i \in Issues => into # i
    BY DEF BaseOf, Issues
  <2> QED BY <2>1, <2>2, Apart
<1>3. OnlyOne(p)
  BY <1>1, Only DEF MergeMerges, MergeReads, MergeMovesBase, MergeSetsRef, MergeDeletesBranch, GoTo, Done
<1>4. CASE MergeMerges(p)
  <2>1. req[p].at = "merge" /\ UNCHANGED tip /\ TipsKept
    BY <1>4, TipsStay DEF MergeMerges, At
  <2>2. MergeReads(p, into, i, "mergeWrites", "mergeState")
    BY <1>4 DEF MergeMerges
  <2>3. CASE Done(p)
    BY <1>1, <2>1, <2>3, EndsAlone
  <2>4. CASE /\ req'[p].at \in {"mergeState", "mergeWrites"} /\ req'[p].on = i
             /\ req'[p].at = "mergeState" => tip[i] \subseteq tip[into]
             /\ req'[p].at = "mergeWrites" => req'[p].code = tip[into] \cup tip[i]
    <3>1. /\ state[i] = "open" /\ \A c \in Of(i) : row[c].status # "pending"
          /\ faults > 0 \/ OpenDescendants(i) = {}
      BY <1>3, <2>1, Alone DEF IssueFacts, GateSteps
    <3>2. ContribFacts(req[p])'
      BY <2>4 DEF ContribFacts
    <3>3. i \in Issues
      BY <1>2, <1>3
    <3> HIDE DEF i
    <3>4. IssueFacts(req[p])'
      BY <1>1, <2>1, <2>4, <3>1, <3>3 DEF IssueFacts, GateSteps, Of, OpenDescendants
    <3> QED BY <1>1, <1>3, <2>1, <3>2, <3>4, GoesAlone
  <2>5. i \in Branches /\ into \in Branches
    BY <1>2, <1>3
  <2> HIDE DEF into
  <2> QED BY <1>1, <2>2, <2>3, <2>4, <2>5, ReadsTips
<1>5. CASE MergeMovesBase(p)
  <2>1. req[p].at = "mergeWrites" /\ MergeSetsRef(p, into, "mergeState")
    BY <1>5 DEF MergeMovesBase, At
  <2>2. /\ state[i] = "open" /\ \A c \in Of(i) : row[c].status # "pending"
        /\ faults > 0 \/ OpenDescendants(i) = {}
        /\ tip[i] \cup tip[into] \subseteq req[p].code
    BY <1>3, <2>1, Alone DEF IssueFacts, GateSteps
  <2>3. /\ req'[p].at = "mergeState" /\ req'[p].on = i /\ tip'[into] = req[p].code
        /\ TipsKept /\ \A b \in Branches \ {into} : tip'[b] = tip[b]
    <3>1. into \in {"main"} \cup Issues /\ tip[into] \subseteq req[p].code
      BY <1>2, <1>3, <2>2
    <3> HIDE DEF into
    <3> QED BY <1>1, <2>1, <3>1, SetsRef
  <2>4. ContribFacts(req[p])'
    BY <2>3 DEF ContribFacts
  <2>5. tip'[i] \subseteq tip'[into] /\ i \in Issues
    BY <1>2, <1>3, <2>2, <2>3
  <2> HIDE DEF i
  <2>6. IssueFacts(req[p])'
    BY <1>1, <2>2, <2>3, <2>5 DEF IssueFacts, GateSteps, Of, OpenDescendants, into
  <2> QED BY <1>1, <1>3, <2>1, <2>3, <2>4, <2>6, GoesAlone
<1>6. CASE MergeDeletesBranch(p)
  <2>1. req[p].at = "deleteBranch" /\ GoTo(p, "clean")
    BY <1>6 DEF MergeDeletesBranch, At
  <2>2. req'[p].at = "clean"
    BY <1>1, <2>1, Goes
  <2>3. tip[i] \subseteq tip[into] /\ i \in Branches /\ into # i /\ into \in {"main"} \cup Issues /\ into \in Branches
    BY <1>2, <1>3, <2>1, Alone DEF IssueFacts, GateSteps
  <2>4. TipsKept
    <3>1. CASE UNCHANGED tip
      BY <3>1, TipsStay
    <3>2. CASE tip' = [tip EXCEPT ![i] = {}]
      <4>1. \A b \in Branches \ {i} : tip'[b] = tip[b]
        BY <3>2 DEF Inv, Tips
      <4> HIDE DEF i, into
      <4> SUFFICES ASSUME NEW b \in {"main"} \cup Issues, NEW x \in tip[b]
                   PROVE  \E a \in {"main"} \cup Issues : x \in tip'[a]
        BY DEF TipsKept
      <4>2. b \in Branches
        BY Apart
      <4>3. CASE b = i
        BY <2>3, <4>1, <4>3
      <4>4. CASE b # i
        BY <4>1, <4>2, <4>4
      <4> QED BY <4>3, <4>4
    <3> QED BY <1>6, <3>1, <3>2 DEF MergeDeletesBranch
  <2>5. ContribFacts(req[p])'
    BY <2>2 DEF ContribFacts
  <2>6. IssueFacts(req[p])'
    BY <2>2 DEF IssueFacts, GateSteps
  <2> QED BY <1>1, <1>3, <2>1, <2>4, <2>5, <2>6, GoesAlone
<1> QED BY <1>4, <1>5, <1>6

\* The state of an issue is set.
LEMMA AloneSets ==
    ASSUME Inv, TipInv, AloneInv, ConfigKept, overlaps' = 0, NEW p \in Slots,
           MergeSetsState(p) \/ CloseIssueSetsState(p) \/ CreateInserts(p)
    PROVE  AloneInv'
<1>1. /\ Busy(p) /\ UNCHANGED <<refs, tip, row, vote, faults>> /\ TipsKept
      /\ req[p].at \in {"mergeState", "closeIssue", "create"}
      /\ state \in [Issues -> IssueState]
  BY TipsStay DEF MergeSetsState, CloseIssueSetsState, CreateInserts, At, Busy, Inv, States
<1>2. OnlyOne(p)
  BY <1>1, Only DEF MergeSetsState, CloseIssueSetsState, CreateInserts, GoTo, Done
<1>3. AppliedIsOnBranch' /\ CacheKept'
  BY <1>1, <1>2, Alone, AppliedStays, CacheStays
<1>4. CASE MergeSetsState(p)
  <2> DEFINE i == req[p].on
  <2>1. /\ req[p].at = "mergeState" /\ state' = [state EXCEPT ![i] = "merged"]
        /\ GoTo(p, "deleteBranch")
    BY <1>4 DEF MergeSetsState, At
  <2>2. req'[p].at = "deleteBranch" /\ req'[p].on = i
    BY <1>1, <2>1, Goes
  <2>3. /\ i \in Issues /\ \A c \in Of(i) : row[c].status # "pending"
        /\ faults > 0 \/ OpenDescendants(i) = {}
        /\ tip[i] \subseteq tip[BaseOf(i)]
    BY <1>2, <2>1, Alone DEF IssueFacts, GateSteps
  <2> HIDE DEF i
  <2>4. ContribFacts(req[p])'
    BY <2>2 DEF ContribFacts
  <2>5. IssueFacts(req[p])'
    BY <1>1, <2>2, <2>3 DEF IssueFacts, GateSteps
  <2>6. state'[i] = "merged" /\ \A j \in Issues \ {i} : state'[j] = state[j]
    BY <1>1, <2>1, <2>3
  <2>7. MergedIsReviewed'
    BY <1>1, <1>2, <2>3, <2>6, Alone, Apart DEF MergedIsReviewed, Of
  <2>8. ParentIsLast'
    BY <1>1, <1>2, <2>3, <2>6, Alone DEF ParentIsLast, OpenDescendants, Issues
  <2> QED BY <1>2, <1>3, <2>4, <2>5, <2>7, <2>8, AloneNext DEF Results
<1>5. CASE CloseIssueSetsState(p)
  <2> DEFINE i == req[p].on
  <2>1. req[p].at = "closeIssue" /\ state' = [state EXCEPT ![i] = "closed"] /\ Done(p)
    BY <1>5 DEF CloseIssueSetsState, At
  <2>2. req'[p].at = "idle"
    BY <1>1, <2>1, Ends
  <2>3. i \in Issues /\ (faults > 0 \/ OpenDescendants(i) = {})
    BY <1>2, <2>1, Alone DEF IssueFacts, GateSteps
  <2> HIDE DEF i
  <2>4. state'[i] = "closed" /\ \A j \in Issues \ {i} : state'[j] = state[j]
    BY <1>1, <2>1, <2>3
  <2>5. MergedIsReviewed'
    BY <1>1, <1>2, <2>4, Alone, Apart DEF MergedIsReviewed
  <2>6. ParentIsLast'
    BY <1>1, <1>2, <2>3, <2>4, Alone DEF ParentIsLast, OpenDescendants, Issues
  <2> QED BY <1>2, <1>3, <2>2, <2>5, <2>6, AloneEnds DEF Results
<1>6. CASE CreateInserts(p)
  <2>1. req[p].at = "create"
    BY <1>6 DEF CreateInserts, At
  <2>2. req'[p].at \in {"createBranch", "idle"}
    BY <1>1, <1>6, Goes, Ends DEF CreateInserts
  <2>3. \/ state' = state
        \/ state' = [state EXCEPT !["sub"] = "open"] /\ state["root"] = "open"
    BY <1>2, <1>6, <2>1, Alone DEF CreateInserts, IssueFacts
  <2>4. /\ state'["root"] = state["root"]
        /\ state' = state \/ (state'["sub"] = "open" /\ state["root"] = "open")
    BY <1>1, <2>3 DEF Issues
  <2>5. MergedIsReviewed'
    <3>1. \A j \in Issues : state'[j] = "merged" => state[j] = "merged"
      BY <2>4 DEF Issues
    <3> QED BY <1>1, <1>2, <3>1, Alone, Apart DEF MergedIsReviewed
  <2>6. ParentIsLast'
    BY <1>1, <1>2, <2>4, Alone DEF ParentIsLast
  <2>7. ContribFacts(req[p])'
    BY <2>2 DEF ContribFacts
  <2>8. IssueFacts(req[p])'
    BY <2>2 DEF IssueFacts, GateSteps
  <2> QED BY <1>2, <1>3, <2>5, <2>6, <2>7, <2>8, AloneNext DEF Results
<1> QED BY <1>4, <1>5, <1>6

\* What a merged issue has left is cleaned up, and a created one gets a branch.
LEMMA AloneCleans ==
    ASSUME Inv, TipInv, AloneInv, ConfigKept, overlaps' = 0, NEW p \in Slots, 
           CleanReads(p) \/ CleanEnds(p) \/ CreateMakesBranch(p) \/ \E c \in Contribs : CleanDeletes(p, c)
    PROVE  AloneInv'
<1>1. /\ Busy(p) /\ UNCHANGED <<state, row, vote, faults>>
      /\ req[p].at \in {"clean", "cleanRow", "createBranch"}
  BY DEF CleanReads, CleanEnds, CreateMakesBranch, CleanDeletes, At, Busy
<1>2. TipsKept
  <2>1. CASE UNCHANGED tip
    BY <2>1, TipsStay
  <2>2. ASSUME NEW c \in Contribs, tip' = [tip EXCEPT ![c] = {}] PROVE TipsKept
    BY <2>2, Apart, TipsStay DEF Inv, Tips
  <2>3. CASE "sub" \notin refs /\ tip' = [tip EXCEPT !["sub"] = tip["root"]]
    <3>1. tip["sub"] = {}
      BY <2>3, Apart DEF TipInv, GoneIsEmpty, Issues
    <3> QED BY <2>3, <3>1, Apart DEF Inv, Tips, TipsKept
  <2> QED BY <2>1, <2>2, <2>3 DEF CleanReads, CleanEnds, CreateMakesBranch, CleanDeletes
<1>3. CASE Done(p)
  BY <1>1, <1>2, <1>3, EndsAlone
<1>4. ASSUME NEW s \in {"clean", "cleanRow"}, NEW b, Continue(p, AtStep(s, b)) PROVE AloneInv'
  <2>1. AtStep(s, b).at = s
    BY DEF AtStep, Idle
  <2>2. OnlyOne(p) /\ req'[p] = AtStep(s, b)
    BY <1>1, <1>4, Only
  <2>3. ContribFacts(req[p])'
    BY <2>1, <2>2 DEF ContribFacts
  <2>4. IssueFacts(req[p])'
    BY <2>1, <2>2 DEF IssueFacts, GateSteps
  <2> QED BY <1>1, <1>2, <2>2, <2>3, <2>4, GoesAlone
<1>5. CASE row[req[p].on].status \notin Terminal /\ GoTo(p, "cleanClose")
  <2>1. OnlyOne(p) /\ req'[p].at = "cleanClose" /\ req'[p].on = req[p].on
    BY <1>1, <1>5, Goes
  <2>2. ContribFacts(req[p])'
    BY <1>1, <1>5, <2>1 DEF ContribFacts
  <2>3. IssueFacts(req[p])'
    BY <2>1 DEF IssueFacts, GateSteps
  <2> QED BY <1>1, <1>2, <2>1, <2>2, <2>3, GoesAlone
<1> QED BY <1>3, <1>4, <1>5 DEF CleanReads, CleanEnds, CreateMakesBranch, CleanDeletes

\* At first nothing is decided, and nobody is busy.
LEMMA AloneInit == Init => AloneInv
<1> SUFFICES ASSUME Init PROVE AloneInv
  OBVIOUS
<1>1. \A p \in Slots : req[p].at = "idle"
  BY DEF Init, Idle
<1>2. OneBusy /\ Facts
  BY <1>1 DEF OneBusy, Facts, Busy, ContribFacts, IssueFacts, GateSteps
<1>3. \A c \in Contribs : row[c].status = "none"
  BY DEF Init
<1>4. \A i \in Issues : state[i] \in {"none", "open"}
  BY DEF Init
<1>5. AppliedIsOnBranch /\ CacheKept
  BY <1>3 DEF AppliedIsOnBranch, CacheKept, Cached
<1>6. MergedIsReviewed /\ ParentIsLast
  BY <1>4, Apart DEF MergedIsReviewed, ParentIsLast, Issues
<1> QED BY <1>2, <1>5, <1>6 DEF AloneInv, Results

\* Only a person changes the configuration.
LEMMA ConfigStays ==
    ASSUME NEW p \in Slots, Arrives(p) \/ OnContribution(p) \/ OnIssue(p) \/ EndsHalfWay(p)
    PROVE  ConfigKept
<1> USE DEF ConfigKept
<1>1. CASE Arrives(p)
  BY <1>1 DEF Arrives, PushIsAuthorized, PushDeletesRef, VoteLoads, ApplyLoads, CloseLoads,
              MergeLoads, CloseIssueLoads, CreateLoads
<1>2. CASE OnContribution(p)
  BY <1>2 DEF OnContribution, PushReceives, SyncDeletion, SyncReadsIssue, SyncUpserts,
              ComputeReads, ComputeWrites, VoteIsRecorded, ApplyReviews, ApplyMerges,
              ApplySetsRef, ApplyMarks, CloseWrites
<1>3. CASE OnIssue(p)
  BY <1>3 DEF OnIssue, MergeGate, MergeAhead, MergeSubs, MergeMerges, MergeMovesBase,
              MergeSetsState, MergeDeletesBranch, CleanDeletes, CleanReads, CleanCloses,
              CleanEnds, CloseIssueSubs, SubIssueGate, CloseIssueSetsState, CreateInserts,
              CreateMakesBranch
<1>4. CASE EndsHalfWay(p)
  BY <1>4 DEF EndsHalfWay
<1> QED BY <1>1, <1>2, <1>3, <1>4

\* Every step keeps what is known as long as requests do not overlap.
LEMMA AloneStep == ASSUME Inv, TipInv, AloneInv, [Next]_vars PROVE AloneInv'
<1> SUFFICES ASSUME overlaps' = 0 PROVE AloneInv'
  BY DEF AloneInv
<1>1. CASE UNCHANGED vars
  BY <1>1 DEF vars, AloneInv, OneBusy, Busy, Facts, ContribFacts, IssueFacts, OpenDescendants, Of,
              Results, AppliedIsOnBranch, MergedIsReviewed, ParentIsLast, CacheKept, Cached,
              Current, Computing
<1>2. ASSUME NEW p \in Slots, OnContribution(p) PROVE AloneInv'
  BY <1>2, ConfigStays, AlonePush, AloneUpserts, AloneComputes, AloneVotes, AloneApplies,
     AloneSettles DEF OnContribution
<1>3. ASSUME NEW p \in Slots, OnIssue(p) PROVE AloneInv'
  BY <1>3, ConfigStays, AloneGates, AloneMerges, AloneSets, AloneCleans, AloneSettles DEF OnIssue
<1>4. ASSUME NEW p \in Slots, EndsHalfWay(p) PROVE AloneInv'
  <2>1. ConfigKept /\ Busy(p) /\ Done(p) /\ UNCHANGED <<state, row, vote, tip>> /\ faults' > 0
    BY <1>4, ConfigStays DEF EndsHalfWay, Inv, Counters
  <2> QED BY <2>1, EndsAlone, TipsStay
<1>5. CASE ConfigChanges
  <2>1. /\ UNCHANGED <<state, refs, tip, row, vote, req, overlaps, faults>> /\ changes' > 0
    BY <1>5 DEF ConfigChanges, Inv, Counters
  <2>2. OneBusy' /\ Facts'
    BY <2>1 DEF AloneInv, OneBusy, Busy, Facts, ContribFacts, IssueFacts, OpenDescendants, Of
  <2>3. Results'
    BY <2>1 DEF AloneInv, Results, AppliedIsOnBranch, MergedIsReviewed, ParentIsLast, CacheKept
  <2> QED BY <2>2, <2>3 DEF AloneInv
<1>6. ASSUME NEW p \in Slots, Arrives(p) PROVE AloneInv'
  BY <1>6, ConfigStays, AloneArrives
<1> QED BY <1>1, <1>2, <1>3, <1>4, <1>5, <1>6 DEF Next

\* Both invariants hold in every reachable state, beside the one about types.
THEOREM AloneInvariance == Spec => [](Inv /\ TipInv /\ AloneInv)
<1>1. Init => Inv /\ TipInv /\ AloneInv
  BY InitInv, TipInvInit, AloneInit
<1>2. Inv /\ TipInv /\ AloneInv /\ [Next]_vars => (TipInv /\ AloneInv)'
  BY TipInvStep, AloneStep
<1> QED BY <1>1, <1>2, Invariance, PTL DEF Spec

\* As long as no two requests overlap, the code of a contribution that
\* ApplyContribution marks merged is on an issue branch or on the base, and no
\* merge or deletion takes it away.
THEOREM AppliedCodeStays == Spec => []AloneAppliedIsOnBranch
<1>1. Inv /\ AloneInv => AloneAppliedIsOnBranch
  BY DEF AloneInv, AloneAppliedIsOnBranch, Results, Inv, Counters
<1> QED BY <1>1, AloneInvariance, PTL

\* As long as no two requests overlap, the gates of MergeIssue and of closing
\* an issue do what they are for: nothing unreviewed is left behind, and no
\* sub-issue stays open unless a read failed.
THEOREM NothingIsLeftOpen == Spec => []AloneNothingLeftOpen
<1>1. Inv /\ AloneInv => AloneNothingLeftOpen
  BY DEF AloneInv, AloneNothingLeftOpen, Results, MergedIsReviewed, ParentIsLast, Inv, Counters
<1> QED BY <1>1, AloneInvariance, PTL

\* The status column the merge gate reads is what the votes say, whenever no
\* request is under way, none failed, none overlapped another, and the host
\* configuration has not changed.
THEOREM CacheIsVerdict == Spec => []AloneCacheIsVerdict
<1>1. ASSUME Inv, AloneInv PROVE AloneCacheIsVerdict
  <2> SUFFICES ASSUME overlaps = 0, faults = 0, changes = 0, \A p \in Slots : ~Busy(p),
                      NEW c \in Contribs
               PROVE  Cached(c)
    BY <1>1 DEF AloneCacheIsVerdict, Cached, Current, Inv, Counters
  <2>1. ~Computing(c)
    BY DEF Computing, Busy
  <2> QED BY <1>1, <2>1 DEF AloneInv, Results, CacheKept
<1> QED BY <1>1, AloneInvariance, PTL

\* A settled contribution is not written any more, ...
LEMMA RowsAreFinal ==
    ASSUME Inv, AloneInv, overlaps' = 0, [Next]_vars, NEW c \in Contribs, row[c].status \in Terminal
    PROVE  row'[c].status = row[c].status
<1>0. row \in [Contribs -> Row]
  BY DEF Inv, Rows
<1>1. CASE UNCHANGED row
  BY <1>1
<1>2. ASSUME NEW p \in Slots, SyncUpserts(p) PROVE row'[c].status = row[c].status
  BY <1>0, <1>2 DEF SyncUpserts, Terminal
<1>3. ASSUME NEW p \in Slots, ComputeWrites(p) \/ ApplyMarks(p) \/ CloseWrites(p) \/ CleanCloses(p)
      PROVE  row'[c].status = row[c].status
  <2>1. Busy(p) /\ req[p].at \in {"setStatus", "mark", "close", "cleanClose"}
    BY <1>3 DEF ComputeWrites, ApplyMarks, CloseWrites, CleanCloses, At, Busy
  <2>2. OnlyOne(p)
    BY <1>3, <2>1, Only DEF ComputeWrites, ApplyMarks, CloseWrites, CleanCloses, Done
  <2>3. c # req[p].on
    BY <2>1, <2>2, Alone DEF ContribFacts
  <2> QED BY <1>0, <1>3, <2>3 DEF ComputeWrites, ApplyMarks, CloseWrites, CleanCloses
<1>4. ASSUME NEW p \in Slots, Arrives(p) \/ EndsHalfWay(p) PROVE UNCHANGED row
  BY <1>4 DEF Arrives, PushIsAuthorized, PushDeletesRef, VoteLoads, ApplyLoads, CloseLoads,
              MergeLoads, CloseIssueLoads, CreateLoads, EndsHalfWay
<1>5. ASSUME NEW p \in Slots, OnContribution(p)
      PROVE  \/ UNCHANGED row \/ SyncUpserts(p)
             \/ ComputeWrites(p) \/ ApplyMarks(p) \/ CloseWrites(p)
  BY <1>5 DEF OnContribution, PushReceives, SyncDeletion, SyncReadsIssue, SyncUpserts,
              ComputeReads, ComputeWrites, VoteIsRecorded, ApplyReviews, ApplyMerges,
              ApplySetsRef, ApplyMarks, CloseWrites
<1>6. ASSUME NEW p \in Slots, OnIssue(p)
      PROVE  UNCHANGED row \/ CleanCloses(p)
  BY <1>6 DEF OnIssue, MergeGate, MergeAhead, MergeSubs, MergeMerges, MergeMovesBase,
              MergeSetsState, MergeDeletesBranch, CleanDeletes, CleanReads, CleanCloses,
              CleanEnds, CloseIssueSubs, SubIssueGate, CloseIssueSetsState, CreateInserts,
              CreateMakesBranch
<1>7. CASE UNCHANGED vars \/ ConfigChanges
  BY <1>1, <1>7 DEF vars, ConfigChanges
<1> QED BY <1>1, <1>2, <1>3, <1>4, <1>5, <1>6, <1>7 DEF Next

\* ... nor is a settled issue.
LEMMA IssuesAreFinal ==
    ASSUME Inv, AloneInv, overlaps' = 0, [Next]_vars, NEW i \in Issues, state[i] \in {"merged", "closed"}
    PROVE  state'[i] = state[i]
<1>0. state \in [Issues -> IssueState]
  BY DEF Inv, States
<1>1. CASE UNCHANGED state
  BY <1>1
<1>2. ASSUME NEW p \in Slots, MergeSetsState(p) \/ CloseIssueSetsState(p) PROVE state'[i] = state[i]
  <2>1. Busy(p) /\ req[p].at \in {"mergeState", "closeIssue"}
    BY <1>2 DEF MergeSetsState, CloseIssueSetsState, At, Busy
  <2>2. OnlyOne(p)
    BY <1>2, <2>1, Only DEF MergeSetsState, CloseIssueSetsState, Done, GoTo
  <2>3. i # req[p].on
    BY <2>1, <2>2, Alone DEF IssueFacts, GateSteps
  <2> QED BY <1>0, <1>2, <2>3 DEF MergeSetsState, CloseIssueSetsState
<1>3. ASSUME NEW p \in Slots, CreateInserts(p) PROVE state'[i] = state[i]
  BY <1>0, <1>3 DEF CreateInserts
<1>4. ASSUME NEW p \in Slots, Arrives(p) \/ EndsHalfWay(p) PROVE UNCHANGED state
  BY <1>4 DEF Arrives, PushIsAuthorized, PushDeletesRef, VoteLoads, ApplyLoads, CloseLoads,
              MergeLoads, CloseIssueLoads, CreateLoads, EndsHalfWay
<1>5. ASSUME NEW p \in Slots, OnContribution(p)
      PROVE  UNCHANGED state
  BY <1>5 DEF OnContribution, PushReceives, SyncDeletion, SyncReadsIssue, SyncUpserts,
              ComputeReads, ComputeWrites, VoteIsRecorded, ApplyReviews, ApplyMerges,
              ApplySetsRef, ApplyMarks, CloseWrites
<1>6. ASSUME NEW p \in Slots, OnIssue(p)
      PROVE  \/ UNCHANGED state \/ MergeSetsState(p) \/ CloseIssueSetsState(p)
             \/ CreateInserts(p)
  BY <1>6 DEF OnIssue, MergeGate, MergeAhead, MergeSubs, MergeMerges, MergeMovesBase,
              MergeSetsState, MergeDeletesBranch, CleanDeletes, CleanReads, CleanCloses,
              CleanEnds, CloseIssueSubs, SubIssueGate, CloseIssueSetsState, CreateInserts,
              CreateMakesBranch
<1>7. CASE UNCHANGED vars \/ ConfigChanges
  BY <1>1, <1>7 DEF vars, ConfigChanges
<1> QED BY <1>1, <1>2, <1>3, <1>4, <1>5, <1>6, <1>7 DEF Next

\* As long as no two requests overlap, what was merged or closed stays so:
\* neither the sync, nor the review computation, nor the cleanup, nor the gates
\* of an issue take a decision back.
THEOREM DecisionsAreFinal == Spec => AloneDecisionsAreFinal
<1>1. Inv /\ Inv' /\ AloneInv /\ [Next]_vars =>
          [ \/ overlaps' > 0
            \/ /\ \A c \in Contribs : row[c].status \in Terminal => row'[c].status = row[c].status
               /\ \A i \in Issues : state[i] \in {"merged", "closed"} => state'[i] = state[i] ]_vars
  BY RowsAreFinal, IssuesAreFinal DEF Inv, Counters
<1> QED BY <1>1, AloneInvariance, PTL DEF Spec, AloneDecisionsAreFinal
=============================================================================
