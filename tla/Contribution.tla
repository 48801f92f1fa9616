---------------------------- MODULE Contribution ----------------------------
(***************************************************************************)
(* Contributions, reviews and merges: how code gets from an agent's branch *)
(* onto an issue branch and from there into the base branch.               *)
(*                                                                         *)
(* A contribution is a branch under an issue's namespace with a row in     *)
(* table contributions.  A push creates or moves the branch and then syncs *)
(* the row; reviewers vote; an approved contribution is applied to the     *)
(* issue branch; an issue whose contributions are settled is merged into   *)
(* its base.  There are two issues: "root", based on the default branch,   *)
(* and its sub-issue "sub", based on the branch of "root".                 *)
(*                                                                         *)
(* Requests run concurrently, take no lock and use no transaction: each    *)
(* one is a sequence of steps, a statement or the reads of a git call at a *)
(* time, with what it has read so far in `req'.  A branch tip is the set   *)
(* of the pushed commits reachable from it; merge commits are not counted. *)
(* The host configuration is a file on the default branch, read afresh for *)
(* every review computation; which of its rules the changes of a contribu- *)
(* tion match is the same for every commit pushed to its branch.           *)
(*                                                                         *)
(* Mergeability columns, stored head hashes, todos, events other than      *)
(* votes, permissions decided before the first read, and the pushes people *)
(* make to base and issue branches themselves are left out.                *)
(***************************************************************************)
EXTENDS Naturals, FiniteSets

CONSTANTS
    Contribs,      \* contribution branches, issue-<N>/<role>/<slug>
    SubContribs,   \* those in the namespace of the sub-issue
    Voters,        \* everybody who votes
    Author,        \* the role each contribution branch belongs to
    Roles,         \* the roles of the host repository
    Configs,       \* the configurations: reviewers by rule, and those to fall back on
    Slots,         \* requests that may be under way at the same time
    People,        \* TRUE when people push to contribution branches too
    MaxPushes,     \* bound: pushes to one contribution branch
    MaxRequests,   \* bound: requests
    MaxOverlaps,   \* bound: requests that begin while another is under way
    MaxChanges,    \* bound: changes of the configuration
    MaxFaults      \* bound: reads that fail and requests that end half-way

ASSUME ContributionAssumption ==
    /\ SubContribs \subseteq Contribs
    /\ IsFiniteSet(Slots)
    /\ Configs \subseteq [named : [Contribs -> SUBSET Roles], fallback : SUBSET Roles]
    /\ People \in BOOLEAN
    /\ MaxPushes \in Nat /\ MaxRequests \in Nat /\ MaxOverlaps \in Nat /\ MaxFaults \in Nat
    /\ MaxChanges \in Nat
    /\ Contribs \cap {"main", "root", "sub"} = {}

VARIABLES
    state,      \* issues.state
    refs,       \* the branches that exist
    tip,        \* the commits reachable from a branch
    row,        \* contributions: status, head_sha, whether changed_paths is known
    vote,       \* the last vote event of each voter on each contribution
    req,        \* the request in each slot: its next step and what it has read
    pushes,     \* commits pushed so far to each contribution branch
    requests,   \* requests so far
    content,    \* history: the commits reachable from each pushed commit
    astray,     \* history: contributions whose row may be behind their branch
    faults,     \* reads that failed and requests that ended half-way so far
    overlaps,   \* requests that began while another was under way so far
    config,     \* the host configuration
    changes,    \* changes of the configuration so far
    passed,     \* history: commits the review approved at some time
    blind       \* history: commits reviewed without the configuration or the diff

pushed == <<pushes, content, astray>>
review == <<config, changes, passed, blind>>
vars   == <<state, refs, tip, row, vote, req, requests, overlaps, faults, pushed, review>>

Issues   == {"root", "sub"}
Branches == {"main"} \cup Issues \cup Contribs
Commits  == Contribs \X (1..MaxPushes)
Code     == SUBSET Commits

IssueState == {"none", "open", "merged", "closed"}
Status     == {"none", "pending", "approved", "rejected", "merged", "closed"}
Terminal   == {"merged", "closed"}
Vote       == [value : {"none", "approve", "reject"}, head : 0..MaxPushes]
Row        == [status : Status, head : 0..MaxPushes, paths : BOOLEAN]
Step       == {"idle", "push", "sync", "upsert", "delete", "vote", "compute", "setStatus",
               "review", "apply", "applyWrites", "mark", "close",
               "mergeGate", "mergeAhead", "mergeSubs", "merge", "mergeWrites", "mergeState",
               "deleteBranch", "clean", "cleanRow", "cleanClose",
               "closeSubs", "closeIssue", "create", "createBranch"}
Request    == [at : Step, on : Branches, head : 0..MaxPushes, status : Status,
               paths : BOOLEAN, code : Code]

IssueOf(c) == IF c \in SubContribs THEN "sub" ELSE "root"
BaseOf(i)  == IF i = "sub" THEN "root" ELSE "main"
Of(i)      == {c \in Contribs : IssueOf(c) = i}

Idle         == [at |-> "idle", on |-> "main", head |-> 0, status |-> "none",
                 paths |-> TRUE, code |-> {}]
AtStep(s, b) == [Idle EXCEPT !.at = s, !.on = b]
At(p, s)     == req[p].at = s
Busy(p)      == req[p].at # "idle"

(* The reviewers a contribution needs: those its changed paths call for or *)
(* else the fallback, but never its author.                                *)
RequiredReviewers(cfg, c, paths) ==
    LET named == IF paths THEN cfg.named[c] ELSE {}
    IN  (IF named = {} THEN cfg.fallback ELSE named) \ {Author[c]}

(* The review computation: votes on another head are stale, any effective  *)
(* reject rejects, and otherwise every required reviewer must have voted:  *)
(* an abstention counts as an approval does, and is one here.              *)
Verdict(required, head, votes) ==
    LET effective == {v \in Voters : votes[v].value # "none" /\ votes[v].head = head}
    IN  IF head = 0 THEN "pending"
        ELSE IF \E v \in effective : votes[v].value = "reject" THEN "rejected"
        ELSE IF required \subseteq effective THEN "approved" ELSE "pending"

(* What the review approves by a configuration that is read, of what was   *)
(* pushed.                                                                 *)
Approved(cfg, votes, count) ==
    {x \in Commits : /\ x[2] <= count[x[1]]
                     /\ Verdict(RequiredReviewers(cfg, x[1], TRUE), x[2], votes[x[1]])
                            = "approved"}

NoVote == [value |-> "none", head |-> 0]

Init ==
    /\ state \in {s \in [Issues -> {"none", "open"}] : s["root"] = "open"}
    /\ refs = {"main"} \cup {i \in Issues : state[i] = "open"}
    /\ tip = [b \in Branches |-> {}]
    /\ row = [c \in Contribs |-> [status |-> "none", head |-> 0, paths |-> TRUE]]
    /\ vote = [c \in Contribs |-> [v \in Voters |-> NoVote]]
    /\ req = [p \in Slots |-> Idle]
    /\ pushes = [c \in Contribs |-> 0]
    /\ content = [x \in Commits |-> {}]
    /\ config \in Configs
    /\ requests = 0 /\ faults = 0 /\ overlaps = 0 /\ changes = 0
    /\ astray = {} /\ passed = {} /\ blind = {}

(* A request enters a slot at its first step; it leaves it when done.      *)
Begin(p, r) ==
    /\ ~Busy(p) /\ requests < MaxRequests
    /\ req' = [req EXCEPT ![p] = r]
    /\ requests' = requests + 1
    /\ IF \E q \in Slots : Busy(q)
       THEN overlaps < MaxOverlaps /\ overlaps' = overlaps + 1
       ELSE UNCHANGED overlaps
Continue(p, r) == req' = [req EXCEPT ![p] = r] /\ UNCHANGED <<requests, overlaps>>
GoTo(p, s)     == Continue(p, [req[p] EXCEPT !.at = s])
Done(p)        == Continue(p, Idle)

(* A read whose failure is not told to anybody.                            *)
Reads(ok) == IF ok THEN UNCHANGED faults ELSE faults < MaxFaults /\ faults' = faults + 1

(* A person changes the configuration; nothing is computed anew.           *)
ConfigChanges ==
    /\ changes < MaxChanges
    /\ changes' = changes + 1
    /\ config' \in Configs \ {config}
    /\ passed' = passed \cup Approved(config', vote, pushes)
    /\ UNCHANGED <<state, refs, tip, row, vote, req, requests, overlaps, faults, pushed, blind>>

-----------------------------------------------------------------------------
(* Pushes and the sync that follows them.                                  *)

(* From the moment the branch is pushed until the row is synced the two    *)
(* differ; requests that push or apply meanwhile may go astray.            *)
PushSteps   == {"push", "sync", "upsert"}
ApplySteps  == {"review", "apply", "applyWrites"}
UnderWay(c, steps) == \E q \in Slots : req[q].at \in steps /\ req[q].on = c
Strays(c)   == astray' = astray \cup {c}

(* The git endpoint lets an agent's session push while its issue is open.  *)
PushIsAuthorized(p, c) ==
    /\ People \/ state[IssueOf(c)] = "open"
    /\ pushes[c] + Cardinality({q \in Slots : At(q, "push") /\ req[q].on = c}) < MaxPushes
    /\ Begin(p, AtStep("push", c))
    /\ IF UnderWay(c, PushSteps \cup ApplySteps) THEN Strays(c) ELSE UNCHANGED astray
    /\ UNCHANGED <<state, refs, tip, row, vote, pushes, content, faults, review>>

(* An agent may only create the branch; a person may also move it.  The    *)
(* new commit stands on any branch as fetched, also on that of another     *)
(* contribution, or on none of the commits pushed here.                    *)
PushMovesRef(p, n) ==
    LET c == req[p].on
    IN  /\ People \/ c \notin refs
        /\ \E base \in {{}} \cup {tip[b] : b \in {IssueOf(c)} \cup Contribs} :
               /\ tip' = [tip EXCEPT ![c] = base \cup {<<c, n>>}]
               /\ content' = [content EXCEPT ![<<c, n>>] = base \cup {<<c, n>>}]
        /\ refs' = refs \cup {c}
        /\ UNCHANGED astray

(* Git may refuse the update: somebody else has created the branch, or a   *)
(* branch protection is in the way.  The observers are told of it as of    *)
(* any other, and the row is synced to a commit that is on no branch.      *)
PushReceives(p) ==
    LET c == req[p].on
        n == pushes[c] + 1
    IN  /\ At(p, "push")
        /\ PushMovesRef(p, n) \/ (UNCHANGED <<refs, tip, content>> /\ Strays(c))
        /\ pushes' = [pushes EXCEPT ![c] = n]
        /\ passed' = passed \cup Approved(config, vote, pushes')
        /\ Continue(p, [AtStep("sync", c) EXCEPT !.head = n])
        /\ UNCHANGED <<state, row, vote, faults, config, changes, blind>>

(* A person deletes the branch, or git refuses that: the sync will close   *)
(* the contribution either way.                                            *)
PushDeletesRef(p, c) ==
    /\ People /\ c \in refs
    /\ \/ refs' = refs \ {c} /\ tip' = [tip EXCEPT ![c] = {}]
       \/ UNCHANGED <<refs, tip>>
    /\ Begin(p, AtStep("delete", c))
    /\ UNCHANGED <<state, row, vote, pushed, faults, review>>

SyncDeletion(p) ==
    LET c == req[p].on
    IN  /\ At(p, "delete")
        /\ IF row[c].status \in Terminal \cup {"none"}
           THEN Done(p)
           ELSE GoTo(p, "close")
        /\ UNCHANGED <<state, refs, tip, row, vote, pushed, faults, review>>

SyncReadsIssue(p) ==
    /\ At(p, "sync")
    /\ IF state[IssueOf(req[p].on)] = "open"
       THEN GoTo(p, "upsert") /\ UNCHANGED astray
       ELSE Done(p) /\ Strays(req[p].on)
    /\ UNCHANGED <<state, refs, tip, row, vote, pushes, content, faults, review>>

\* Mutant: the status is not recomputed for the new head.
SyncUpsertsOnly(p) ==
    LET c == req[p].on
        s == IF row[c].status = "none" THEN "pending" ELSE row[c].status
    IN  /\ At(p, "upsert")
        /\ row' = [row EXCEPT ![c] = [status |-> s, head |-> req[p].head, paths |-> TRUE]]
        /\ Done(p)
        /\ UNCHANGED <<state, refs, tip, vote, pushed, faults, review>>

(* A new row is pending; an existing one gets the new head and keeps its   *)
(* status until it is recomputed.  Without the diff no path has changed.   *)
SyncUpserts(p) ==
    LET c == req[p].on
        s == IF row[c].status = "none" THEN "pending" ELSE row[c].status
    IN  /\ At(p, "upsert")
        /\ \E ok \in BOOLEAN :
               /\ Reads(ok)
               /\ row' = [row EXCEPT ![c] = [status |-> s, head |-> req[p].head, paths |-> ok]]
               /\ Continue(p, [req[p] EXCEPT !.at = "compute", !.status = s, !.paths = ok])
               /\ blind' = IF ok THEN blind ELSE blind \cup {<<c, req[p].head>>}
        /\ UNCHANGED <<state, refs, tip, vote, pushed, config, changes, passed>>

(* A review by the votes; nobody is required when the configuration cannot *)
(* be read.                                                                *)
Review(r, ok) ==
    Verdict(IF ok THEN RequiredReviewers(config, r.on, r.paths) ELSE {}, r.head, vote[r.on])

(* recomputeContributionStatus on the row as this request has loaded it.   *)
ComputeReads(p) ==
    LET r == req[p]
    IN  /\ At(p, "compute")
        /\ \E ok \in BOOLEAN :
               /\ Reads(ok)
               /\ IF r.status \in Terminal \/ Review(r, ok) = r.status
                  THEN Done(p)
                  ELSE Continue(p, [r EXCEPT !.at = "setStatus", !.status = Review(r, ok)])
        /\ UNCHANGED <<state, refs, tip, row, vote, pushed, review>>

ComputeWrites(p) ==
    /\ At(p, "setStatus")
    /\ row' = [row EXCEPT ![req[p].on].status = req[p].status]
    /\ Done(p)
    /\ UNCHANGED <<state, refs, tip, vote, pushed, faults, review>>

-----------------------------------------------------------------------------
(* Reviews, applying and closing a contribution.                           *)

Load(p, s, c) ==
    /\ row[c].status # "none"
    /\ Begin(p, [at |-> s, on |-> c, head |-> row[c].head, status |-> row[c].status,
                 paths |-> row[c].paths, code |-> {}])

(* Only agents vote, and only while the issue is open.                     *)
VoteLoads(p, c) ==
    /\ state[IssueOf(c)] = "open"
    /\ Load(p, "vote", c)
    /\ UNCHANGED <<state, refs, tip, row, vote, pushed, faults, review>>

VoteIsRecorded(p, v) ==
    LET r == req[p]
    IN  /\ At(p, "vote")
        /\ \E x \in {"approve", "reject"} :
               vote' = [vote EXCEPT ![r.on][v] = [value |-> x, head |-> r.head]]
        /\ passed' = passed \cup Approved(config, vote', pushes)
        /\ GoTo(p, "compute")
        /\ UNCHANGED <<state, refs, tip, row, pushed, faults, config, changes, blind>>

\* Mutant: a settled contribution is applied too.
ApplyLoadsSettled(p, c) ==
    /\ Load(p, "review", c)
    /\ IF UnderWay(c, PushSteps) THEN Strays(c) ELSE UNCHANGED astray
    /\ UNCHANGED <<state, refs, tip, row, vote, pushes, content, faults, review>>

(* A maintainer may apply or close a contribution of an issue that is      *)
(* closed or merged.                                                       *)
ApplyLoads(p, c) ==
    /\ row[c].status \notin Terminal
    /\ Load(p, "review", c)
    /\ IF UnderWay(c, PushSteps) THEN Strays(c) ELSE UNCHANGED astray
    /\ UNCHANGED <<state, refs, tip, row, vote, pushes, content, faults, review>>

\* Mutant: the cached status is trusted instead of the votes.
ApplyReviewsCached(p) ==
    /\ At(p, "review")
    /\ IF req[p].status # "rejected" THEN GoTo(p, "apply") ELSE Done(p)
    /\ UNCHANGED <<state, refs, tip, row, vote, pushed, faults, review>>

ApplyReviews(p) ==
    LET r == req[p]
    IN  /\ At(p, "review")
        /\ \E ok \in BOOLEAN :
               /\ Reads(ok)
               /\ IF Review(r, ok) = "approved" THEN GoTo(p, "apply") ELSE Done(p)
               /\ blind' = IF ok THEN blind ELSE blind \cup {<<r.on, r.head>>}
        /\ UNCHANGED <<state, refs, tip, row, vote, pushed, config, changes, passed>>

\* Mutant: a conflict is taken for success.
MergeReadsConflict(p, into, from, writes, contained) ==
    \/ from \notin refs /\ Done(p)
    \/ /\ from \in refs
       /\ ~(tip[from] \subseteq tip[into]) /\ ~(tip[into] \subseteq tip[from])
       /\ GoTo(p, contained)
    \/ /\ from \in refs
       /\ IF into \in refs /\ tip[from] \subseteq tip[into]
          THEN GoTo(p, contained)
          ELSE Continue(p, [req[p] EXCEPT !.at = writes, !.code = tip[into] \cup tip[from]])

(* MergeBranch reads both tips and then sets the ref.  It refuses when the *)
(* source is gone, may find a conflict when the branches have diverged,    *)
(* and changes nothing when the source is already contained; a target that *)
(* does not exist is created.                                              *)
MergeReads(p, into, from, writes, contained) ==
    \/ from \notin refs /\ Done(p)
    \/ /\ from \in refs
       /\ ~(tip[from] \subseteq tip[into]) /\ ~(tip[into] \subseteq tip[from])
       /\ Done(p)
    \/ /\ from \in refs
       /\ IF into \in refs /\ tip[from] \subseteq tip[into]
          THEN GoTo(p, contained)
          ELSE Continue(p, [req[p] EXCEPT !.at = writes, !.code = tip[into] \cup tip[from]])

MergeSetsRef(p, into, next) ==
    /\ refs' = refs \cup {into}
    /\ tip' = [tip EXCEPT ![into] = req[p].code]
    /\ Continue(p, [req[p] EXCEPT !.at = next, !.code = {}])

ApplyMerges(p) ==
    /\ At(p, "apply")
    /\ MergeReads(p, IssueOf(req[p].on), req[p].on, "applyWrites", "mark")
    /\ UNCHANGED <<state, refs, tip, row, vote, pushed, faults, review>>

ApplySetsRef(p) ==
    /\ At(p, "applyWrites")
    /\ MergeSetsRef(p, IssueOf(req[p].on), "mark")
    /\ UNCHANGED <<state, row, vote, pushed, faults, review>>

ApplyMarks(p) ==
    /\ At(p, "mark")
    /\ row' = [row EXCEPT ![req[p].on].status = "merged"]
    /\ Done(p)
    /\ UNCHANGED <<state, refs, tip, vote, pushed, faults, review>>

CloseLoads(p, c) ==
    /\ row[c].status \notin Terminal
    /\ Load(p, "close", c)
    /\ UNCHANGED <<state, refs, tip, row, vote, pushed, faults, review>>

CloseWrites(p) ==
    /\ At(p, "close")
    /\ row' = [row EXCEPT ![req[p].on].status = "closed"]
    /\ Done(p)
    /\ UNCHANGED <<state, refs, tip, vote, pushed, faults, review>>

-----------------------------------------------------------------------------
(* Merging, closing and creating issues.                                   *)

MergeLoads(p, i) ==
    /\ state[i] = "open"
    /\ Begin(p, AtStep("mergeGate", i))
    /\ UNCHANGED <<state, refs, tip, row, vote, pushed, faults, review>>

\* Mutant: only a rejected contribution blocks the merge.
MergeGateRejected(p) ==
    /\ At(p, "mergeGate")
    /\ IF \E c \in Of(req[p].on) : row[c].status = "rejected"
       THEN Done(p)
       ELSE GoTo(p, "mergeAhead")
    /\ UNCHANGED <<state, refs, tip, row, vote, pushed, faults, review>>

(* Every contribution is settled, and the branch is ahead of its base.     *)
MergeGate(p) ==
    /\ At(p, "mergeGate")
    /\ IF \E c \in Of(req[p].on) : row[c].status = "pending"
       THEN Done(p)
       ELSE GoTo(p, "mergeAhead")
    /\ UNCHANGED <<state, refs, tip, row, vote, pushed, faults, review>>

MergeAhead(p) ==
    LET i == req[p].on
    IN  /\ At(p, "mergeAhead")
        /\ IF i \in refs /\ (BaseOf(i) \in refs => ~(tip[i] \subseteq tip[BaseOf(i)]))
           THEN GoTo(p, "mergeSubs")
           ELSE Done(p)
        /\ UNCHANGED <<state, refs, tip, row, vote, pushed, faults, review>>

OpenDescendants(i) == IF i = "root" THEN {s \in {"sub"} : state[s] = "open"} ELSE {}

(* No open sub-issue may be left; when they cannot be read, there is none. *)
SubIssueGate(p, from, to) ==
    /\ At(p, from)
    /\ \/ OpenDescendants(req[p].on) = {} /\ GoTo(p, to) /\ UNCHANGED faults
       \/ OpenDescendants(req[p].on) # {} /\ Done(p) /\ UNCHANGED faults
       \/ faults < MaxFaults /\ faults' = faults + 1 /\ GoTo(p, to)
    /\ UNCHANGED <<state, refs, tip, row, vote, pushed, review>>

MergeSubs(p)      == SubIssueGate(p, "mergeSubs", "merge")
CloseIssueSubs(p) == SubIssueGate(p, "closeSubs", "closeIssue")

MergeMerges(p) ==
    /\ At(p, "merge")
    /\ MergeReads(p, BaseOf(req[p].on), req[p].on, "mergeWrites", "mergeState")
    /\ UNCHANGED <<state, refs, tip, row, vote, pushed, faults, review>>

MergeMovesBase(p) ==
    /\ At(p, "mergeWrites")
    /\ MergeSetsRef(p, BaseOf(req[p].on), "mergeState")
    /\ UNCHANGED <<state, row, vote, pushed, faults, review>>

MergeSetsState(p) ==
    /\ At(p, "mergeState")
    /\ state' = [state EXCEPT ![req[p].on] = "merged"]
    /\ GoTo(p, "deleteBranch")
    /\ UNCHANGED <<refs, tip, row, vote, pushed, faults, review>>

(* The issue branch is deleted unless the configuration, a protection or a *)
(* guard forbids it.                                                       *)
MergeDeletesBranch(p) ==
    LET i == req[p].on
    IN  /\ At(p, "deleteBranch")
        /\ \/ refs' = refs \ {i} /\ tip' = [tip EXCEPT ![i] = {}]
           \/ UNCHANGED <<refs, tip>>
        /\ GoTo(p, "clean")
        /\ UNCHANGED <<state, row, vote, pushed, faults, review>>

(* The cleanup deletes the contribution branches one by one and closes the *)
(* rows that are not terminal; a protected branch is skipped.              *)
CleanDeletes(p, c) ==
    /\ At(p, "clean") /\ IssueOf(c) = req[p].on /\ c \in refs
    /\ refs' = refs \ {c}
    /\ tip' = [tip EXCEPT ![c] = {}]
    /\ Continue(p, AtStep("cleanRow", c))
    /\ UNCHANGED <<state, row, vote, pushed, faults, review>>

CleanReads(p) ==
    LET c == req[p].on
    IN  /\ At(p, "cleanRow")
        /\ IF row[c].status \in Terminal \cup {"none"}
           THEN Continue(p, AtStep("clean", IssueOf(c)))
           ELSE GoTo(p, "cleanClose")
        /\ UNCHANGED <<state, refs, tip, row, vote, pushed, faults, review>>

CleanCloses(p) ==
    /\ At(p, "cleanClose")
    /\ row' = [row EXCEPT ![req[p].on].status = "closed"]
    /\ Continue(p, AtStep("clean", IssueOf(req[p].on)))
    /\ UNCHANGED <<state, refs, tip, vote, pushed, faults, review>>

CleanEnds(p) ==
    /\ At(p, "clean")
    /\ Done(p)
    /\ UNCHANGED <<state, refs, tip, row, vote, pushed, faults, review>>

CloseIssueLoads(p, i) ==
    /\ state[i] = "open"
    /\ Begin(p, AtStep("closeSubs", i))
    /\ UNCHANGED <<state, refs, tip, row, vote, pushed, faults, review>>

CloseIssueSetsState(p) ==
    /\ At(p, "closeIssue")
    /\ state' = [state EXCEPT ![req[p].on] = "closed"]
    /\ Done(p)
    /\ UNCHANGED <<refs, tip, row, vote, pushed, faults, review>>

(* A sub-issue needs an open parent: the handler checks it, and an agent's *)
(* call passes the gate on its own issue, which is the parent.             *)
CreateLoads(p) ==
    /\ state["root"] = "open" /\ state["sub"] = "none"
    /\ Begin(p, AtStep("create", "sub"))
    /\ UNCHANGED <<state, refs, tip, row, vote, pushed, faults, review>>

CreateInserts(p) ==
    /\ At(p, "create")
    /\ IF state["sub"] = "none"
       THEN state' = [state EXCEPT !["sub"] = "open"] /\ GoTo(p, "createBranch")
       ELSE UNCHANGED state /\ Done(p)
    /\ UNCHANGED <<refs, tip, row, vote, pushed, faults, review>>

CreateMakesBranch(p) ==
    /\ At(p, "createBranch")
    /\ IF "root" \in refs /\ "sub" \notin refs
       THEN refs' = refs \cup {"sub"} /\ tip' = [tip EXCEPT !["sub"] = tip["root"]]
       ELSE UNCHANGED <<refs, tip>>
    /\ Done(p)
    /\ UNCHANGED <<state, row, vote, pushed, faults, review>>

(* A statement or a git call fails, or the server dies, between two steps. *)
EndsHalfWay(p) ==
    /\ Busy(p) /\ faults < MaxFaults
    /\ faults' = faults + 1
    /\ Done(p)
    /\ IF req[p].at \in {"sync", "upsert"} THEN Strays(req[p].on) ELSE UNCHANGED astray
    /\ UNCHANGED <<state, refs, tip, row, vote, pushes, content, review>>

-----------------------------------------------------------------------------
Arrives(p) ==
    \/ \E c \in Contribs : \/ PushIsAuthorized(p, c) \/ PushDeletesRef(p, c)
                           \/ VoteLoads(p, c) \/ ApplyLoads(p, c) \/ CloseLoads(p, c)
    \/ \E i \in Issues : MergeLoads(p, i) \/ CloseIssueLoads(p, i)
    \/ CreateLoads(p)

OnContribution(p) ==
    \/ PushReceives(p) \/ SyncDeletion(p)
    \/ SyncReadsIssue(p) \/ SyncUpserts(p) \/ ComputeReads(p) \/ ComputeWrites(p)
    \/ \E v \in Voters : VoteIsRecorded(p, v)
    \/ ApplyReviews(p) \/ ApplyMerges(p) \/ ApplySetsRef(p) \/ ApplyMarks(p)
    \/ CloseWrites(p)

OnIssue(p) ==
    \/ MergeGate(p) \/ MergeAhead(p) \/ MergeSubs(p) \/ MergeMerges(p)
    \/ MergeMovesBase(p) \/ MergeSetsState(p) \/ MergeDeletesBranch(p)
    \/ \E c \in Contribs : CleanDeletes(p, c)
    \/ CleanReads(p) \/ CleanCloses(p) \/ CleanEnds(p)
    \/ CloseIssueSubs(p) \/ CloseIssueSetsState(p)
    \/ CreateInserts(p) \/ CreateMakesBranch(p)

Next ==
    \/ \E p \in Slots : Arrives(p) \/ OnContribution(p) \/ OnIssue(p) \/ EndsHalfWay(p)
    \/ ConfigChanges

Spec == Init /\ [][Next]_vars

-----------------------------------------------------------------------------
(* Properties.                                                             *)

TypeOK ==
    /\ state \in [Issues -> IssueState]
    /\ refs \subseteq Branches
    /\ tip \in [Branches -> Code]
    /\ row \in [Contribs -> Row]
    /\ vote \in [Contribs -> [Voters -> Vote]]
    /\ req \in [Slots -> Request]
    /\ pushes \in [Contribs -> 0..MaxPushes]
    /\ requests \in 0..MaxRequests /\ overlaps \in 0..MaxOverlaps /\ faults \in 0..MaxFaults
    /\ passed \subseteq Commits /\ blind \subseteq Contribs \X (0..MaxPushes)
    /\ content \in [Commits -> Code] /\ astray \subseteq Contribs
    /\ config \in Configs /\ changes \in 0..MaxChanges

(* Code reaches an issue branch or the base only through the review: a     *)
(* commit that is there is reachable from one that the votes approved at   *)
(* some time, by the configuration as it was then.  It holds however the   *)
(* requests overlap and fail, for branches that were moved too, with two   *)
(* exceptions the code leaves open.  Where the configuration or the diff   *)
(* could not be read, nobody was required to vote.  And where the row was  *)
(* behind its branch, what landed is what the branch was by then: a branch *)
(* was pushed while a push or an apply of it was under way, a push was     *)
(* refused, or a sync came to nothing.                                     *)
Reaches(heads) == UNION {content[x] : x \in heads \cap Commits}
Excepted == blind \cup {x \in Commits : x[1] \in astray}
LandedWasApproved ==
    \A b \in {"main"} \cup Issues : tip[b] \subseteq Reaches(passed \cup Excepted)

(* The code of a contribution marked merged is on an issue branch or on    *)
(* the base, as long as no two requests overlapped, also when some ended   *)
(* half-way.  Two merges into one branch at a time lose one of them.       *)
AppliedIsOnBranch ==
    \A c \in Contribs : row[c].status = "merged" =>
        \E b \in {"main"} \cup Issues : \E x \in tip[b] : x[1] = c
AloneAppliedIsOnBranch == overlaps > 0 \/ AppliedIsOnBranch

(* As long as no two requests overlapped, a merged issue left nothing      *)
(* unreviewed behind, and neither a merged nor a closed issue an open      *)
(* sub-issue, unless a read failed.                                        *)
AloneNothingLeftOpen ==
    \/ overlaps > 0
    \/ /\ \A c \in Contribs : state[IssueOf(c)] = "merged" => row[c].status # "pending"
       /\ faults > 0 \/ (state["root"] \in {"merged", "closed"} => state["sub"] # "open")

(* The cached status the merge gate reads is what the votes say, whenever  *)
(* no request is under way, as long as none failed, none overlapped        *)
(* another, and the configuration is still that of the beginning, since a  *)
(* change of it computes nothing anew.                                     *)
AloneCacheIsVerdict ==
    \/ overlaps > 0 \/ faults > 0 \/ changes > 0 \/ \E p \in Slots : Busy(p)
    \/ \A c \in Contribs :
           LET required == RequiredReviewers(config, c, row[c].paths)
           IN  row[c].status \in Terminal \cup {"none", Verdict(required, row[c].head, vote[c])}

(* As long as no two requests overlapped, a contribution that was merged   *)
(* or closed and an issue that was merged or closed stay so.               *)
AloneDecisionsAreFinal ==
    [][ \/ overlaps' > 0
        \/ /\ \A c \in Contribs : row[c].status \in Terminal => row'[c].status = row[c].status
           /\ \A i \in Issues : state[i] \in {"merged", "closed"} => state'[i] = state[i] ]_vars
=============================================================================
