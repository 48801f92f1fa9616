---------------------------- MODULE ModelRouter ----------------------------
(***************************************************************************)
(* The model groups of the LLM proxy: a request resolves a group name to   *)
(* the members that are available, calls them in the order of their        *)
(* priority until one answers, and reports every attempt to the health     *)
(* columns of the member's row.  Other requests report meanwhile, time     *)
(* passes and administrators switch members and providers off and on,      *)
(* replace the members and delete the group.                               *)
(*                                                                         *)
(* One group is modelled.  Rows are numbered as they are inserted, which   *)
(* is in the order of their priorities, so that the smallest id of a group *)
(* is the one preferred.  auto_disabled_until is kept as the time that is  *)
(* left, in units of backoffBase.                                          *)
(***************************************************************************)
EXTENDS Integers, Sequences, FiniteSets

CONSTANTS
    Request,     \* requests to the proxy
    Provider,    \* llm_providers
    Unserved,    \* those of a type that no adapter is registered for
    Lists,       \* the member lists an administrator may set, as providers
    Cap,         \* backoffCap in units of backoffBase
    MaxRows,     \* bound: rows ever inserted
    MaxChanges,  \* bound: changes made by administrators
    MaxFaults    \* bound: statements that fail, resolutions that could not read a
                 \* provider, and keys that cannot be decrypted

ASSUME RouterAssumption ==
    /\ Lists \subseteq Seq(Provider) /\ Provider # {} /\ Unserved \subseteq Provider
    /\ Cap \in Nat \ {0} /\ MaxRows \in Nat /\ MaxChanges \in Nat /\ MaxFaults \in Nat

VARIABLES
    exists,      \* the row of the group is there
    group,       \* the ids of its members
    row,         \* llm_model_group_members
    rows,        \* rows inserted so far
    off,         \* the providers that are disabled
    edit,        \* a PATCH of a provider under way: what it read
    req,         \* the requests: their next step and what they know
    steady,      \* history: members available ever since the request resolved the name
    changes, faults

vars == <<exists, group, row, rows, off, edit, req, steady, changes, faults>>

Id      == 1..MaxRows
Step    == {"new", "list", "call", "calling", "read", "write", "done"}
Outcome == {"none", "success", "transient", "network", "client"}
Answer  == {"none", "ok", "rejected", "exhausted", "unavailable", "unknown", "broken"}
Member  == [provider : Provider, manual : BOOLEAN, step : Nat, wait : Nat]

(* HealthPatch: no change, a clear, or a step with the time to rest.       *)
Patch == [sets : BOOLEAN, step : Nat, wait : Nat]
Keep  == [sets |-> FALSE, step |-> 0, wait |-> 0]
Clear == [sets |-> TRUE, step |-> 0, wait |-> 0]

Attempts == [at : Step, todo : SUBSET Id, member : Id \cup {0}, outcome : Outcome,
             patch : Patch, unread : SUBSET Id, failed : SUBSET Id, answer : Answer]

(* unread: history, the members whose provider could not be read.          *)
(* failed: the members whose failure was written to the usage log.         *)
Call0 == [at |-> "new", todo |-> {}, member |-> 0, outcome |-> "none", patch |-> Keep,
          unread |-> {}, failed |-> {}, answer |-> "none"]

At(r, s)      == req[r].at = s
Goes(r, c)    == req' = [req EXCEPT ![r] = c]
Done(c, a)    == [Call0 EXCEPT !.at = "done", !.answer = a,
                               !.unread = c.unread, !.failed = c.failed]
Ends(r, a)    == Goes(r, Done(req[r], a))
Available(m)  == m \in group /\ ~row[m].manual /\ row[m].provider \notin off /\ row[m].wait = 0

(* What a request could have called all along.                             *)
AvailableNow == {m \in Id : Available(m)}
Watch ==
    steady' = [r \in Request |->
                 IF req[r].at = "done" THEN steady[r]
                 ELSE IF req[r].at = "new" THEN AvailableNow'
                 ELSE steady[r] \cap AvailableNow']

Fresh(p)    == [provider |-> p, manual |-> FALSE, step |-> 0, wait |-> 0]
AnyProvider == CHOOSE p \in Provider : TRUE

Init ==
    /\ exists = TRUE
    /\ \E l \in Lists :
         /\ Len(l) <= MaxRows
         /\ rows = Len(l) /\ group = 1..Len(l)
         /\ row = [m \in Id |-> Fresh(IF m <= Len(l) THEN l[m] ELSE AnyProvider)]
    /\ off = {}
    /\ edit = [open |-> FALSE, provider |-> AnyProvider, off |-> FALSE]
    /\ req = [r \in Request |-> Call0]
    /\ steady = [r \in Request |-> AvailableNow]
    /\ changes = 0 /\ faults = 0

-----------------------------------------------------------------------------
(* A request.                                                              *)

GetGroupByName(r) ==
    /\ At(r, "new")
    /\ IF exists THEN Goes(r, [req[r] EXCEPT !.at = "list"]) ELSE Ends(r, "unknown")
    /\ UNCHANGED <<exists, group, row, rows, off, edit, changes, faults>>

(* The members are read with their health, once for the whole request,     *)
(* then the provider of each that is available.  A member whose provider   *)
(* cannot be read, for whatever reason, is left out without a word.        *)
ResolveModel(r) ==
    /\ At(r, "list")
    /\ \E unread \in SUBSET AvailableNow :
         LET c == [req[r] EXCEPT !.unread = unread]
         IN  /\ faults' = faults + (IF unread = {} THEN 0 ELSE 1) /\ faults' <= MaxFaults
             /\ IF AvailableNow \subseteq unread THEN Goes(r, Done(c, "unavailable"))
                ELSE Goes(r, [c EXCEPT !.at = "call", !.todo = AvailableNow \ unread])
    /\ UNCHANGED <<exists, group, row, rows, off, edit, changes>>

(* Mutant: the candidates are not taken in their order.                    *)
CallAny(r) ==
    /\ At(r, "call")
    /\ \E m \in req[r].todo :
         Goes(r, [req[r] EXCEPT !.at = "calling", !.member = m, !.todo = @ \ {m}])
    /\ UNCHANGED <<exists, group, row, rows, off, edit, changes, faults>>

(* The next candidate; rows keep their order whatever is written to them.  *)
IsNext(r, m) == m \in req[r].todo /\ \A n \in req[r].todo : m <= n

Call(r) ==
    /\ At(r, "call")
    /\ \E m \in Id :
         /\ IsNext(r, m) /\ row[m].provider \notin Unserved
         /\ Goes(r, [req[r] EXCEPT !.at = "calling", !.member = m, !.todo = @ \ {m}])
    /\ UNCHANGED <<exists, group, row, rows, off, edit, changes, faults>>

(* The database fails, or the key of a provider cannot be decrypted.       *)
Breaks(r) ==
    /\ req[r].at \in {"list", "call"} /\ faults < MaxFaults
    /\ faults' = faults + 1
    /\ Ends(r, "broken")
    /\ UNCHANGED <<exists, group, row, rows, off, edit, changes>>

(* The upstream answers, refuses, or is not reached in time.               *)
Respond(r, o) ==
    /\ At(r, "calling") /\ o # "none"
    /\ Goes(r, [req[r] EXCEPT !.at = "read", !.outcome = o])
    /\ UNCHANGED <<exists, group, row, rows, off, edit, changes, faults>>

FailsOver(o) == o \in {"transient", "network"}
Retryable(o) == o = "transient"

(* Mutant: the last candidate is not tried.                                *)
NextCandidateButLast(c) ==
    LET failed == [c EXCEPT !.failed = @ \cup {c.member}, !.outcome = "none", !.patch = Keep]
    IN  CASE c.outcome = "success" -> Done(c, "ok")
          [] c.outcome = "client" -> Done(c, "rejected")
          [] FailsOver(c.outcome) ->
               IF Cardinality(c.todo) <= 1 THEN Done(failed, "exhausted")
               ELSE [failed EXCEPT !.at = "call"]

(* What the handler does once the attempt is reported.                     *)
NextCandidate(c) ==
    LET failed == [c EXCEPT !.failed = @ \cup {c.member}, !.outcome = "none", !.patch = Keep]
    IN  CASE c.outcome = "success" -> Done(c, "ok")
          [] c.outcome = "client" -> Done(c, "rejected")
          [] FailsOver(c.outcome) ->
               IF c.todo = {} THEN Done(failed, "exhausted")
               ELSE [failed EXCEPT !.at = "call"]

(* The time to rest doubles up to the cap.                                 *)
NextBackoff(step) ==
    LET d == 2 ^ step IN IF step < 20 /\ d \in 1..Cap THEN d ELSE Cap

(* A provider of a type nobody serves is written to the usage log and       *)
(* passed over; nothing is reported of its member.                         *)
SkipUnserved(r) ==
    /\ At(r, "call")
    /\ \E m \in Id :
         /\ IsNext(r, m) /\ row[m].provider \in Unserved
         /\ Goes(r, NextCandidate([req[r] EXCEPT !.at = "read", !.member = m, !.todo = @ \ {m},
                                                !.outcome = "network"]))
    /\ UNCHANGED <<exists, group, row, rows, off, edit, changes, faults>>

(* ReportAttempt reads the row, computes the patch and then writes it.     *)
ReportReads(r) ==
    /\ At(r, "read")
    /\ LET m == req[r].member
           p == CASE req[r].outcome = "success" -> Clear
                  [] Retryable(req[r].outcome) ->
                       [sets |-> TRUE, step |-> row[m].step + 1,
                        wait |-> NextBackoff(row[m].step)]
                  [] OTHER -> Keep
       IN  IF m \in group THEN Goes(r, [req[r] EXCEPT !.at = "write", !.patch = p])
           ELSE Goes(r, NextCandidate(req[r]))
    /\ UNCHANGED <<exists, group, row, rows, off, edit, changes, faults>>

UpdateMemberHealth(m, p) ==
    row' = IF ~p.sets \/ m \notin group THEN row
           ELSE [row EXCEPT ![m].step = p.step, ![m].wait = p.wait]

ReportWrites(r) ==
    /\ At(r, "write")
    /\ UpdateMemberHealth(req[r].member, req[r].patch)
    /\ Goes(r, NextCandidate(req[r]))
    /\ UNCHANGED <<exists, group, rows, off, edit, changes, faults>>

(* A report that fails is not noticed.                                     *)
ReportFails(r) ==
    /\ req[r].at \in {"read", "write"} /\ faults < MaxFaults
    /\ faults' = faults + 1
    /\ Goes(r, NextCandidate(req[r]))
    /\ UNCHANGED <<exists, group, row, rows, off, edit, changes>>

-----------------------------------------------------------------------------
(* Time and administrators.                                                *)

Less(n) == IF n = 0 THEN 0 ELSE n - 1

(* A deadline that was computed and is not written yet comes closer too.   *)
TimePasses ==
    /\ \/ \E m \in Id : row[m].wait > 0
       \/ \E r \in Request : req[r].patch.wait > 0
    /\ row' = [m \in Id |-> [row[m] EXCEPT !.wait = Less(@)]]
    /\ req' = [r \in Request |-> [req[r] EXCEPT !.patch.wait = Less(@)]]
    /\ UNCHANGED <<exists, group, rows, off, edit, changes, faults>>

Changes == changes < MaxChanges /\ changes' = changes + 1

(* Enabling a member by hand forgets its failures.                         *)
SetMemberDisabled(m, d) ==
    /\ Changes /\ m \in group
    /\ row' = [row EXCEPT ![m] = IF d THEN [@ EXCEPT !.manual = TRUE]
                                 ELSE [@ EXCEPT !.manual = FALSE, !.step = 0, !.wait = 0]]
    /\ UNCHANGED <<exists, group, rows, off, edit, req, faults>>

SetProviderDisabled(p, d) ==
    /\ Changes
    /\ off' = IF d THEN off \cup {p} ELSE off \ {p}
    /\ UNCHANGED <<exists, group, row, rows, edit, req, faults>>

(* A PATCH that does not mention `disabled' writes back what it read.      *)
PatchReads(p) ==
    /\ Changes /\ ~edit.open
    /\ edit' = [open |-> TRUE, provider |-> p, off |-> p \in off]
    /\ UNCHANGED <<exists, group, row, rows, off, req, faults>>

UpdateProvider ==
    /\ edit.open
    /\ off' = IF edit.off THEN off \cup {edit.provider} ELSE off \ {edit.provider}
    /\ edit' = [edit EXCEPT !.open = FALSE]
    /\ UNCHANGED <<exists, group, row, rows, req, changes, faults>>

(* One transaction; the new rows know nothing of the old ones' health.     *)
ReplaceMembers(l) ==
    /\ exists /\ rows + Len(l) <= MaxRows /\ Changes
    /\ rows' = rows + Len(l) /\ group' = rows + 1 .. rows + Len(l)
    /\ row' = [m \in Id |-> IF m \in group' THEN Fresh(l[m - rows]) ELSE row[m]]
    /\ UNCHANGED <<exists, off, edit, req, faults>>

DeleteGroup ==
    /\ exists /\ Changes
    /\ exists' = FALSE /\ group' = {}
    /\ UNCHANGED <<row, rows, off, edit, req, faults>>

(* A group is created without members, which follow in a transaction of    *)
(* their own.                                                              *)
CreateGroup ==
    /\ ~exists /\ Changes
    /\ exists' = TRUE
    /\ UNCHANGED <<group, row, rows, off, edit, req, faults>>

-----------------------------------------------------------------------------
Administers ==
    \/ \E m \in Id, d \in BOOLEAN : SetMemberDisabled(m, d)
    \/ \E p \in Provider : PatchReads(p) \/ \E d \in BOOLEAN : SetProviderDisabled(p, d)
    \/ UpdateProvider \/ DeleteGroup \/ CreateGroup
    \/ \E l \in Lists : ReplaceMembers(l)

Proceeds(r) ==
    \/ GetGroupByName(r) \/ ResolveModel(r) \/ Call(r) \/ SkipUnserved(r)
    \/ \E o \in Outcome : Respond(r, o)
    \/ ReportReads(r) \/ ReportWrites(r)

Next ==
    /\ \/ \E r \in Request : Proceeds(r) \/ Breaks(r) \/ ReportFails(r)
       \/ TimePasses \/ Administers
    /\ Watch

Spec == Init /\ [][Next]_vars

-----------------------------------------------------------------------------
TypeOK ==
    /\ exists \in BOOLEAN /\ group \subseteq Id /\ rows \in 0..MaxRows
    /\ row \in [Id -> Member]
    /\ off \subseteq Provider
    /\ edit \in [open : BOOLEAN, provider : Provider, off : BOOLEAN]
    /\ req \in [Request -> Attempts]
    /\ steady \in [Request -> SUBSET Id]
    /\ changes \in 0..MaxChanges /\ faults \in 0..MaxFaults

(* A request that is told that the group is exhausted or unavailable has   *)
(* tried, in vain, every member that was available from its beginning to   *)
(* its end, whatever happened to the rows and the providers meanwhile.     *)
(* Excepted are exactly the members whose provider it could not read when  *)
(* it resolved the name: ResolveModel leaves them out without a word       *)
(* (group_router.go:67).                                                   *)
FailureIsHonest ==
    \A r \in Request :
        req[r].answer \in {"exhausted", "unavailable"} =>
          steady[r] \subseteq req[r].failed \cup req[r].unread

(* A member is called only after every member that is preferred to it and  *)
(* has been available all along has failed in this request, but for those  *)
(* whose provider could not be read when the request resolved the name.    *)
PreferenceKept ==
    \A r \in Request :
        req[r].at \in {"calling", "read", "write"} =>
          \A m \in steady[r] \ req[r].unread : m < req[r].member => m \in req[r].failed

(* However the reports of many requests cross, the step and the deadline   *)
(* of a row come from one report: no member rests without a failure that   *)
(* counts, nor longer than its step asks for.                              *)
RestsAsCounted ==
    \A m \in Id : row[m].wait <= IF row[m].step = 0 THEN 0 ELSE NextBackoff(row[m].step - 1)
=============================================================================
