------------------------- MODULE ModelRouter_proofs -------------------------
(***************************************************************************)
(* The model router for any number of requests, members and providers:     *)
(* failures are honest, preferences are kept, and members rest as their    *)
(* counted failures ask for.                                               *)
(*                                                                         *)
(* What has been available all along can only shrink, so that it is enough *)
(* to follow one request: what it has not called yet is in its list, and   *)
(* the list loses its smallest member at every call.                       *)
(***************************************************************************)
EXTENDS ModelRouter, TLAPS

\* The members a request has done with.
Gone(c) == c.failed \cup c.unread

\* What a request that knows c, and could have called S all along, relies on.
Good(c, S) ==
    /\ c \in Attempts
    /\ c.at # "done" => c.answer = "none"
    /\ c.at = "call" => S \subseteq c.todo \cup Gone(c)
    /\ c.at \in {"calling", "read", "write"} =>
         /\ c.member \in Id
         /\ S \subseteq c.todo \cup Gone(c) \cup {c.member}
         /\ \A m \in S : m < c.member => m \in Gone(c)
    /\ c.at \in {"read", "write"} => c.outcome # "none"
    /\ c.answer \in {"exhausted", "unavailable"} => S \subseteq Gone(c)

\* A step and a deadline that belong together.
Paired(p) == p.wait <= IF p.step = 0 THEN 0 ELSE NextBackoff(p.step - 1)

Rows ==
    /\ exists \in BOOLEAN /\ group \subseteq Id /\ rows \in 0..MaxRows
    /\ row \in [Id -> Member]
    /\ off \subseteq Provider
    /\ edit \in [open : BOOLEAN, provider : Provider, off : BOOLEAN]
    /\ changes \in 0..MaxChanges /\ faults \in 0..MaxFaults
Requests ==
    /\ DOMAIN req = Request /\ req = [r \in Request |-> req[r]]
    /\ steady \in [Request -> SUBSET Id]
    /\ \A r \in Request : Good(req[r], steady[r]) /\ Paired(req[r].patch)
Rested == \A m \in Id : Paired(row[m])

Inv == Rows /\ Requests /\ Rested

-----------------------------------------------------------------------------
\* A time to rest is a number.
LEMMA BackoffIsNat == ASSUME NEW s PROVE NextBackoff(s) \in Nat
<1> DEFINE d == 2 ^ s
<1>1. NextBackoff(s) = IF s < 20 /\ d \in 1..Cap THEN d ELSE Cap
  BY DEF NextBackoff
<1>2. Cap \in Nat
  BY RouterAssumption
<1> HIDE DEF d
<1> QED BY <1>1, <1>2

\* A request that could have called less is as good.
LEMMA GoodShrinks ==
    ASSUME NEW c, NEW S, NEW T \in SUBSET S, Good(c, S) PROVE Good(c, T)
BY DEF Good

\* What was available all along shrinks.
LEMMA SteadyShrinks ==
    ASSUME Inv, Watch
    PROVE  /\ steady' \in [Request -> SUBSET Id]
           /\ \A r \in Request : req[r].at # "new" => steady'[r] \subseteq steady[r]
           /\ \A r \in Request : req[r].at = "list" => steady'[r] \subseteq AvailableNow'
BY DEF Inv, Requests, Watch, AvailableNow

\* A request that is done.
LEMMA DoneIs ==
    ASSUME NEW c, c.failed \in SUBSET Id, c.unread \in SUBSET Id, NEW a \in Answer
    PROVE  /\ Done(c, a) \in Attempts /\ Done(c, a).at = "done" /\ Done(c, a).answer = a
           /\ Gone(Done(c, a)) = Gone(c) /\ Done(c, a).patch = Keep
           /\ Done(c, a).unread = c.unread
<1>1. Call0 \in Attempts /\ Call0.patch = Keep
  BY DEF Call0, Attempts, Step, Outcome, Patch, Keep, Answer
<1>2. "done" \in Step
  BY DEF Step
<1> DEFINE d == Done(c, a)
<1>3. /\ d \in Attempts /\ d.at = "done" /\ d.answer = a /\ d.patch = Keep
      /\ d.unread = c.unread /\ d.failed = c.failed
  BY <1>1, <1>2 DEF Done, Attempts
<1> HIDE DEF d
<1>4. Gone(d) = Gone(c)
  BY <1>3 DEF Gone
<1> QED BY <1>3, <1>4 DEF d

\* Once a row's attempt is reported the request goes on well.
LEMMA GoesOn ==
    ASSUME NEW c, NEW S \in SUBSET Id, Good(c, S), c.at \in {"read", "write"}
    PROVE  Good(NextCandidate(c), S) /\ NextCandidate(c).patch = Keep
<1> DEFINE failed == [c EXCEPT !.failed = @ \cup {c.member}, !.outcome = "none", !.patch = Keep]
<1>1. /\ c \in Attempts /\ c.member \in Id /\ c.answer = "none" /\ Keep \in Patch
      /\ c.outcome \in {"success", "client", "transient", "network"}
      /\ S \subseteq c.todo \cup Gone(c) \cup {c.member} /\ c.unread \in SUBSET Id
  BY DEF Good, Attempts, Outcome, Keep, Patch
<1>2. failed \in Attempts /\ failed.failed = c.failed \cup {c.member} /\ failed.patch = Keep
      /\ failed.todo = c.todo /\ failed.answer = "none" /\ failed.unread = c.unread
  BY <1>1 DEF Attempts, Outcome
<1>3. \A x \in {c, failed}, a \in {"ok", "rejected", "exhausted"} :
         /\ Done(x, a) \in Attempts /\ Done(x, a).at = "done" /\ Done(x, a).answer = a
         /\ Gone(Done(x, a)) = Gone(x) /\ Done(x, a).patch = Keep
  <2>1. \A x \in {c, failed} : x.failed \in SUBSET Id /\ x.unread \in SUBSET Id
    BY <1>1, <1>2 DEF Attempts
  <2>2. {"ok", "rejected", "exhausted"} \subseteq Answer
    BY DEF Answer
  <2> SUFFICES ASSUME NEW x \in {c, failed}, NEW a \in {"ok", "rejected", "exhausted"}
               PROVE  /\ Done(x, a) \in Attempts /\ Done(x, a).at = "done" /\ Done(x, a).answer = a
                      /\ Gone(Done(x, a)) = Gone(x) /\ Done(x, a).patch = Keep
    OBVIOUS
  <2>3. a \in Answer /\ x.failed \in SUBSET Id /\ x.unread \in SUBSET Id
    BY <2>1, <2>2
  <2> HIDE DEF failed
  <2> QED BY <2>3, DoneIs
<1> HIDE DEF failed
<1>4. CASE c.outcome \in {"success", "client"}
  <2>1. NextCandidate(c) = Done(c, "ok") \/ NextCandidate(c) = Done(c, "rejected")
    BY <1>4 DEF NextCandidate, FailsOver
  <2> QED BY <2>1, <1>1, <1>3 DEF Good
<1>5. CASE c.outcome \in {"transient", "network"} /\ c.todo = {}
  <2>1. NextCandidate(c) = Done(failed, "exhausted")
    BY <1>5 DEF NextCandidate, FailsOver, failed
  <2>2. S \subseteq Gone(failed)
    BY <1>1, <1>2, <1>5 DEF Gone
  <2> QED BY <2>1, <2>2, <1>3 DEF Good
<1>6. CASE c.outcome \in {"transient", "network"} /\ c.todo # {}
  <2>1. NextCandidate(c) = [failed EXCEPT !.at = "call"]
    BY <1>6 DEF NextCandidate, FailsOver, failed
  <2>2. /\ NextCandidate(c) \in Attempts /\ NextCandidate(c).at = "call"
        /\ NextCandidate(c).todo = c.todo /\ NextCandidate(c).failed = c.failed \cup {c.member}
        /\ NextCandidate(c).unread = c.unread
        /\ NextCandidate(c).patch = Keep /\ NextCandidate(c).answer = "none"
    BY <2>1, <1>2 DEF Attempts, Step
  <2>3. S \subseteq NextCandidate(c).todo \cup Gone(NextCandidate(c))
    BY <2>2, <1>1 DEF Gone
  <2> QED BY <2>2, <2>3 DEF Good
<1> QED BY <1>1, <1>4, <1>5, <1>6

\* One request moves on, the others stay.
LEMMA OneMoves ==
    ASSUME Inv, Watch, NEW r \in Request, NEW c, Goes(r, c),
           Good(c, steady'[r]), Paired(c.patch)
    PROVE  Requests'
<1>1. /\ DOMAIN req' = Request /\ req' = [q \in Request |-> req'[q]]
      /\ req'[r] = c /\ \A q \in Request \ {r} : req'[q] = req[q]
  BY DEF Inv, Requests, Goes
<1>2. ASSUME NEW q \in Request \ {r} PROVE Good(req[q], steady'[q]) /\ Paired(req[q].patch)
  <2>1. Good(req[q], steady[q]) /\ Paired(req[q].patch)
    BY DEF Inv, Requests
  <2>2. CASE req[q].at # "new"
    BY <2>1, <2>2, SteadyShrinks, GoodShrinks
  <2>3. CASE req[q].at = "new"
    BY <2>1, <2>3 DEF Good
  <2> QED BY <2>1, <2>2, <2>3
<1> QED BY <1>1, <1>2, SteadyShrinks DEF Requests

\* No request moves.
LEMMA NoneMoves == ASSUME Inv, Watch, UNCHANGED req PROVE Requests'
<1>1. ASSUME NEW q \in Request PROVE Good(req[q], steady'[q]) /\ Paired(req[q].patch)
  <2>1. Good(req[q], steady[q]) /\ Paired(req[q].patch)
    BY DEF Inv, Requests
  <2>2. CASE req[q].at # "new"
    BY <2>1, <2>2, SteadyShrinks, GoodShrinks
  <2>3. CASE req[q].at = "new"
    BY <2>1, <2>3 DEF Good
  <2> QED BY <2>1, <2>2, <2>3
<1> QED BY <1>1, SteadyShrinks DEF Requests, Inv

-----------------------------------------------------------------------------
LEMMA InitInv == Init => Inv
<1> SUFFICES ASSUME Init PROVE Inv
  OBVIOUS
<1>1. PICK l \in Lists : /\ Len(l) <= MaxRows /\ rows = Len(l) /\ group = 1..Len(l)
                         /\ row = [m \in Id |-> Fresh(IF m <= Len(l) THEN l[m] ELSE AnyProvider)]
  BY DEF Init
<1>2. l \in Seq(Provider) /\ Len(l) \in Nat /\ MaxRows \in Nat /\ MaxChanges \in Nat
      /\ MaxFaults \in Nat /\ Provider # {}
  BY <1>1, RouterAssumption
<1>3. AnyProvider \in Provider
  BY <1>2 DEF AnyProvider
<1>4. \A m \in Id : row[m] \in Member /\ row[m].step = 0 /\ row[m].wait = 0
  <2>1. \A m \in Id : m <= Len(l) => l[m] \in Provider
    BY <1>2 DEF Id
  <2> QED BY <1>1, <1>3, <2>1 DEF Fresh, Member
<1>5. Rows
  BY <1>1, <1>2, <1>3, <1>4 DEF Init, Rows, Id
<1>6. Rested
  BY <1>4 DEF Rested, Paired
<1>7. Call0 \in Attempts /\ Call0.patch = Keep /\ Call0.at = "new" /\ Call0.answer = "none"
  BY DEF Call0, Attempts, Keep, Patch, Step, Outcome, Answer
<1>8. \A S : Good(Call0, S)
  BY <1>7 DEF Good
<1>9. Requests
  BY <1>7, <1>8 DEF Init, Requests, AvailableNow, Paired, Keep
<1> QED BY <1>5, <1>6, <1>9 DEF Inv

\* The variables of rows and administrators.
LEMMA StepRows == ASSUME Inv, Next PROVE Rows'
<1> USE DEF Inv, Rows
<1>1. ASSUME NEW r \in Request, Proceeds(r) \/ Breaks(r) \/ ReportFails(r) PROVE Rows'
  <2>1. CASE ReportWrites(r)
    <3>1. req[r].patch \in Patch
      BY DEF Requests, Good, Attempts
    <3>2. row' \in [Id -> Member]
      BY <2>1, <3>1 DEF ReportWrites, UpdateMemberHealth, Member, Patch
    <3> QED BY <2>1, <3>2 DEF ReportWrites
  <2>2. CASE GetGroupByName(r) \/ Call(r) \/ SkipUnserved(r)
    BY <2>2 DEF GetGroupByName, Call, SkipUnserved
  <2>5. CASE ResolveModel(r)
    BY <2>5, RouterAssumption DEF ResolveModel
  <2>3. CASE (\E o \in Outcome : Respond(r, o)) \/ ReportReads(r)
    BY <2>3 DEF Respond, ReportReads
  <2>4. CASE Breaks(r) \/ ReportFails(r)
    BY <2>4, RouterAssumption DEF Breaks, ReportFails
  <2> QED BY <1>1, <2>1, <2>2, <2>3, <2>4, <2>5 DEF Proceeds
<1>2. CASE TimePasses
  <2>1. \A m \in Id : row[m] \in Member /\ Less(row[m].wait) \in Nat
    BY DEF Member, Less
  <2>2. \A m \in Id : [row[m] EXCEPT !.wait = Less(row[m].wait)] \in Member
    <3> HIDE DEF Less
    <3> QED BY <2>1 DEF Member
  <2>3. row' \in [Id -> Member]
    BY <1>2, <2>2 DEF TimePasses
  <2> QED BY <1>2, <2>3 DEF TimePasses
<1>3. ASSUME NEW m \in Id, NEW d \in BOOLEAN, SetMemberDisabled(m, d) PROVE Rows'
  <2>1. row' \in [Id -> Member]
    BY <1>3 DEF SetMemberDisabled, Member
  <2> QED BY <1>3, <2>1, RouterAssumption DEF SetMemberDisabled, Changes
<1>4. ASSUME NEW p \in Provider, PatchReads(p) \/ \E d \in BOOLEAN : SetProviderDisabled(p, d)
      PROVE  Rows'
  <2>1. CASE PatchReads(p)
    <3> DEFINE b == p \in off
    <3>1. b \in BOOLEAN
      OBVIOUS
    <3>2. edit' = [open |-> TRUE, provider |-> p, off |-> b]
      BY <2>1 DEF PatchReads
    <3> HIDE DEF b
    <3>3. edit' \in [open : BOOLEAN, provider : Provider, off : BOOLEAN]
      BY <3>1, <3>2
    <3> QED BY <2>1, <3>3, RouterAssumption DEF PatchReads, Changes
  <2>2. CASE \E d \in BOOLEAN : SetProviderDisabled(p, d)
    BY <2>2, RouterAssumption DEF SetProviderDisabled, Changes
  <2> QED BY <1>4, <2>1, <2>2
<1>5. CASE UpdateProvider
  <2>1. edit.provider \in Provider /\ off' \subseteq Provider
    BY <1>5 DEF UpdateProvider
  <2>2. edit' \in [open : BOOLEAN, provider : Provider, off : BOOLEAN]
    BY <1>5 DEF UpdateProvider
  <2> QED BY <1>5, <2>1, <2>2 DEF UpdateProvider
<1>6. CASE DeleteGroup \/ CreateGroup
  <2>1. exists' \in BOOLEAN /\ group' \subseteq Id
    BY <1>6 DEF DeleteGroup, CreateGroup
  <2>2. changes' \in 0..MaxChanges
    BY <1>6, RouterAssumption DEF DeleteGroup, CreateGroup, Changes
  <2> QED BY <1>6, <2>1, <2>2 DEF DeleteGroup, CreateGroup
<1>7. ASSUME NEW l \in Lists, ReplaceMembers(l) PROVE Rows'
  <2>1. l \in Seq(Provider) /\ Len(l) \in Nat /\ MaxRows \in Nat /\ MaxChanges \in Nat
    BY RouterAssumption
  <2>2. /\ rows' = rows + Len(l) /\ rows' \in 0..MaxRows
        /\ group' = (rows + 1) .. (rows + Len(l)) /\ group' \subseteq Id
    BY <1>7, <2>1 DEF ReplaceMembers, Id
  <2>3. \A m \in group' : Fresh(l[m - rows]) \in Member
    BY <2>1, <2>2 DEF Fresh, Member
  <2>4. row' \in [Id -> Member]
    BY <1>7, <2>3 DEF ReplaceMembers
  <2> QED BY <1>7, <2>1, <2>2, <2>4 DEF ReplaceMembers, Changes
<1> QED BY <1>1, <1>2, <1>3, <1>4, <1>5, <1>6, <1>7 DEF Next, Administers

\* The requests.
LEMMA StepRequests == ASSUME Inv, Next PROVE Requests'
<1> USE DEF Inv
<1>0. Watch
  BY DEF Next
<1>1. ASSUME NEW r \in Request, Proceeds(r) \/ Breaks(r) \/ ReportFails(r) PROVE Requests'
  <2>1. /\ Good(req[r], steady[r]) /\ Paired(req[r].patch) /\ steady[r] \in SUBSET Id
        /\ steady'[r] \in SUBSET Id
        /\ req[r].at # "new" => Good(req[r], steady'[r])
    BY <1>0, SteadyShrinks, GoodShrinks DEF Requests
  <2>2. req[r] \in Attempts
    BY <2>1 DEF Good
  <2>3. ASSUME NEW a \in Answer PROVE
        /\ Done(req[r], a) \in Attempts /\ Done(req[r], a).at = "done"
        /\ Done(req[r], a).answer = a /\ Paired(Done(req[r], a).patch)
    <3>1. req[r].failed \in SUBSET Id /\ req[r].unread \in SUBSET Id
      BY <2>2 DEF Attempts
    <3> QED BY <3>1, DoneIs DEF Paired, Keep
  <2>4. CASE GetGroupByName(r)
    <3>1. CASE exists
      <4>1. Good([req[r] EXCEPT !.at = "list"], steady'[r])
        BY <2>1, <2>2, <2>4 DEF GetGroupByName, At, Good, Attempts, Step
      <4>2. [req[r] EXCEPT !.at = "list"].patch = req[r].patch
        BY <2>2 DEF Attempts
      <4> QED BY <1>0, <2>1, <2>4, <3>1, <4>1, <4>2, OneMoves DEF GetGroupByName
    <3>2. CASE ~exists
      <4>1. Good(Done(req[r], "unknown"), steady'[r])
        BY <2>3 DEF Good, Answer
      <4> QED BY <1>0, <2>3, <2>4, <3>2, <4>1, OneMoves DEF GetGroupByName, Ends, Answer
    <3> QED BY <3>1, <3>2
  <2>5. CASE ResolveModel(r)
    <3>1. AvailableNow' = AvailableNow /\ AvailableNow \in SUBSET Id
      BY <2>5 DEF ResolveModel, AvailableNow, Available
    <3>2. steady'[r] \subseteq AvailableNow
      BY <1>0, <2>5, <3>1, SteadyShrinks DEF ResolveModel, At
    <3>3. PICK unread \in SUBSET AvailableNow :
            LET c == [req[r] EXCEPT !.unread = unread]
            IN  IF AvailableNow \subseteq unread THEN Goes(r, Done(c, "unavailable"))
                ELSE Goes(r, [c EXCEPT !.at = "call", !.todo = AvailableNow \ unread])
      BY <2>5 DEF ResolveModel
    <3> DEFINE c == [req[r] EXCEPT !.unread = unread]
               d == [c EXCEPT !.at = "call", !.todo = AvailableNow \ unread]
               e == Done(c, "unavailable")
    <3>4. /\ c \in Attempts /\ c.unread = unread /\ c.failed = req[r].failed
          /\ c.patch = req[r].patch /\ c.answer = "none"
      BY <2>1, <2>2, <2>5, <3>1 DEF ResolveModel, At, Good, Attempts
    <3>5. Goes(r, d) \/ (AvailableNow \subseteq unread /\ Goes(r, e))
      BY <3>3
    <3>6. /\ d \in Attempts /\ d.at = "call" /\ d.todo = AvailableNow \ unread
          /\ d.unread = unread /\ d.patch = req[r].patch /\ d.answer = "none"
      BY <3>1, <3>4 DEF Attempts, Step
    <3>8. /\ e \in Attempts /\ e.at = "done" /\ e.answer = "unavailable"
          /\ e.unread = unread /\ e.patch = Keep
      <4>1. c.unread \in SUBSET Id /\ c.failed \in SUBSET Id /\ "unavailable" \in Answer
        BY <3>4 DEF Attempts, Answer
      <4> HIDE DEF c
      <4> QED BY <3>4, <4>1, DoneIs
    <3> HIDE DEF c, d, e
    <3>9. Good(d, steady'[r])
      BY <3>2, <3>6 DEF Good, Gone
    <3>10. AvailableNow \subseteq unread => Good(e, steady'[r])
      BY <3>2, <3>8 DEF Good, Gone
    <3>11. Paired(d.patch) /\ Paired(e.patch)
      BY <2>1, <3>6, <3>8 DEF Paired, Keep
    <3> QED BY <1>0, <3>5, <3>9, <3>10, <3>11, OneMoves
  <2>6. CASE Call(r)
    <3>1. PICK m \in Id :
            /\ IsNext(r, m)
            /\ Goes(r, [req[r] EXCEPT !.at = "calling", !.member = m, !.todo = @ \ {m}])
      BY <2>6 DEF Call
    <3> DEFINE c == [req[r] EXCEPT !.at = "calling", !.member = m, !.todo = @ \ {m}]
    <3>2. req[r].todo \in SUBSET Id
      BY <2>2 DEF Attempts
    <3>3. /\ c \in Attempts /\ c.at = "calling" /\ c.member = m /\ c.todo = req[r].todo \ {m}
          /\ c.patch = req[r].patch /\ c.answer = "none" /\ Gone(c) = Gone(req[r])
      BY <2>1, <2>2, <2>6, <3>2 DEF Call, At, Good, Attempts, Step, Gone
    <3> HIDE DEF c
    <3>4. steady'[r] \subseteq req[r].todo \cup Gone(req[r])
      BY <2>1, <2>6 DEF Call, At, Good
    <3>5. \A n \in steady'[r] : n < m => n \in Gone(req[r])
      BY <3>1, <3>2, <3>4 DEF Id, IsNext
    <3>6. Good(c, steady'[r])
      BY <3>1, <3>3, <3>4, <3>5 DEF Good, IsNext
    <3> QED BY <1>0, <2>1, <3>1, <3>3, <3>6, OneMoves DEF c
  <2>12. CASE SkipUnserved(r)
    <3>1. PICK m \in Id :
            /\ IsNext(r, m)
            /\ Goes(r, NextCandidate([req[r] EXCEPT !.at = "read", !.member = m, !.todo = @ \ {m},
                                                   !.outcome = "network"]))
      BY <2>12 DEF SkipUnserved
    <3> DEFINE c == [req[r] EXCEPT !.at = "read", !.member = m, !.todo = @ \ {m},
                                   !.outcome = "network"]
    <3>2. req[r].todo \in SUBSET Id
      BY <2>2 DEF Attempts
    <3>3. /\ c \in Attempts /\ c.at = "read" /\ c.member = m /\ c.todo = req[r].todo \ {m}
          /\ c.outcome = "network" /\ c.answer = "none" /\ Gone(c) = Gone(req[r])
      BY <2>1, <2>2, <2>12, <3>2 DEF SkipUnserved, At, Good, Attempts, Step, Outcome, Gone
    <3>4. Goes(r, NextCandidate(c))
      BY <3>1
    <3> HIDE DEF c
    <3>5. steady'[r] \subseteq req[r].todo \cup Gone(req[r])
      BY <2>1, <2>12 DEF SkipUnserved, At, Good
    <3>6. \A n \in steady'[r] : n < m => n \in Gone(req[r])
      BY <3>1, <3>2, <3>5 DEF Id, IsNext
    <3>7. Good(c, steady'[r])
      BY <3>1, <3>3, <3>5, <3>6 DEF Good, IsNext
    <3>8. Good(NextCandidate(c), steady'[r]) /\ NextCandidate(c).patch = Keep
      BY <2>1, <3>3, <3>7, GoesOn
    <3> QED BY <1>0, <3>4, <3>8, OneMoves DEF Paired, Keep
  <2>7. ASSUME NEW o \in Outcome, Respond(r, o) PROVE Requests'
    <3> DEFINE c == [req[r] EXCEPT !.at = "read", !.outcome = o]
    <3>1. Goes(r, c) /\ c \in Attempts /\ c.at = "read" /\ c.outcome = o /\ c.patch = req[r].patch
          /\ c.member = req[r].member /\ c.todo = req[r].todo /\ Gone(c) = Gone(req[r])
          /\ c.answer = req[r].answer
      BY <2>2, <2>7 DEF Respond, Attempts, Step, Gone
    <3> HIDE DEF c
    <3>2. req[r].at = "calling" /\ o # "none"
      BY <2>7 DEF Respond, At
    <3>3. Good(c, steady'[r])
      BY <2>1, <3>1, <3>2 DEF Good
    <3> QED BY <1>0, <2>1, <3>1, <3>3, OneMoves
  <2>8. ASSUME req[r].at \in {"read", "write"}, Goes(r, NextCandidate(req[r])) PROVE Requests'
    <3>1. Good(NextCandidate(req[r]), steady'[r]) /\ NextCandidate(req[r]).patch = Keep
      BY <2>1, <2>8, GoesOn
    <3> QED BY <1>0, <2>8, <3>1, OneMoves DEF Paired, Keep
  <2>9. CASE ReportReads(r)
    <3> DEFINE m == req[r].member
               p == CASE req[r].outcome = "success" -> Clear
                      [] Retryable(req[r].outcome) ->
                           [sets |-> TRUE, step |-> row[m].step + 1,
                            wait |-> NextBackoff(row[m].step)]
                      [] OTHER -> Keep
    <3>1. CASE m \notin group
      BY <2>8, <2>9, <3>1 DEF ReportReads, At
    <3>2. CASE m \in group
      <4>1. m \in Id /\ row[m].step \in Nat /\ NextBackoff(row[m].step) \in Nat
        BY <3>2, BackoffIsNat DEF Rows, Member
      <4>2. p \in {Clear, Keep, [sets |-> TRUE, step |-> row[m].step + 1,
                                 wait |-> NextBackoff(row[m].step)]}
        BY DEF Retryable
      <4>3. p \in Patch /\ Paired(p)
        BY <4>1, <4>2 DEF Clear, Keep, Patch, Paired
      <4> HIDE DEF p
      <4> DEFINE c == [req[r] EXCEPT !.at = "write", !.patch = p]
      <4>4. /\ c \in Attempts /\ c.at = "write" /\ c.outcome = req[r].outcome /\ c.patch = p
            /\ c.member = req[r].member /\ c.todo = req[r].todo /\ Gone(c) = Gone(req[r])
            /\ c.answer = req[r].answer
        BY <2>2, <4>3 DEF Attempts, Step, Gone
      <4>5. Goes(r, c) /\ req[r].at = "read"
        BY <2>9, <3>2 DEF ReportReads, At, p
      <4> HIDE DEF c
      <4>6. Good(c, steady'[r])
        BY <2>1, <4>4, <4>5 DEF Good
      <4> QED BY <1>0, <4>3, <4>4, <4>5, <4>6, OneMoves
    <3> QED BY <3>1, <3>2
  <2>10. CASE ReportWrites(r) \/ ReportFails(r)
    BY <2>8, <2>10 DEF ReportWrites, ReportFails, At
  <2>11. CASE Breaks(r)
    <3>1. Good(Done(req[r], "broken"), steady'[r])
      BY <2>3 DEF Good, Answer
    <3> QED BY <1>0, <2>3, <2>11, <3>1, OneMoves DEF Breaks, Ends, Answer
  <2> QED BY <1>1, <2>4, <2>5, <2>6, <2>7, <2>9, <2>10, <2>11, <2>12 DEF Proceeds
<1>2. CASE TimePasses
  <2>1. /\ DOMAIN req' = Request /\ req' = [q \in Request |-> req'[q]]
        /\ \A q \in Request : req'[q] = [req[q] EXCEPT !.patch.wait = Less(@)]
    BY <1>2 DEF TimePasses
  <2>2. ASSUME NEW q \in Request PROVE Good(req'[q], steady'[q]) /\ Paired(req'[q].patch)
    <3> DEFINE w == Less(req[q].patch.wait)
    <3>1. Good(req[q], steady[q]) /\ Paired(req[q].patch) /\ req[q] \in Attempts
      BY DEF Requests, Good
    <3>2. req[q].patch \in Patch /\ req[q].patch.wait \in Nat /\ req[q].patch.step \in Nat
      BY <3>1 DEF Attempts, Patch
    <3>3. w \in Nat /\ w <= req[q].patch.wait
      BY <3>2 DEF Less
    <3> HIDE DEF w
    <3>4. req'[q] = [req[q] EXCEPT !.patch = [req[q].patch EXCEPT !.wait = w]]
      BY <2>1, <3>1 DEF w
    <3>5. [req[q].patch EXCEPT !.wait = w] \in Patch
          /\ [req[q].patch EXCEPT !.wait = w].step = req[q].patch.step
          /\ [req[q].patch EXCEPT !.wait = w].wait = w
      BY <3>2, <3>3 DEF Patch
    <3>6. /\ req'[q] \in Attempts /\ req'[q].patch = [req[q].patch EXCEPT !.wait = w]
          /\ req'[q].at = req[q].at /\ req'[q].todo = req[q].todo
          /\ req'[q].member = req[q].member /\ req'[q].outcome = req[q].outcome
          /\ Gone(req'[q]) = Gone(req[q]) /\ req'[q].answer = req[q].answer
      BY <3>1, <3>4, <3>5 DEF Attempts, Gone
    <3>7. Paired(req'[q].patch)
      <4>1. NextBackoff(req[q].patch.step - 1) \in Nat
        BY BackoffIsNat
      <4> QED BY <3>1, <3>2, <3>3, <3>5, <3>6, <4>1 DEF Paired
    <3>8. CASE req[q].at # "new"
      <4>1. steady'[q] \subseteq steady[q]
        BY <1>0, <3>8, SteadyShrinks
      <4>2. Good(req[q], steady'[q])
        BY <3>1, <4>1, GoodShrinks
      <4> QED BY <3>6, <3>7, <4>2 DEF Good
    <3>9. CASE req[q].at = "new"
      BY <3>1, <3>6, <3>7, <3>9 DEF Good
    <3> QED BY <3>8, <3>9
  <2> QED BY <1>0, <2>1, <2>2, SteadyShrinks DEF Requests
<1>3. CASE Administers
  <2>1. UNCHANGED req
    BY <1>3 DEF Administers, SetMemberDisabled, PatchReads, SetProviderDisabled, UpdateProvider,
                DeleteGroup, CreateGroup, ReplaceMembers
  <2> QED BY <1>0, <2>1, NoneMoves
<1> QED BY <1>1, <1>2, <1>3 DEF Next

\* The rests.
LEMMA StepRested == ASSUME Inv, Next PROVE Rested'
<1> USE DEF Inv
<1>1. CASE UNCHANGED row
  BY <1>1 DEF Rested, Paired
<1>2. ASSUME NEW r \in Request, ReportWrites(r) PROVE Rested'
  <2> DEFINE p == req[r].patch  m == req[r].member
  <2>1. p \in Patch /\ Paired(p) /\ row \in [Id -> Member]
    BY DEF Requests, Good, Attempts, Rows
  <2>2. CASE row' = row
    BY <2>2 DEF Rested, Paired
  <2>3. CASE row' = [row EXCEPT ![m].step = p.step, ![m].wait = p.wait]
    <3>1. \A n \in Id \ {m} : row'[n] = row[n]
      BY <2>1, <2>3
    <3>2. m \in Id => row'[m].step = p.step /\ row'[m].wait = p.wait
      BY <2>1, <2>3 DEF Member
    <3> QED BY <2>1, <3>1, <3>2 DEF Rested, Paired
  <2> QED BY <1>2, <2>2, <2>3 DEF ReportWrites, UpdateMemberHealth
<1>3. CASE TimePasses
  <2>1. \A n \in Id : row'[n].step = row[n].step /\ row'[n].wait = Less(row[n].wait)
    BY <1>3 DEF TimePasses, Rows, Member
  <2>2. ASSUME NEW n \in Id PROVE Paired(row'[n])
    <3>1. Paired(row[n]) /\ row[n].step \in Nat /\ row[n].wait \in Nat
      BY DEF Rested, Rows, Member
    <3>2. NextBackoff(row[n].step - 1) \in Nat
      BY BackoffIsNat
    <3> QED BY <2>1, <3>1, <3>2 DEF Paired, Less
  <2> QED BY <2>2 DEF Rested
<1>4. ASSUME NEW m \in Id, NEW d \in BOOLEAN, SetMemberDisabled(m, d) PROVE Rested'
  <2>1. \A n \in Id \ {m} : row'[n] = row[n]
    BY <1>4 DEF SetMemberDisabled, Rows
  <2>2. \/ row'[m].step = row[m].step /\ row'[m].wait = row[m].wait
        \/ row'[m].step = 0 /\ row'[m].wait = 0
    <3>1. row[m] \in Member
      BY DEF Rows
    <3>2. CASE d
      <4>1. row'[m] = [row[m] EXCEPT !.manual = TRUE]
        BY <1>4, <3>2 DEF SetMemberDisabled, Rows
      <4> QED BY <3>1, <4>1 DEF Member
    <3>3. CASE ~d
      <4>1. row'[m] = [row[m] EXCEPT !.manual = FALSE, !.step = 0, !.wait = 0]
        BY <1>4, <3>3 DEF SetMemberDisabled, Rows
      <4> QED BY <3>1, <4>1 DEF Member
    <3> QED BY <3>2, <3>3
  <2> QED BY <2>1, <2>2 DEF Rested, Paired
<1>5. ASSUME NEW l \in Lists, ReplaceMembers(l) PROVE Rested'
  <2>1. \A p : Fresh(p).step = 0 /\ Fresh(p).wait = 0
    BY DEF Fresh
  <2>2. \A n \in Id : row'[n] = row[n] \/ \E p : row'[n] = Fresh(p)
    BY <1>5 DEF ReplaceMembers
  <2>3. ASSUME NEW n \in Id PROVE Paired(row'[n])
    <3>1. CASE row'[n] = row[n]
      BY <3>1 DEF Rested
    <3>2. ASSUME NEW p, row'[n] = Fresh(p) PROVE Paired(row'[n])
      <4>1. row'[n].step = 0 /\ row'[n].wait = 0
        BY <2>1, <3>2
      <4> QED BY <4>1 DEF Paired
    <3> QED BY <2>2, <3>1, <3>2
  <2> QED BY <2>3 DEF Rested
<1>6. ASSUME NEW r \in Request, ReportFails(r) \/ Breaks(r) \/ GetGroupByName(r)
             \/ ResolveModel(r) \/ Call(r) \/ SkipUnserved(r) \/ ReportReads(r) \/ \E o \in Outcome : Respond(r, o)
      PROVE  UNCHANGED row
  BY <1>6 DEF ReportFails, Breaks, GetGroupByName, ResolveModel, Call, SkipUnserved, ReportReads, Respond
<1>7. ASSUME UpdateProvider \/ DeleteGroup \/ CreateGroup
             \/ \E p \in Provider : PatchReads(p) \/ \E d \in BOOLEAN : SetProviderDisabled(p, d)
      PROVE  UNCHANGED row
  BY <1>7 DEF UpdateProvider, DeleteGroup, CreateGroup, PatchReads, SetProviderDisabled
<1> QED BY <1>1, <1>2, <1>3, <1>4, <1>5, <1>6, <1>7 DEF Next, Proceeds, Administers

LEMMA InvHolds == Spec => []Inv
<1>1. Inv /\ [Next]_vars => Inv'
  <2> SUFFICES ASSUME Inv, [Next]_vars PROVE Inv'
    OBVIOUS
  <2>1. CASE Next
    BY <2>1, StepRows, StepRequests, StepRested DEF Inv
  <2>2. CASE UNCHANGED vars
    BY <2>2 DEF vars, Inv, Rows, Requests, Rested
  <2> QED BY <2>1, <2>2
<1> QED BY <1>1, InitInv, PTL DEF Spec

-----------------------------------------------------------------------------
(* Every variable keeps its type.                                          *)
THEOREM TypeCorrect == Spec => []TypeOK
<1>1. Inv => TypeOK
  BY DEF Inv, Rows, Requests, Good, TypeOK
<1> QED BY <1>1, InvHolds, PTL

(* A request that is told that its group is exhausted or unavailable has   *)
(* tried, in vain, whatever was available from its beginning to its end,   *)
(* except the members whose provider it could not read when it resolved    *)
(* the name.                                                               *)
THEOREM Honest == Spec => []FailureIsHonest
<1>1. Inv => FailureIsHonest
  BY DEF Inv, Requests, Good, Gone, FailureIsHonest
<1> QED BY <1>1, InvHolds, PTL

(* A member is called after every member preferred to it that has been     *)
(* available all along, except those whose provider could not be read when *)
(* the request resolved the name.                                          *)
THEOREM Preferred == Spec => []PreferenceKept
<1>1. Inv => PreferenceKept
  BY DEF Inv, Requests, Good, Gone, PreferenceKept
<1> QED BY <1>1, InvHolds, PTL

(* Crossing reports never leave a member resting longer than its step asks *)
(* for.                                                                    *)
THEOREM RestIsCounted == Spec => []RestsAsCounted
<1>1. Inv => RestsAsCounted
  BY DEF Inv, Rested, Paired, RestsAsCounted
<1> QED BY <1>1, InvHolds, PTL
=============================================================================
