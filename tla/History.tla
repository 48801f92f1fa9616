------------------------------ MODULE History -------------------------------
(***************************************************************************)
(* What FetchHistory makes of the message log of a session, and what the   *)
(* agent makes of that before it sends it: pure functions on sequences.    *)
(* Rows that FetchHistory drops (status, log, done, system) are left out.  *)
(***************************************************************************)
EXTENDS Integers, Sequences, FiniteSets

-----------------------------------------------------------------------------
(* Rows and history items.  A call is known by its reply and its place in  *)
(* the batch; the row of a tool call also keeps the tool's name.           *)

Event(k)     == [kind |-> "event", id |-> k]
Message(cs)  == [kind |-> "message", calls |-> cs]
ToolRow(c, name) == [kind |-> "tool_call", call |-> c, name |-> name]
Tool(c)      == [kind |-> "tool", call |-> c]
Summary      == [kind |-> "summary"]

CallsOf(n, b) == {<<n, i>> : i \in DOMAIN b}
MaxOf(S)      == CHOOSE n \in S : \A m \in S : m <= n
MinOf(S)      == CHOOSE n \in S : \A m \in S : n <= m

\* A row of compact_session becomes a result and the summary marker.
MessageToHistoryItems(r) ==
    IF r.kind # "tool_call" THEN <<r>>
    ELSE IF r.name = "compact" THEN <<Tool(r.call), Summary>>
    ELSE <<Tool(r.call)>>

HistoryItems(rows) ==
    LET upTo[n \in 0 .. Len(rows)] ==
            IF n = 0 THEN <<>> ELSE upTo[n - 1] \o MessageToHistoryItems(rows[n])
    IN upTo[Len(rows)]

\* Mutant: the events the queue will deliver are left in the history.
TrimNothing(s) == s

TrimTrailingEvents(s) ==
    SubSeq(s, 1, MaxOf({0} \cup {i \in DOMAIN s : s[i].kind # "event"}))

\* The calls whose results have to follow the item at once.
Opens(it) == IF it.kind = "message" THEN it.calls ELSE {}

\* The cases of a pass over the items: out is what was passed on, pending the
\* calls of the chain that is open, held the events that wait for its end.
Nothing       == [out |-> <<>>, held |-> <<>>, pending |-> {}]
Begins(st, it) == [out |-> Append(st.out \o st.held, it), held |-> <<>>, pending |-> Opens(it)]
Holds(st, it)  == [out |-> st.out, held |-> Append(st.held, it), pending |-> st.pending]
Answers(st, it) ==
    LET left == st.pending \ {it.call} IN
    IF left = {}
    THEN [out |-> Append(st.out, it) \o st.held, held |-> <<>>, pending |-> {}]
    ELSE [out |-> Append(st.out, it), held |-> st.held, pending |-> left]

\* Mutant: events are put before the result that ends the chain.
NormalizeEventsFirst(st, it) ==
    IF st.pending # {} /\ it.kind = "event" THEN Holds(st, it)
    ELSE IF st.pending # {} /\ it.kind = "tool" /\ it.call \in st.pending
    THEN [out |-> Append(st.out \o st.held, it), held |-> <<>>,
          pending |-> st.pending \ {it.call}]
    ELSE Begins(st, it)

\* Events inside an open chain of results wait for the chain to end; what
\* still waits when the log ends is dropped.
NormalizeStep(st, it) ==
    IF st.pending # {} /\ it.kind = "event" THEN Holds(st, it)
    ELSE IF st.pending # {} /\ it.kind = "tool" /\ it.call \in st.pending THEN Answers(st, it)
    ELSE Begins(st, it)

NormalizeInterruptedChains(s) ==
    LET upTo[n \in 0 .. Len(s)] ==
            IF n = 0 THEN Nothing ELSE NormalizeStep(upTo[n - 1], s[n])
    IN upTo[Len(s)].out

Answered(s)    == {s[i].call : i \in {j \in DOMAIN s : s[j].kind = "tool"}}

\* Mutant: a message is dangling unless a call of it was answered.
DanglingWhenNoneAnswered(s, i) ==
    s[i].kind = "message" /\ s[i].calls \cap Answered(s) = {}

Dangling(s, i) == s[i].kind = "message" /\ ~(s[i].calls \subseteq Answered(s))

\* The scan from the end passes over summary markers and cuts at the first
\* of the dangling messages it has met when it stops.
TrimDanglingToolCallsProto(s) ==
    LET stop == MaxOf({0} \cup {i \in DOMAIN s : s[i].kind # "summary" /\ ~Dangling(s, i)})
        cut  == MinOf({Len(s) + 1} \cup {i \in DOMAIN s : i > stop /\ Dangling(s, i)})
    IN SubSeq(s, 1, cut - 1)

FetchHistory(rows) ==
    TrimDanglingToolCallsProto(NormalizeInterruptedChains(TrimTrailingEvents(HistoryItems(rows))))

\* The agent's own trim, which does not pass over summaries.
TrimDanglingToolCalls(s) ==
    SubSeq(s, 1, MaxOf({0} \cup {i \in DOMAIN s : ~Dangling(s, i)}))

\* Context.Snapshot: what is sent starts at the last summary.
Snapshot(s) ==
    SubSeq(s, MaxOf({1} \cup {i \in DOMAIN s : s[i].kind = "summary"}), Len(s))

\* What the provider accepts: the results of a message's calls follow it at
\* once, and there are no others.
WellFormed(s) ==
    /\ \A i \in DOMAIN s : s[i].kind = "message" =>
          LET n == Cardinality(s[i].calls) IN
          /\ i + n <= Len(s)
          /\ {s[j] : j \in i + 1 .. i + n} = {Tool(c) : c \in s[i].calls}
    /\ \A i \in DOMAIN s : s[i].kind = "tool" =>
          \E j \in 1 .. i - 1 :
             /\ s[j].kind = "message" /\ s[i].call \in s[j].calls
             /\ i - j <= Cardinality(s[j].calls)
=============================================================================
