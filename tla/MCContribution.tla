--------------------------- MODULE MCContribution ---------------------------
(* Contribution for TLC: slots are interchangeable, and so are the         *)
(* contributions when all of them belong to one issue.  One configuration  *)
(* calls for a vote, the other for none; both fall back on the author, who *)
(* does not count.                                                         *)
EXTENDS Contribution, TLC

CONSTANTS reviewer, writer

Interchangeable == Permutations(Slots) \cup Permutations(Contribs)

Authors == [c \in Contribs |-> writer]
Strict  == [named |-> [c \in Contribs |-> {reviewer}], fallback |-> {writer}]
Lax     == [named |-> [c \in Contribs |-> {}], fallback |-> {writer}]
Both    == {Strict, Lax}
=============================================================================
