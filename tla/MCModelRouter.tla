--------------------------- MODULE MCModelRouter ---------------------------
(* ModelRouter for TLC: the group has two members that are served, or one *)
(* that is behind one of a type nobody serves.                             *)
EXTENDS ModelRouter, TLC

CONSTANTS first, second, strange

Interchangeable == Permutations(Request)
TwoLists == {<<first, second>>, <<strange, first>>}
=============================================================================
