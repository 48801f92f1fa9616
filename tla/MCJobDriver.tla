----------------------------- MODULE MCJobDriver -----------------------------
(* Small jobs for TLC: a script whose outputs a later step names, a release   *)
(* in the middle or at the end, and a step whose outputs nobody produces.     *)
EXTENDS JobDriver

Run(refs)               == [type |-> "run", refs |-> refs, assets |-> 0, draft |-> FALSE]
Script                  == [type |-> "script", refs |-> {}, assets |-> 0, draft |-> FALSE]
Release(refs, a, draft) == [type |-> "release", refs |-> refs, assets |-> a, draft |-> draft]

MCJobs ==
    { <<Run({}), Run({1}), Script>>,
      <<Script, Release({1}, 2, FALSE), Run({2})>>,
      <<Run({}), Release({1}, 1, TRUE)>>,
      <<Release({}, 0, FALSE), Script, Run({1, 2})>> }
=============================================================================
