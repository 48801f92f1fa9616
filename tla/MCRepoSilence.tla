---------------------------- MODULE MCRepoSilence ---------------------------
(* RepoSilence for TLC: two schedules, the second firing when the first    *)
(* one's window ends, and the first again within the second one's.         *)
EXTENDS RepoSilence

TwoSchedules == <<{2, 4}, {3}>>
TheirWindows == <<1, 2>>
=============================================================================
