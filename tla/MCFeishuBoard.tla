---------------------------- MODULE MCFeishuBoard ----------------------------
(***************************************************************************)
(* Three repositories share the board; a second list may come to exist.    *)
(***************************************************************************)
EXTENDS FeishuBoard, TLC

CONSTANTS core, web, skills, list1, list2

MCRepos == {core, web, skills}
MCLists == {list1, list2}

\* Repositories are alike.
Symmetry == Permutations(MCRepos)
=============================================================================
