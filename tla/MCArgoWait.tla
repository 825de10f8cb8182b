----------------------------- MODULE MCArgoWait -----------------------------
(* Instance of ArgoWait for TLC: one application is rolled out, one stays as it is. *)
EXTENDS ArgoWait

CONSTANTS rolled, still

\* Revision 0 is an earlier deployment, 1 is Target, 2 is of another project.
\* Of the application that stays, Target changes the manifests but not the image.
Manifests == [a \in {rolled, still} |-> [r \in 0..2 |-> IF r >= 1 THEN "new" ELSE "old"]]
Images == [a \in {rolled, still} |-> [r \in 0..2 |-> IF a = still THEN "old" ELSE Manifests[a][r]]]
=============================================================================
