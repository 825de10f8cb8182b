-------------------------- MODULE MCGitOpsSnapshot --------------------------
(* Instances of GitOpsSnapshot for TLC. *)
EXTENDS GitOpsSnapshot

CONSTANTS a1, a2, b1, A, B, s, t, v1, v2

\* Two jobs of one project that built different services, and one of another
\* project, whose kustomization lies in its deploy directory.
MCDeploy ==
  [j \in {a1, a2, b1} |->
     CASE j = a1 -> [project |-> A, version |-> v1, services |-> {s}]
       [] j = a2 -> [project |-> A, version |-> v2, services |-> {t}]
       [] j = b1 -> [project |-> B, version |-> v1, services |-> {s}]]
=============================================================================
