-------------------------- MODULE MCArtifactCache --------------------------
(* An instance of ArtifactCache for TLC. *)
EXTENDS ArtifactCache

CONSTANTS a, b

\* One job restores everything, the other one artifact.
MCWanted == [j \in {a, b} |-> IF j = a THEN Every ELSE 1]
=============================================================================
