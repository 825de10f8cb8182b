----------------------------- MODULE MCRelease -----------------------------
(* Instances of Release for TLC. *)
EXTENDS Release, FiniteSets, TLC

CONSTANTS a, b, c

\* Two attempts of one run, and a run of the next commit.
MCCommit == [j \in {a, b, c} |-> IF j = c THEN 3 ELSE 2]

\* The two attempts differ in nothing.
Attempts == Permutations({a, b})

\* One version of the old scheme, at the commit that main starts from.
MCLegacy == [n \in Patches |-> IF n = 1 THEN 1 ELSE Absent]

\* States after faults of both kinds are looked at and not continued: three of the
\* invariants are true there by their premises, and TypeOK and KeepsVersionLog
\* have proofs.
OneKind == Cardinality(struck) <= 1

\* The same for two runs of different commits.
MCTwo == [j \in {a, c} |-> IF j = c THEN 3 ELSE 2]
=============================================================================
