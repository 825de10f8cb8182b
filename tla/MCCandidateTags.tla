-------------------------- MODULE MCCandidateTags --------------------------
(* Instance of CandidateTags for TLC: the run of one commit can be repeated. *)
EXTENDS CandidateTags

CONSTANTS c1, c2

Repeats == [c \in {c1, c2} |-> IF c = c1 THEN 2 ELSE 1]
=============================================================================
