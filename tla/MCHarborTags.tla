---------------------------- MODULE MCHarborTags ----------------------------
(* Instances of HarborTags for TLC. *)
EXTENDS HarborTags, TLC

\* Processes, candidate tags and digests are interchangeable.
Symmetry == Permutations(Clients) \cup Permutations(Candidates) \cup Permutations(Digests)
=============================================================================
