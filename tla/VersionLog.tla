----------------------------- MODULE VersionLog -----------------------------
(***************************************************************************)
(* What the release command promises to whoever reads the versions of a    *)
(* repository, without the checkouts and the requests it is made of: a     *)
(* version is given once and never moves, to a commit that the release     *)
(* branch holds; and while nobody had to guess, it is the number after the *)
(* highest one, for a commit without a version that no commit with one     *)
(* comes after.  Release is shown to implement this specification.         *)
(***************************************************************************)
EXTENDS Naturals

CONSTANTS
  Patches,  \* the numbers of versions
  Old,      \* the commits of the versions of an earlier scheme
  Absent    \* no commit

VARIABLES
  main,      \* the last commit of the release branch
  version,   \* the commit of every version, or Absent
  released,  \* the versions that have a release
  guessing   \* somebody chose a version without a look at the others

vars == <<main, version, released, guessing>>

Init ==
  /\ main = 1
  /\ version = [n \in Patches |-> Absent]
  /\ released = {}
  /\ guessing = FALSE

Used == {n \in Patches : version[n] # Absent \/ Old[n] # Absent}

IsNext(n) == n - 1 \in Used \cup {0} /\ \A m \in Used : m < n

\* A commit that has no version, and none of its descendants has.
IsNewest(c) ==
  /\ \A m \in Patches : version[m] # c /\ Old[m] # c
  /\ \A m \in Patches : version[m] <= c

Advance == main' \in Nat /\ main' >= main /\ UNCHANGED <<version, released, guessing>>

\* The release may come with the version, or later, or never.
Number(n, c) ==
  /\ version[n] = Absent /\ c <= main
  /\ guessing \/ (IsNext(n) /\ IsNewest(c))
  /\ version' = [version EXCEPT ![n] = c]
  /\ released' \in {released, released \cup {n}}
  /\ UNCHANGED <<main, guessing>>

Release(n) ==
  /\ version[n] # Absent
  /\ released' = released \cup {n}
  /\ UNCHANGED <<main, version, guessing>>

Guess == guessing' = TRUE /\ UNCHANGED <<main, version, released>>

Next ==
  \/ Advance
  \/ \E n \in Patches, c \in 1 .. main : Number(n, c)
  \/ \E n \in Patches : Release(n)
  \/ Guess

Spec == Init /\ [][Next]_vars
=============================================================================
