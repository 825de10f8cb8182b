------------------------------ MODULE DeployLog ------------------------------
(***************************************************************************)
(* What promote_snapshot and rollback_snapshot promise to the jobs that    *)
(* share a deployment repository, without the clones and the pushes they   *)
(* are made of: every promotion takes effect at one moment, on what the    *)
(* branch then holds, and answers with the commit that it made there; a    *)
(* rollback undoes the last commit, by the job that was given it.          *)
(* GitOpsSnapshot is shown to implement this specification.                *)
(***************************************************************************)
EXTENDS Naturals, Sequences

CONSTANTS
  Jobs,      \* deploy jobs
  After(_, _),  \* the tree after a job's deployment, of a tree
  Empty,     \* the tree before the first commit
  Seed       \* the commit the branch starts with

VARIABLES
  log,       \* the commits of the branch
  revision,  \* the revision each job was answered with, or 0
  returned   \* the revision before it, or 0

vars == <<log, revision, returned>>

TreeAt(n) == IF n = 0 THEN Empty ELSE log[n].tree
Top == TreeAt(Len(log))

Answer(j, new, old) ==
  /\ revision' = [revision EXCEPT ![j] = new]
  /\ returned' = [returned EXCEPT ![j] = old]

Init ==
  /\ log = <<Seed>>
  /\ revision = [j \in Jobs |-> 0]
  /\ returned = [j \in Jobs |-> 0]

\* The answer may get lost; the job is then free to promote once more.
Promote(j) ==
  /\ revision[j] = 0
  /\ log' = Append(log, [tree |-> After(j, Top), by |-> j, undo |-> FALSE])
  /\ Answer(j, Len(log) + 1, Len(log)) \/ UNCHANGED <<revision, returned>>

\* Somebody has deployed the same already.
Find(j) ==
  /\ revision[j] = 0
  /\ After(j, Top) = Top
  /\ Answer(j, Len(log), Len(log))
  /\ UNCHANGED log

Undo(j) ==
  /\ revision[j] = Len(log)
  /\ log' = Append(log, [tree |-> TreeAt(Len(log) - 1), by |-> log[Len(log)].by, undo |-> TRUE])
  /\ Answer(j, 0, 0)

Forget(j) == Answer(j, 0, 0) /\ UNCHANGED log

Next == \E j \in Jobs : Promote(j) \/ Find(j) \/ Undo(j) \/ Forget(j)

Spec == Init /\ [][Next]_vars
=============================================================================
