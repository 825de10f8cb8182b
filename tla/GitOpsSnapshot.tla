--------------------------- MODULE GitOpsSnapshot ---------------------------
(***************************************************************************)
(* gitops.py: promote_snapshot and rollback_snapshot.  Deploy jobs of      *)
(* several projects commit to one branch of one deployment repository.     *)
(*                                                                         *)
(* A promotion clones the head of the branch, replaces the files of its    *)
(* own project, commits and pushes.  A push is a compare-and-swap: it is   *)
(* refused when the branch has moved, and the promotion starts over with a *)
(* new clone, three times in all.  When the deployment then fails, the job *)
(* reverts the revision that promote_snapshot returned.                    *)
(***************************************************************************)
EXTENDS Naturals, Sequences

CONSTANTS
  Jobs,        \* deploy jobs
  Projects,    \* directories (gitops_path) of the deployment repository
  Merged,      \* projects whose kustomization lies outside the deploy directory
  Services,    \* image names in a kustomization
  Versions,    \* source commits; an image override names the version that built it
  Deploy,      \* what each job deploys: its project, its version, the services it built
  MaxCommits,  \* bound on the length of the branch
  Faults       \* which failures may happen

\* "lost" a push is applied, the answer is not seen
\* "error" a push fails although the branch has not moved
\* A job may end early at any place, whatever Faults is: see Stop.
AllFaults == {"lost", "error"}

Deploys == [project : Projects, version : Versions, services : SUBSET Services]
Attempts == 3

ASSUME SnapshotAssumption ==
  /\ Deploy \in [Jobs -> Deploys]
  /\ Merged \subseteq Projects
  /\ MaxCommits \in Nat
  /\ Faults \subseteq AllFaults

(***************************************************************************)
(* A tree gives, for each project, the version of its deploy directory     *)
(* (.source-revision) and the version of every image.  A revision is the   *)
(* place of a commit on the branch.                                        *)
(***************************************************************************)
Snapshots == [deployed : Versions \cup {"none"}, image : [Services -> Versions \cup {"none"}]]
Trees == [Projects -> Snapshots]
EmptyTree == [p \in Projects |-> [deployed |-> "none", image |-> [s \in Services |-> "none"]]]

\* by: the job whose project the commit is about;  undo: it is a revert
Commits == [tree : Trees, by : Jobs \cup {"seed"}, undo : BOOLEAN]

VARIABLES
  branch,     \* the commits of the branch
  at,         \* where each job is
  attempt,    \* promote_snapshot: the loop counter
  base,       \* the head that was cloned
  revision,   \* what promote_snapshot returned: the revision to wait for
  returned,   \* what promote_snapshot returned: the base revision
  first,      \* history: the head that the first attempt cloned
  struck      \* history: the kinds of failure that have happened so far

vars == <<branch, at, attempt, base, revision, returned, first, struck>>

Tip == Len(branch)
Tree(n) == IF n = 0 THEN EmptyTree ELSE branch[n].tree
Project(j) == Deploy[j].project

Running == {"clone", "push", "deploying", "rollback", "revert"}
Ended == {"deployed", "moved", "failed", "rolled_back"}

Goto(j, place) == at' = [at EXCEPT ![j] = place]
Strike(fault) == fault \in Faults /\ struck' = struck \cup {fault}

\* sync_snapshot replaces the deploy directory, and with it a kustomization
\* that lies in it: the overrides written there earlier are gone.
Synced(j, tree) ==
  [deployed |-> Deploy[j].version,
   image |-> IF Project(j) \in Merged THEN tree[Project(j)].image
             ELSE EmptyTree[Project(j)].image]

\* update_images merges the overrides of the services that were built.
Replayed(j, tree) ==
  LET synced == Synced(j, tree) IN
  [tree EXCEPT ![Project(j)] =
     [synced EXCEPT !.image = [s \in Services |->
        IF s \in Deploy[j].services THEN Deploy[j].version ELSE synced.image[s]]]]

Init ==
  /\ branch = <<[tree |-> EmptyTree, by |-> "seed", undo |-> FALSE]>>
  /\ at = [j \in Jobs |-> "clone"]
  /\ attempt = [j \in Jobs |-> 1]
  /\ base = [j \in Jobs |-> 0]
  /\ revision = [j \in Jobs |-> 0]
  /\ returned = [j \in Jobs |-> 0]
  /\ first = [j \in Jobs |-> 0]
  /\ struck = {}

\* The variables of a call of promote_snapshot are gone when it returns.
Returns(j, place) ==
  /\ Goto(j, place)
  /\ attempt' = [attempt EXCEPT ![j] = 1]
  /\ base' = [base EXCEPT ![j] = 0]
  /\ first' = [first EXCEPT ![j] = 0]

\* Mutation: the base of the first attempt is returned.
PromotedFirstBase(j, new, old) ==
  /\ Returns(j, "deploying")
  /\ revision' = [revision EXCEPT ![j] = new]
  /\ returned' = [returned EXCEPT ![j] = first[j]]

\* promote_snapshot returns the pair (new, old).
Promoted(j, new, old) ==
  /\ Returns(j, "deploying")
  /\ revision' = [revision EXCEPT ![j] = new]
  /\ returned' = [returned EXCEPT ![j] = old]

\* The job ends without a deployment to speak of.
Ends(j, place) ==
  /\ Returns(j, place)
  /\ revision' = [revision EXCEPT ![j] = 0]
  /\ returned' = [returned EXCEPT ![j] = 0]

\* Clone, copy, add, and the look at the staged difference.
Clone(j) ==
  /\ at[j] = "clone"
  /\ IF Replayed(j, Tree(Tip)) = Tree(Tip)
     THEN Promoted(j, Tip, Tip)
     ELSE /\ Goto(j, "push")
          /\ base' = [base EXCEPT ![j] = Tip]
          /\ first' = IF attempt[j] = 1 THEN [first EXCEPT ![j] = Tip] ELSE first
          /\ UNCHANGED <<attempt, revision, returned>>
  /\ UNCHANGED <<branch, struck>>

\* Mutation: the retry pushes the tree of its first clone again.
ToPushFirst(j) ==
  [tree |-> Replayed(j, Tree(first[j])), by |-> j, undo |-> FALSE]

ToPush(j) == [tree |-> Replayed(j, Tree(base[j])), by |-> j, undo |-> FALSE]

\* Mutation: git push --force.
PushOfForced(j, commit) == branch' = Append(SubSeq(branch, 1, base[j]), commit)

\* git push without --force: accepted only while the branch is where it was.
PushOf(j, commit) ==
  /\ Tip = base[j]
  /\ Tip < MaxCommits
  /\ branch' = Append(branch, commit)

\* Mutation: off by one.
TryAgainPastEnd(j) ==
  \/ /\ attempt[j] <= Attempts
     /\ Goto(j, "clone")
     /\ attempt' = [attempt EXCEPT ![j] = attempt[j] + 1]
     /\ UNCHANGED <<base, first, revision, returned>>
  \/ attempt[j] > Attempts /\ Ends(j, "moved")

\* Any failure of the push starts the next attempt, or ends the last one.
TryAgain(j) ==
  \/ /\ attempt[j] < Attempts
     /\ Goto(j, "clone")
     /\ attempt' = [attempt EXCEPT ![j] = attempt[j] + 1]
     /\ UNCHANGED <<base, first, revision, returned>>
  \/ attempt[j] = Attempts /\ Ends(j, "moved")

\* The push is accepted; its answer is seen, or taken for a failure.
Push(j) ==
  /\ at[j] = "push"
  /\ PushOf(j, ToPush(j))
  /\ \/ Promoted(j, Tip + 1, base[j]) /\ UNCHANGED struck
     \/ TryAgain(j) /\ Strike("lost")

\* Mutation: the exit status of a refused push is not looked at.
PushFailsUnnoticed(j) ==
  /\ at[j] = "push"
  /\ Tip # base[j]
  /\ Promoted(j, base[j] + 1, base[j])
  /\ UNCHANGED <<branch, struck>>

\* The push is refused because the branch moved, or fails for another reason.
PushFails(j) ==
  /\ at[j] = "push"
  /\ \/ Tip # base[j] /\ UNCHANGED struck
     \/ Strike("error")
  /\ TryAgain(j)
  /\ UNCHANGED branch

\* External: Argo CD and the smoke test decide; a failure is rolled back.
Verdict(j) ==
  /\ at[j] = "deploying"
  /\ \/ Goto(j, "deployed")
     \/ Goto(j, "rollback")
  /\ UNCHANGED <<branch, attempt, base, revision, returned, first, struck>>

\* Mutation: the head is not compared with the revision to revert.
RollbackCloneUnchecked(j) ==
  /\ at[j] = "rollback"
  /\ Goto(j, "revert") /\ base' = [base EXCEPT ![j] = Tip]
  /\ UNCHANGED <<branch, attempt, revision, returned, first, struck>>

\* rollback_snapshot: clone; "branch moved before rollback" unless the head is
\* the revision to revert.
RollbackClone(j) ==
  /\ at[j] = "rollback"
  /\ \/ /\ Tip = revision[j]
        /\ Goto(j, "revert") /\ base' = [base EXCEPT ![j] = Tip]
        /\ UNCHANGED <<attempt, first, revision, returned>>
     \/ Tip # revision[j] /\ Ends(j, "failed")
  /\ UNCHANGED <<branch, struck>>

\* git revert of a head restores the tree of its parent.
Reverting(j) ==
  [tree |-> Tree(revision[j] - 1), by |-> branch[revision[j]].by, undo |-> TRUE]

\* The revert is pushed once.
Revert(j) ==
  /\ at[j] = "revert"
  /\ PushOf(j, Reverting(j))
  /\ \/ Ends(j, "rolled_back") /\ UNCHANGED struck
     \/ Ends(j, "failed") /\ Strike("lost")

\* A job is killed, or stops at an error that nothing catches: a clone, a git
\* command, or the push of a revert fails.
Stop(j) ==
  /\ at[j] \in Running
  /\ Ends(j, "failed")
  /\ UNCHANGED <<branch, struck>>

\* External: a failed deploy job is run again, with the same version.
Rerun(j) ==
  /\ at[j] \in Ended \ {"deployed"}
  /\ Goto(j, "clone")
  /\ UNCHANGED <<branch, attempt, base, revision, returned, first, struck>>

Next ==
  \E j \in Jobs :
    \/ Clone(j) \/ Push(j) \/ PushFails(j) \/ Verdict(j)
    \/ RollbackClone(j) \/ Revert(j) \/ Stop(j) \/ Rerun(j)

Spec == Init /\ [][Next]_vars

-----------------------------------------------------------------------------
(***************************************************************************)
(* Properties                                                              *)
(***************************************************************************)
\* The values every variable stays in.
TypeOK ==
  /\ branch \in Seq(Commits) \ {<<>>}
  /\ at \in [Jobs -> Running \cup Ended]
  /\ attempt \in [Jobs -> 1 .. Attempts]
  /\ base \in [Jobs -> 0 .. Tip]
  /\ revision \in [Jobs -> 0 .. Tip]
  /\ returned \in [Jobs -> 0 .. Tip]
  /\ first \in [Jobs -> 0 .. Tip]
  /\ struck \subseteq Faults

\* No push ever removes or replaces a commit of somebody else.
HistoryGrows ==
  [][Tip' >= Tip /\ \A n \in 1 .. Tip : branch'[n] = branch[n]]_vars

\* Every commit of a promotion changes its own project only, and there, when the
\* kustomization is merged, only the images of the services the job built,
\* whatever was committed between the attempts of promote_snapshot.
OnlyOwnChanges ==
  \A n \in 2 .. Tip : ~branch[n].undo =>
    LET j == branch[n].by IN
      /\ \A p \in Projects \ {Project(j)} : Tree(n)[p] = Tree(n - 1)[p]
      /\ Project(j) \in Merged => \A s \in Services \ Deploy[j].services :
           Tree(n)[Project(j)].image[s] = Tree(n - 1)[Project(j)].image[s]

\* A job waits for a revision that holds what it deploys.
RevisionIsDeployed ==
  \A j \in Jobs : at[j] \in {"deploying", "deployed"} =>
    Replayed(j, Tree(revision[j])) = Tree(revision[j])

\* A rollback undoes exactly the commit before it, so that nothing that was
\* committed after the reverted revision is lost.
UndoesOneCommit ==
  \A n \in 2 .. Tip : branch[n].undo => Tree(n) = Tree(n - 2)

\* Unless a push was lost, the two revisions a job gets differ exactly when the
\* promotion put a commit of its own on the branch, and then the first is that
\* commit and the second its parent: this is all a caller has to decide whether
\* there is something to roll back.
Since(j) == IF first[j] = 0 THEN Tip ELSE first[j]

OwnCommitIsKnown ==
  [][\A j \in Jobs :
       at[j] # "deploying" /\ at'[j] = "deploying" /\ "lost" \notin struck' =>
         LET own == {n \in (Since(j) + 1) .. Tip' : branch'[n].by = j /\ ~branch'[n].undo}
         IN  \/ own = {} /\ revision'[j] = returned'[j]
             \/ own = {revision'[j]} /\ returned'[j] = revision'[j] - 1]_vars

\* Unless a push fails for another reason or is lost, a promotion gives up only
\* after the branch was moved by others once for each of its attempts.
GivesUpLate ==
  [][\A j \in Jobs :
       at'[j] = "moved" /\ at[j] = "push" /\ struck' = {} => Tip >= first[j] + Attempts]_vars

-----------------------------------------------------------------------------
(***************************************************************************)
(* What the two operations promise                                         *)
(***************************************************************************)
Log == INSTANCE DeployLog WITH
  After <- Replayed,
  Empty <- EmptyTree,
  Seed <- [tree |-> EmptyTree, by |-> "seed", undo |-> FALSE],
  log <- branch

\* Every promotion takes effect at one moment although it clones, works and
\* pushes: the commit it answers with is its deployment on what the branch held
\* just before, no commit is ever replaced, and a rollback undoes the last one.
KeepsDeployLog == Log!Spec
=============================================================================
