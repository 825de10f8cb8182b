------------------------ MODULE GitOpsSnapshotProofs ------------------------
(***************************************************************************)
(* Proofs about GitOpsSnapshot, for any jobs, projects, services, versions *)
(* and failures: types, a history that only grows, commits that change     *)
(* nothing of anybody else, and revisions that mean what the caller takes  *)
(* them for.                                                               *)
(***************************************************************************)
EXTENDS GitOpsSnapshot, TLAPS

\* The revision a job was given is on the branch, holds what the job deploys,
\* and is the head of the clone in which the job reverts it.
RevisionInv == \A j \in Jobs :
  /\ at[j] \in {"deploying", "deployed", "rollback", "revert"} =>
       /\ revision[j] \in 1 .. Tip
       /\ Replayed(j, Tree(revision[j])) = Tree(revision[j])
  /\ at[j] = "revert" => base[j] = revision[j]

\* The clones of one promotion follow each other along the branch.
CloneInv == \A j \in Jobs :
  /\ first[j] # 0 <=> (at[j] = "push" \/ (at[j] = "clone" /\ attempt[j] # 1))
  /\ attempt[j] # 1 => at[j] \in {"clone", "push"}
  /\ at[j] = "push" => base[j] >= first[j]

\* As long as no push was lost, a promotion that is under way has put nothing on
\* the branch.
FreshInv == "lost" \notin struck => \A j \in Jobs :
  at[j] \in {"clone", "push"} /\ first[j] # 0 =>
    \A n \in (first[j] + 1) .. Tip : branch[n].by = j => branch[n].undo

\* As long as every push failed for a moved branch, each attempt saw a new head.
MovedInv == struck = {} => \A j \in Jobs :
  /\ at[j] = "clone" /\ first[j] # 0 => Tip >= first[j] + attempt[j] - 1
  /\ at[j] = "push" => base[j] >= first[j] + attempt[j] - 1

IInv == TypeOK /\ RevisionInv /\ CloneInv /\ FreshInv /\ MovedInv

-----------------------------------------------------------------------------
\* A tree of the branch is a tree.
LEMMA TreeType ==
  ASSUME TypeOK, NEW n \in 0 .. Tip
  PROVE  Tree(n) \in Trees
<1>1. EmptyTree \in Trees
  BY DEF EmptyTree, Trees, Snapshots
<1>2. n # 0 => branch[n] \in Commits
  BY DEF TypeOK, Tip
<1> QED BY <1>1, <1>2 DEF Tree, Commits

\* Replaying a job's deployment gives a tree; it changes the job's own project
\* only, keeps the images it did not build where they are merged, and does
\* nothing the second time.
LEMMA ReplayedFacts ==
  ASSUME SnapshotAssumption, NEW j \in Jobs, NEW tree \in Trees
  PROVE  /\ Replayed(j, tree) \in Trees
         /\ \A p \in Projects \ {Project(j)} : Replayed(j, tree)[p] = tree[p]
         /\ Project(j) \in Merged => \A s \in Services \ Deploy[j].services :
              Replayed(j, tree)[Project(j)].image[s] = tree[Project(j)].image[s]
         /\ Replayed(j, Replayed(j, tree)) = Replayed(j, tree)
<1> DEFINE p0 == Project(j)
           v0 == Deploy[j].version
           old == IF p0 \in Merged THEN tree[p0].image ELSE EmptyTree[p0].image
           img == [s \in Services |-> IF s \in Deploy[j].services THEN v0 ELSE old[s]]
           snap == [deployed |-> v0, image |-> img]
<1>1. p0 \in Projects /\ v0 \in Versions
  BY DEF SnapshotAssumption, Deploys, Project
<1>2. old \in [Services -> Versions \cup {"none"}]
  BY <1>1 DEF Trees, Snapshots, EmptyTree
<1>3. img \in [Services -> Versions \cup {"none"}]
  BY <1>1, <1>2
<1>4. snap \in Snapshots
  BY <1>1, <1>3 DEF Snapshots
<1>5. Replayed(j, tree) = [tree EXCEPT ![p0] = snap]
  <2>1. Synced(j, tree) = [deployed |-> v0, image |-> old]
    BY DEF Synced
  <2>2. [Synced(j, tree) EXCEPT !.image = img] = snap
    BY <2>1
  <2>3. img = [s \in Services |-> IF s \in Deploy[j].services THEN v0 ELSE Synced(j, tree).image[s]]
    BY <2>1
  <2> HIDE DEF snap, img
  <2> QED BY <2>2, <2>3 DEF Replayed
<1>6. Replayed(j, tree) \in Trees
  BY <1>1, <1>4, <1>5 DEF Trees
<1>7. Replayed(j, tree)[p0] = snap /\ \A p \in Projects \ {p0} : Replayed(j, tree)[p] = tree[p]
  BY <1>1, <1>5 DEF Trees
<1>8. ASSUME p0 \in Merged, NEW s \in Services \ Deploy[j].services
      PROVE  Replayed(j, tree)[p0].image[s] = tree[p0].image[s]
  BY <1>7, <1>8
<1>9. Replayed(j, Replayed(j, tree)) = Replayed(j, tree)
  <2> DEFINE again == Replayed(j, tree)
             old2 == IF p0 \in Merged THEN again[p0].image ELSE EmptyTree[p0].image
  <2>1. Synced(j, again) = [deployed |-> v0, image |-> old2]
    BY DEF Synced
  <2>2. old2 = IF p0 \in Merged THEN img ELSE old
    BY <1>7
  <2>3. img = [s \in Services |-> IF s \in Deploy[j].services THEN v0 ELSE Synced(j, again).image[s]]
    BY <2>1, <2>2
  <2>4. [again EXCEPT ![p0] = snap] = again
    BY <1>1, <1>6, <1>7 DEF Trees
  <2>5. [Synced(j, again) EXCEPT !.image = img] = snap
    BY <2>1
  <2>6. Replayed(j, again) = [again EXCEPT ![p0] = snap]
    <3> HIDE DEF snap, img, again
    <3> QED BY <2>3, <2>5 DEF Replayed
  <2> QED BY <2>4, <2>6
<1> QED BY <1>6, <1>7, <1>8, <1>9

\* What a step does to the branch: nothing, or it appends what one job pushes
\* after a clone of its head.
Pushed(j) ==
  \/ at[j] = "push" /\ PushOf(j, ToPush(j))
  \/ at[j] = "revert" /\ PushOf(j, Reverting(j))

LEMMA BranchSteps ==
  ASSUME [Next]_vars
  PROVE  UNCHANGED branch \/ \E j \in Jobs : Pushed(j)
<1>1. CASE UNCHANGED vars
  BY <1>1 DEF vars
<1>2. CASE Next
  BY <1>2 DEF Next, Clone, Push, PushFails, Verdict, RollbackClone, Revert, Stop, Rerun, Pushed
<1> QED BY <1>1, <1>2

\* What a push appends: a commit of a job's own, or a revert.
LEMMA PushedCommit ==
  ASSUME SnapshotAssumption, IInv, NEW j \in Jobs, Pushed(j)
  PROVE  /\ Tip = base[j]
         /\ Tip' = Tip + 1
         /\ \A n \in 1 .. Tip : branch'[n] = branch[n]
         /\ \A n \in 0 .. Tip : Tree(n)' = Tree(n)
         /\ branch' \in Seq(Commits) \ {<<>>}
         /\ at[j] = "push" => branch'[Tip + 1] = ToPush(j)
         /\ at[j] = "revert" => branch'[Tip + 1] = Reverting(j)
<1> DEFINE c == IF at[j] = "push" THEN ToPush(j) ELSE Reverting(j)
<1>1. Tip = base[j] /\ branch' = Append(branch, c)
  BY DEF Pushed, PushOf
<1>2. Tip \in Nat /\ Tip >= 1 /\ branch \in Seq(Commits)
  BY DEF IInv, TypeOK, Tip
<1>3. Tip' = Tip + 1 /\ (\A n \in 1 .. Tip : branch'[n] = branch[n]) /\ branch'[Tip + 1] = c
  BY <1>1, <1>2 DEF Tip
<1>4. c \in Commits
  <2>1. CASE at[j] = "push"
    <3>1. Tree(base[j]) \in Trees
      BY <1>1, <1>2, TreeType DEF IInv
    <3> QED BY <2>1, <3>1, ReplayedFacts DEF ToPush, Commits
  <2>2. CASE at[j] = "revert"
    <3>1. revision[j] \in 1 .. Tip
      BY <2>2 DEF IInv, RevisionInv
    <3>2. branch[revision[j]] \in Commits
      BY <1>2, <3>1 DEF Tip
    <3>3. revision[j] - 1 \in 0 .. Tip
      BY <1>2, <3>1
    <3>4. Tree(revision[j] - 1) \in Trees
      BY <3>3, TreeType DEF IInv
    <3> QED BY <2>2, <3>2, <3>4 DEF Reverting, Commits
  <2> QED BY <2>1, <2>2 DEF Pushed
<1>5. branch' \in Seq(Commits)
  BY <1>1, <1>2, <1>4
<1>6. \A n \in 0 .. Tip : Tree(n)' = Tree(n)
  BY <1>2, <1>3 DEF Tree
<1>7. branch' \in Seq(Commits) \ {<<>>}
  BY <1>2, <1>3, <1>5 DEF Tip
<1> QED BY <1>1, <1>3, <1>6, <1>7 DEF Pushed

\* Whatever a step does, the branch stays well-formed and keeps its past.
LEMMA BranchGrows ==
  ASSUME SnapshotAssumption, IInv, [Next]_vars
  PROVE  /\ Tip \in Nat /\ Tip >= 1 /\ Tip' \in Nat /\ Tip' >= Tip
         /\ \A n \in 1 .. Tip : branch'[n] = branch[n]
         /\ \A n \in 0 .. Tip : Tree(n)' = Tree(n)
         /\ branch' \in Seq(Commits) \ {<<>>}
<1>1. branch \in Seq(Commits) /\ Tip \in Nat /\ Tip >= 1
  BY DEF IInv, TypeOK, Tip
<1>2. CASE UNCHANGED branch
  BY <1>1, <1>2 DEF IInv, TypeOK, Tip, Tree
<1>3. ASSUME NEW j \in Jobs, Pushed(j)
      PROVE  /\ Tip' \in Nat /\ Tip' >= Tip
             /\ \A n \in 1 .. Tip : branch'[n] = branch[n]
             /\ \A n \in 0 .. Tip : Tree(n)' = Tree(n)
             /\ branch' \in Seq(Commits) \ {<<>>}
  BY <1>1, <1>3, PushedCommit
<1> QED BY <1>1, <1>2, <1>3, BranchSteps

-----------------------------------------------------------------------------
\* Nothing changes but what one job knows.
Alone(j) ==
  \A i \in Jobs \ {j} :
    /\ at'[i] = at[i] /\ attempt'[i] = attempt[i] /\ base'[i] = base[i]
    /\ revision'[i] = revision[i] /\ returned'[i] = returned[i] /\ first'[i] = first[i]

\* The values the variables of the jobs stay in.
Ranges ==
  /\ at' \in [Jobs -> Running \cup Ended]
  /\ attempt' \in [Jobs -> 1 .. Attempts]
  /\ base' \in [Jobs -> 0 .. Tip']
  /\ revision' \in [Jobs -> 0 .. Tip']
  /\ returned' \in [Jobs -> 0 .. Tip']
  /\ first' \in [Jobs -> 0 .. Tip']

\* When the branch does not shrink, what was a place on it stays one.
LEMMA Wider ==
  ASSUME TypeOK, Tip \in Nat, Tip' \in Nat, Tip' >= Tip
  PROVE  /\ base \in [Jobs -> 0 .. Tip'] /\ revision \in [Jobs -> 0 .. Tip']
         /\ returned \in [Jobs -> 0 .. Tip'] /\ first \in [Jobs -> 0 .. Tip']
<1>1. \A n \in 0 .. Tip : n \in 0 .. Tip'
  OBVIOUS
<1> QED BY <1>1 DEF TypeOK

\* A job that ends knows nothing any more.
LEMMA EndsFacts ==
  ASSUME TypeOK, Tip \in Nat, Tip' \in Nat, Tip' >= Tip,
         NEW j \in Jobs, NEW place \in Running \cup Ended, Ends(j, place)
  PROVE  /\ Alone(j) /\ Ranges
         /\ at'[j] = place /\ attempt'[j] = 1
         /\ base'[j] = 0 /\ first'[j] = 0 /\ revision'[j] = 0 /\ returned'[j] = 0
BY Wider, SMTT(30) DEF TypeOK, Ends, Returns, Goto, Alone, Ranges, Attempts

\* A job whose promotion returns knows two revisions.
LEMMA PromotedFacts ==
  ASSUME TypeOK, Tip \in Nat, Tip' \in Nat, Tip' >= Tip,
         NEW j \in Jobs, NEW new \in 0 .. Tip', NEW old \in 0 .. Tip', Promoted(j, new, old)
  PROVE  /\ Alone(j) /\ Ranges
         /\ at'[j] = "deploying" /\ attempt'[j] = 1
         /\ base'[j] = 0 /\ first'[j] = 0 /\ revision'[j] = new /\ returned'[j] = old
BY Wider, SMTT(30) DEF TypeOK, Promoted, Returns, Goto, Alone, Ranges, Attempts, Running

\* A failed push leads to one more attempt, or to the end.
Again(j) ==
  /\ attempt[j] < Attempts
  /\ at'[j] = "clone" /\ attempt'[j] = attempt[j] + 1
  /\ base'[j] = base[j] /\ first'[j] = first[j]
  /\ revision'[j] = revision[j] /\ returned'[j] = returned[j]

GivesUp(j) ==
  attempt[j] = Attempts /\ at'[j] = "moved" /\ attempt'[j] = 1 /\ first'[j] = 0

LEMMA TryAgainFacts ==
  ASSUME TypeOK, Tip \in Nat, Tip' \in Nat, Tip' >= Tip, NEW j \in Jobs, TryAgain(j)
  PROVE  /\ Alone(j) /\ Ranges
         /\ Again(j) \/ GivesUp(j)
<1>1. CASE attempt[j] = Attempts /\ Ends(j, "moved")
  BY <1>1, EndsFacts DEF Ended, GivesUp
<1>2. CASE ~(attempt[j] = Attempts /\ Ends(j, "moved"))
  <2>1. /\ attempt[j] < Attempts /\ Goto(j, "clone")
        /\ attempt' = [attempt EXCEPT ![j] = attempt[j] + 1]
        /\ UNCHANGED <<base, first, revision, returned>>
    BY <1>2 DEF TryAgain
  <2>2. attempt[j] \in 1 .. 3
    BY DEF TypeOK, Attempts
  <2> attempt[j] + 1 \in 1 .. Attempts
    BY <2>1, <2>2 DEF Attempts
  <2>3. Alone(j) /\ Ranges
    BY <2>1, Wider DEF TypeOK, Goto, Alone, Ranges, Running
  <2>4. Again(j)
    BY <2>1 DEF TypeOK, Goto, Again
  <2> QED BY <2>3, <2>4
<1> QED BY <1>1, <1>2

\* Every step is a stutter or a step of one job, and keeps the other variables
\* of the jobs in their types.
Clones(j) ==
  /\ at[j] = "clone" /\ UNCHANGED <<branch, struck>>
  /\ \/ /\ Replayed(j, Tree(Tip)) = Tree(Tip)
        /\ at'[j] = "deploying" /\ attempt'[j] = 1 /\ first'[j] = 0
        /\ revision'[j] = Tip /\ returned'[j] = Tip
     \/ /\ at'[j] = "push" /\ attempt'[j] = attempt[j] /\ base'[j] = Tip
        /\ first'[j] = IF attempt[j] = 1 THEN Tip ELSE first[j]

Pushes(j) ==
  /\ at[j] = "push" /\ Pushed(j)
  /\ \/ /\ at'[j] = "deploying" /\ attempt'[j] = 1 /\ first'[j] = 0 /\ UNCHANGED struck
        /\ revision'[j] = Tip + 1 /\ returned'[j] = base[j]
     \/ /\ "lost" \in struck'
        /\ Again(j) \/ GivesUp(j)

Misses(j) ==
  /\ at[j] = "push" /\ UNCHANGED branch
  /\ (Tip # base[j] /\ UNCHANGED struck) \/ struck' = struck \cup {"error"}
  /\ Again(j) \/ GivesUp(j)

RollsBack(j) ==
  /\ at[j] \in {"deploying", "rollback"} /\ UNCHANGED <<branch, struck>>
  /\ at'[j] \in {"deployed", "rollback", "revert", "failed"}
  /\ at'[j] # "failed" => revision'[j] = revision[j]
  /\ at'[j] = "revert" => base'[j] = Tip /\ Tip = revision[j]
  /\ attempt'[j] \in {1, attempt[j]} /\ first'[j] \in {0, first[j]}

Leaves(j) ==
  /\ struck \subseteq struck'
  /\ UNCHANGED branch \/ (at[j] = "revert" /\ Pushed(j))
  /\ at'[j] \in {"failed", "rolled_back"} /\ attempt'[j] = 1 /\ first'[j] = 0

Restarts(j) ==
  /\ UNCHANGED <<branch, struck>>
  /\ at[j] \in Ended /\ at'[j] = "clone" /\ attempt'[j] = attempt[j] /\ first'[j] = first[j]

LEMMA JobSteps ==
  ASSUME SnapshotAssumption, IInv, Next
  PROVE  \E j \in Jobs :
           /\ Alone(j) /\ Ranges
           /\ \/ Clones(j) \/ Pushes(j) \/ Misses(j)
              \/ RollsBack(j) \/ Leaves(j) \/ Restarts(j)
<1>1. PICK j \in Jobs : \/ Clone(j) \/ Push(j) \/ PushFails(j) \/ Verdict(j)
                       \/ RollbackClone(j) \/ Revert(j) \/ Stop(j) \/ Rerun(j)
  BY DEF Next
<1>2. Tip \in Nat /\ Tip >= 1 /\ Tip' \in Nat /\ Tip' >= Tip
  BY BranchGrows
<1>3. TypeOK /\ Tip \in 0 .. Tip' /\ base[j] \in 0 .. Tip /\ base[j] \in 0 .. Tip'
  BY <1>2 DEF IInv, TypeOK
<1>4. CASE Clone(j)
  <2>1. CASE Promoted(j, Tip, Tip) /\ Replayed(j, Tree(Tip)) = Tree(Tip)
    BY <1>2, <1>3, <1>4, <2>1, PromotedFacts DEF Clone, Clones
  <2>2. CASE ~(Promoted(j, Tip, Tip) /\ Replayed(j, Tree(Tip)) = Tree(Tip))
    <3>1. Alone(j) /\ Ranges
      BY <1>2, <1>3, <1>4, <2>2, Wider DEF Clone, Goto, Alone, Ranges, TypeOK, Running
    <3>2. Clones(j)
      BY <1>3, <1>4, <2>2 DEF Clone, Clones, Goto, TypeOK
    <3> QED BY <3>1, <3>2
  <2> QED BY <2>1, <2>2
<1>5. CASE Push(j)
  <2>1. at[j] = "push" /\ Pushed(j)
    BY <1>5 DEF Push, Pushed
  <2>2. Tip' = Tip + 1
    BY <2>1, PushedCommit
  <2>3. CASE Promoted(j, Tip + 1, base[j]) /\ UNCHANGED struck
    BY <1>2, <1>3, <2>1, <2>2, <2>3, PromotedFacts DEF Pushes
  <2>4. CASE TryAgain(j) /\ Strike("lost")
    <3>1. /\ Alone(j) /\ Ranges
          /\ Again(j) \/ GivesUp(j)
      BY <1>2, <1>3, <2>4, TryAgainFacts
    <3>2. "lost" \in struck'
      BY <2>4 DEF Strike
    <3> QED BY <2>1, <3>1, <3>2 DEF Pushes
  <2> QED BY <1>5, <2>3, <2>4 DEF Push
<1>6. CASE PushFails(j)
  <2>1. /\ Alone(j) /\ Ranges
        /\ Again(j) \/ GivesUp(j)
    BY <1>2, <1>3, <1>6, TryAgainFacts DEF PushFails
  <2>2. /\ at[j] = "push" /\ UNCHANGED branch
        /\ (Tip # base[j] /\ UNCHANGED struck) \/ struck' = struck \cup {"error"}
    BY <1>6 DEF PushFails, Strike
  <2> QED BY <2>1, <2>2 DEF Misses
<1>7. CASE Verdict(j)
  <2>1. Alone(j) /\ Ranges
    BY <1>2, <1>3, <1>7, Wider DEF Verdict, Goto, Alone, Ranges, TypeOK, Running, Ended
  <2>2. RollsBack(j)
    BY <1>3, <1>7 DEF Verdict, RollsBack, Goto, TypeOK
  <2> QED BY <2>1, <2>2
<1>8. CASE RollbackClone(j)
  <2>1. CASE Ends(j, "failed") /\ Tip # revision[j]
    BY <1>2, <1>3, <1>8, <2>1, EndsFacts DEF RollbackClone, RollsBack, Ended
  <2>2. CASE ~(Ends(j, "failed") /\ Tip # revision[j])
    <3>1. Alone(j) /\ Ranges
      BY <1>2, <1>3, <1>8, <2>2, Wider DEF RollbackClone, Goto, Alone, Ranges, TypeOK, Running
    <3>2. RollsBack(j)
      BY <1>3, <1>8, <2>2 DEF RollbackClone, RollsBack, Goto, TypeOK
    <3> QED BY <3>1, <3>2
  <2> QED BY <2>1, <2>2
<1>9. CASE Revert(j)
  <2>1. at[j] = "revert" /\ Pushed(j)
    BY <1>9 DEF Revert, Pushed
  <2> QED BY <1>2, <1>3, <1>9, <2>1, EndsFacts DEF Revert, Leaves, Strike, Ended
<1>10. CASE Stop(j)
  <2>1. Ends(j, "failed") /\ UNCHANGED <<branch, struck>>
    BY <1>10 DEF Stop
  <2>2. "failed" \in Running \cup Ended
    BY DEF Ended
  <2>3. Alone(j) /\ Ranges /\ at'[j] = "failed" /\ attempt'[j] = 1 /\ first'[j] = 0
    BY <1>2, <1>3, <2>1, <2>2, EndsFacts
  <2> QED BY <2>1, <2>3 DEF Leaves
<1>11. CASE Rerun(j)
  <2>1. Alone(j) /\ Ranges
    BY <1>2, <1>3, <1>11, Wider DEF Rerun, Goto, Alone, Ranges, TypeOK, Running
  <2>2. Restarts(j)
    BY <1>3, <1>11 DEF Rerun, Restarts, Goto, TypeOK
  <2> QED BY <2>1, <2>2
<1> QED BY <1>1, <1>4, <1>5, <1>6, <1>7, <1>8, <1>9, <1>10, <1>11

-----------------------------------------------------------------------------
\* The inductive invariant holds at the start.
LEMMA InitIInv ==
  ASSUME SnapshotAssumption, Init
  PROVE  IInv
<1> USE DEF Init
<1>1. EmptyTree \in Trees
  BY DEF EmptyTree, Trees, Snapshots
<1>2. [tree |-> EmptyTree, by |-> "seed", undo |-> FALSE] \in Commits
  BY <1>1 DEF Commits
<1>3. branch \in Seq(Commits) \ {<<>>} /\ Tip = 1
  BY <1>2 DEF Tip
<1>4. TypeOK
  BY <1>3 DEF TypeOK, Running, Attempts
<1>5. RevisionInv /\ CloneInv /\ FreshInv /\ MovedInv
  BY DEF RevisionInv, CloneInv, FreshInv, MovedInv
<1> QED BY <1>4, <1>5 DEF IInv

\* Every step keeps the types.
LEMMA TypeStep ==
  ASSUME SnapshotAssumption, IInv, [Next]_vars
  PROVE  TypeOK'
<1>1. branch' \in Seq(Commits) \ {<<>>}
  BY BranchGrows
<1>2. struck' \subseteq Faults
  BY DEF IInv, TypeOK, Next, vars, Clone, Push, PushFails, Verdict, RollbackClone, Revert,
         Stop, Rerun, Strike
<1>3. CASE UNCHANGED vars
  BY <1>3 DEF vars, IInv, TypeOK, Tip
<1>4. CASE Next
  BY <1>1, <1>2, <1>4, JobSteps DEF Ranges, TypeOK
<1> QED BY <1>3, <1>4

\* Every step keeps what is known of the revisions of the jobs: a job's own push
\* holds its deployment, and a clone that shows nothing to commit holds it too.
LEMMA RevisionStep ==
  ASSUME SnapshotAssumption, IInv, [Next]_vars
  PROVE  RevisionInv'
<1>1. /\ Tip \in Nat /\ Tip >= 1 /\ Tip' \in Nat /\ Tip' >= Tip
      /\ \A n \in 0 .. Tip : Tree(n)' = Tree(n)
  BY BranchGrows
<1>2. RevisionInv /\ TypeOK
  BY DEF IInv
<1> DEFINE Body(i) ==
      /\ at[i] \in {"deploying", "deployed", "rollback", "revert"} =>
           /\ revision[i] \in 1 .. Tip
           /\ Replayed(i, Tree(revision[i])) = Tree(revision[i])
      /\ at[i] = "revert" => base[i] = revision[i]
<1>3. ASSUME NEW i \in Jobs, at'[i] = at[i], base'[i] = base[i], revision'[i] = revision[i]
      PROVE  Body(i)'
  <2>1. Body(i)
    BY <1>2 DEF RevisionInv
  <2>2. Replayed(i, Tree(revision[i]))' = Replayed(i, Tree(revision[i])')
    BY DEF Replayed, Synced, Project, EmptyTree
  <2>3. CASE at[i] \in {"deploying", "deployed", "rollback", "revert"}
    <3>1. revision[i] \in 1 .. Tip /\ revision[i] \in 0 .. Tip
      BY <1>1, <2>1, <2>3
    <3>2. Tree(revision[i])' = Tree(revision[i])
      BY <1>1, <1>3, <3>1 DEF Tree
    <3> QED BY <1>1, <1>3, <2>1, <2>2, <3>1, <3>2
  <2> QED BY <1>3, <2>1, <2>3
<1>4. ASSUME NEW i \in Jobs, NEW n \in 1 .. Tip', revision'[i] = n, at'[i] # "revert",
             Replayed(i, Tree(n)') = Tree(n)'
      PROVE  Body(i)'
  <2>1. Tree(revision[i])' = Tree(n)'
    BY <1>4 DEF Tree
  <2>2. Replayed(i, Tree(revision[i]))' = Replayed(i, Tree(revision[i])')
    BY DEF Replayed, Synced, Project, EmptyTree
  <2> QED BY <1>4, <2>1, <2>2
<1>5. CASE UNCHANGED vars
  BY <1>3, <1>5 DEF vars, RevisionInv
<1>6. CASE Next
  <2>1. PICK j \in Jobs : /\ Alone(j) /\ Ranges
                         /\ \/ Clones(j) \/ Pushes(j) \/ Misses(j)
                            \/ RollsBack(j) \/ Leaves(j) \/ Restarts(j)
    BY <1>6, JobSteps
  <2>2. Body(j)'
    <3>1. CASE Clones(j)
      <4>1. CASE at'[j] = "deploying"
        <5>1. Replayed(j, Tree(Tip)) = Tree(Tip) /\ revision'[j] = Tip
          BY <3>1, <4>1 DEF Clones
        <5>2. Tip \in 0 .. Tip /\ Tip \in 1 .. Tip'
          BY <1>1
        <5>3. Tree(Tip)' = Tree(Tip)
          BY <1>1, <3>1, <5>2 DEF Clones, Tip, Tree
        <5>4. Tip' = Tip
          BY <3>1 DEF Clones, Tip
        <5> QED BY <1>4, <4>1, <5>1, <5>2, <5>3, <5>4
      <4> QED BY <3>1, <4>1 DEF Clones
    <3>2. CASE Pushes(j)
      <4>1. CASE at'[j] = "deploying"
        <5> DEFINE t == Tree(base[j])
        <5> PICK n \in Nat : n = Tip + 1
          BY <1>1
        <5>1. /\ Tip' = Tip + 1 /\ Tip = base[j] /\ branch'[Tip + 1] = ToPush(j)
          BY <3>2, PushedCommit DEF Pushes
        <5>2. n \in 1 .. Tip' /\ n # 0 /\ revision'[j] = n
          BY <1>1, <3>2, <4>1, <5>1 DEF Pushes, Again, GivesUp
        <5>3. Tree(n)' = Replayed(j, t)
          <6>1. Tree(n)' = branch'[n].tree
            BY <5>2 DEF Tree
          <6> QED BY <5>1, <6>1 DEF ToPush
        <5>4. t \in Trees
          BY <1>1, <1>2, <5>1, TreeType
        <5>5. Replayed(j, Replayed(j, t)) = Replayed(j, t)
          BY <5>4, ReplayedFacts
        <5>6. Replayed(j, Tree(n)') = Tree(n)'
          BY <5>3, <5>5
        <5> QED BY <1>4, <4>1, <5>2, <5>6
      <4> QED BY <3>2, <4>1 DEF Pushes, Again, GivesUp
    <3>3. CASE Misses(j)
      BY <3>3 DEF Misses, Again, GivesUp
    <3>4. CASE RollsBack(j)
      <4>1. CASE at'[j] = "failed"
        BY <4>1
      <4>2. CASE at'[j] # "failed"
        <5>1. Body(j)
          BY <1>2 DEF RevisionInv
        <5>2. revision'[j] = revision[j] /\ revision[j] \in 1 .. Tip
              /\ Replayed(j, Tree(revision[j])) = Tree(revision[j])
          BY <3>4, <4>2, <5>1 DEF RollsBack
        <5>3. Tree(revision[j])' = Tree(revision[j])
          BY <1>1, <5>2 DEF Tree
        <5>4. Replayed(j, Tree(revision[j]))' = Replayed(j, Tree(revision[j])')
          BY DEF Replayed, Synced, Project, EmptyTree
        <5>5. at'[j] = "revert" => base'[j] = revision'[j]
          BY <3>4, <5>2 DEF RollsBack
        <5>6. revision'[j] \in 1 .. Tip'
          BY <1>1, <5>2
        <5> QED BY <5>2, <5>3, <5>4, <5>5, <5>6
      <4> QED BY <4>1, <4>2
    <3>5. CASE Leaves(j)
      BY <3>5 DEF Leaves
    <3>6. CASE Restarts(j)
      BY <3>6 DEF Restarts
    <3> QED BY <2>1, <3>1, <3>2, <3>3, <3>4, <3>5, <3>6
  <2>3. ASSUME NEW i \in Jobs \ {j} PROVE Body(i)'
    BY <1>3, <2>1 DEF Alone
  <2> QED BY <2>2, <2>3 DEF RevisionInv
<1> QED BY <1>5, <1>6

\* Every step keeps the order of the clones of a promotion.
LEMMA CloneStep ==
  ASSUME SnapshotAssumption, IInv, [Next]_vars
  PROVE  CloneInv'
<1>1. CloneInv /\ TypeOK /\ Tip \in Nat /\ Tip >= 1
  BY BranchGrows DEF IInv
<1>2. CASE UNCHANGED vars
  BY <1>1, <1>2 DEF vars, CloneInv
<1>3. CASE Next
  <2>1. PICK j \in Jobs : /\ Alone(j) /\ Ranges
                         /\ \/ Clones(j) \/ Pushes(j) \/ Misses(j)
                            \/ RollsBack(j) \/ Leaves(j) \/ Restarts(j)
    BY <1>3, JobSteps
  <2>2. /\ first'[j] # 0 <=> (at'[j] = "push" \/ (at'[j] = "clone" /\ attempt'[j] # 1))
        /\ attempt'[j] # 1 => at'[j] \in {"clone", "push"}
        /\ at'[j] = "push" => base'[j] >= first'[j]
    <3>1. first[j] \in 0 .. Tip /\ attempt[j] \in 1 .. 3
      BY <1>1 DEF TypeOK, Attempts
    <3>2. CASE Clones(j)
      BY <1>1, <2>1, <3>1, <3>2 DEF Clones, CloneInv
    <3>3. CASE Pushes(j) \/ Misses(j)
      BY <1>1, <2>1, <3>1, <3>3 DEF Pushes, Misses, Again, GivesUp, CloneInv
    <3>4. CASE RollsBack(j) \/ Leaves(j)
      BY <1>1, <3>1, <3>4 DEF RollsBack, Leaves, CloneInv
    <3>5. CASE Restarts(j)
      BY <1>1, <3>1, <3>5 DEF Restarts, CloneInv, Ended
    <3> QED BY <2>1, <3>2, <3>3, <3>4, <3>5
  <2>3. ASSUME NEW i \in Jobs \ {j}
        PROVE  /\ first'[i] # 0 <=> (at'[i] = "push" \/ (at'[i] = "clone" /\ attempt'[i] # 1))
               /\ attempt'[i] # 1 => at'[i] \in {"clone", "push"}
               /\ at'[i] = "push" => base'[i] >= first'[i]
    BY <1>1, <2>1 DEF Alone, CloneInv
  <2> QED BY <2>2, <2>3 DEF CloneInv
<1> QED BY <1>2, <1>3

\* The job that made a step, and what the step appended to the branch: nothing,
\* a commit of that job, or a revert.
LEMMA StepOfJob ==
  ASSUME SnapshotAssumption, IInv, Next
  PROVE  \E j \in Jobs :
           /\ Alone(j) /\ Ranges
           /\ \/ Clones(j) \/ Pushes(j) \/ Misses(j)
              \/ RollsBack(j) \/ Leaves(j) \/ Restarts(j)
           /\ struck \subseteq struck'
           /\ \A n \in 1 .. Tip' :
                \/ n \in 1 .. Tip /\ branch'[n] = branch[n]
                \/ n = Tip + 1 /\ Tip' = Tip + 1 /\ (branch'[n].undo \/ branch'[n].by = j)
<1>1. PICK j \in Jobs : /\ Alone(j) /\ Ranges
                       /\ \/ Clones(j) \/ Pushes(j) \/ Misses(j)
                          \/ RollsBack(j) \/ Leaves(j) \/ Restarts(j)
  BY JobSteps
<1>2. struck \subseteq struck'
  BY DEF Next, Clone, Push, PushFails, Verdict, RollbackClone, Revert, Stop, Rerun, Strike
<1>3. UNCHANGED branch \/ Pushed(j)
  BY <1>1 DEF Clones, Pushes, Misses, RollsBack, Leaves, Restarts
<1>4. Tip \in Nat /\ Tip' \in Nat
  BY BranchGrows
<1>5. ASSUME NEW n \in 1 .. Tip'
      PROVE  \/ n \in 1 .. Tip /\ branch'[n] = branch[n]
             \/ n = Tip + 1 /\ Tip' = Tip + 1 /\ (branch'[n].undo \/ branch'[n].by = j)
  <2>1. CASE UNCHANGED branch
    BY <2>1 DEF Tip
  <2>2. CASE Pushed(j)
    <3>1. /\ Tip' = Tip + 1 /\ \A k \in 1 .. Tip : branch'[k] = branch[k]
          /\ at[j] = "push" => branch'[Tip + 1] = ToPush(j)
          /\ at[j] = "revert" => branch'[Tip + 1] = Reverting(j)
      BY <2>2, PushedCommit
    <3>2. branch'[Tip + 1].undo \/ branch'[Tip + 1].by = j
      BY <2>2, <3>1 DEF Pushed, ToPush, Reverting
    <3>3. n \in 1 .. Tip \/ n = Tip + 1
      BY <1>4, <3>1
    <3> QED BY <3>1, <3>2, <3>3
  <2> QED BY <1>3, <2>1, <2>2
<1> QED BY <1>1, <1>2, <1>5

\* Unless a push is lost, a promotion that goes on has put nothing on the branch.
LEMMA FreshStep ==
  ASSUME SnapshotAssumption, IInv, [Next]_vars
  PROVE  FreshInv'
<1>1. CASE UNCHANGED vars
  BY <1>1 DEF vars, IInv, FreshInv, Tip
<1>2. CASE Next
  <2>1. PICK j \in Jobs :
           /\ Alone(j) /\ Ranges
           /\ \/ Clones(j) \/ Pushes(j) \/ Misses(j)
              \/ RollsBack(j) \/ Leaves(j) \/ Restarts(j)
           /\ struck \subseteq struck'
           /\ \A n \in 1 .. Tip' :
                \/ n \in 1 .. Tip /\ branch'[n] = branch[n]
                \/ n = Tip + 1 /\ Tip' = Tip + 1 /\ (branch'[n].undo \/ branch'[n].by = j)
    BY <1>2, StepOfJob
  <2> SUFFICES ASSUME "lost" \notin struck', NEW i \in Jobs,
                      at'[i] \in {"clone", "push"}, first'[i] # 0,
                      NEW n \in (first'[i] + 1) .. Tip', branch'[n].by = i
               PROVE  branch'[n].undo
    BY DEF FreshInv
  <2>2. /\ Tip \in Nat /\ Tip >= 1 /\ Tip' \in Nat /\ first[i] \in 0 .. Tip /\ first'[i] \in 0 .. Tip'
    BY <2>1, BranchGrows DEF IInv, TypeOK, Ranges
  <2>3. n \in 1 .. Tip'
    BY <2>2
  <2>4. \A k \in (first[i] + 1) .. Tip :
          at[i] \in {"clone", "push"} /\ first[i] # 0 /\ branch[k].by = i => branch[k].undo
    BY <2>1 DEF IInv, FreshInv
  <2>5. CASE i # j
    <3>1. at[i] = at'[i] /\ first[i] = first'[i]
      BY <2>1, <2>5 DEF Alone
    <3>2. CASE n \in 1 .. Tip /\ branch'[n] = branch[n]
      BY <2>2, <2>4, <3>1, <3>2
    <3>3. CASE branch'[n].undo \/ branch'[n].by = j
      BY <2>5, <3>3
    <3> QED BY <2>1, <2>3, <3>2, <3>3
  <2>6. CASE i = j
    <3>1. /\ first[j] # 0 <=> (at[j] = "push" \/ (at[j] = "clone" /\ attempt[j] # 1))
      BY DEF IInv, CloneInv
    <3>2. UNCHANGED branch /\ at[j] \in {"clone", "push"}
      BY <2>1, <2>6, <3>1 DEF Clones, Pushes, Misses, RollsBack, Leaves, Restarts, Again,
           GivesUp, Ended
    <3>3. Tip' = Tip
      BY <3>2 DEF Tip
    <3>4. first'[j] = Tip \/ (first'[j] = first[j] /\ first[j] # 0)
      BY <2>1, <2>6, <3>1, <3>2 DEF Clones, Pushes, Misses, RollsBack, Leaves, Restarts, Again,
           GivesUp, Ended
    <3> QED BY <2>2, <2>4, <2>6, <3>2, <3>3, <3>4
  <2> QED BY <2>5, <2>6
<1> QED BY <1>1, <1>2

\* As long as pushes fail only for a moved branch, each attempt sees a new head.
LEMMA MovedStep ==
  ASSUME SnapshotAssumption, IInv, [Next]_vars
  PROVE  MovedInv'
<1>1. CASE UNCHANGED vars
  BY <1>1 DEF vars, IInv, MovedInv, Tip
<1>2. CASE Next
  <2>1. PICK j \in Jobs :
           /\ Alone(j) /\ Ranges
           /\ \/ Clones(j) \/ Pushes(j) \/ Misses(j)
              \/ RollsBack(j) \/ Leaves(j) \/ Restarts(j)
           /\ struck \subseteq struck'
    BY <1>2, StepOfJob
  <2> SUFFICES ASSUME struck' = {}, NEW i \in Jobs
               PROVE  /\ at'[i] = "clone" /\ first'[i] # 0 => Tip' >= first'[i] + attempt'[i] - 1
                      /\ at'[i] = "push" => base'[i] >= first'[i] + attempt'[i] - 1
    BY DEF MovedInv
  <2>2. /\ Tip \in Nat /\ Tip' \in Nat /\ Tip' >= Tip
        /\ first[i] \in 0 .. Tip /\ base[i] \in 0 .. Tip /\ attempt[i] \in 1 .. 3
    BY BranchGrows DEF IInv, TypeOK, Attempts
  <2>3. struck = {}
    BY <2>1
  <2>4. /\ at[i] = "clone" /\ first[i] # 0 => Tip >= first[i] + attempt[i] - 1
        /\ at[i] = "push" => base[i] >= first[i] + attempt[i] - 1
        /\ first[i] # 0 <=> (at[i] = "push" \/ (at[i] = "clone" /\ attempt[i] # 1))
    BY <2>3 DEF IInv, MovedInv, CloneInv
  <2>5. CASE i # j
    <3>1. at'[i] = at[i] /\ first'[i] = first[i] /\ attempt'[i] = attempt[i] /\ base'[i] = base[i]
      BY <2>1, <2>5 DEF Alone
    <3> QED BY <2>2, <2>4, <3>1
  <2>6. CASE i = j
    <3>1. CASE Clones(i)
      BY <2>2, <2>4, <3>1 DEF Clones
    <3>2. CASE Pushes(i)
      BY <3>2 DEF Pushes
    <3>3. CASE Misses(i)
      BY <2>2, <2>4, <3>3 DEF Misses, Again, GivesUp
    <3>4. CASE RollsBack(i) \/ Leaves(i)
      BY <3>4 DEF RollsBack, Leaves
    <3>5. CASE Restarts(i)
      BY <2>4, <3>5 DEF Restarts, Ended
    <3> QED BY <2>1, <2>6, <3>1, <3>2, <3>3, <3>4, <3>5
  <2> QED BY <2>5, <2>6
<1> QED BY <1>1, <1>2

\* IInv is an invariant.
THEOREM Invariance == Spec => []IInv
<1>1. Init => IInv
  BY InitIInv, SnapshotAssumption
<1>2. IInv /\ [Next]_vars => IInv'
  <2> SUFFICES ASSUME IInv, [Next]_vars PROVE IInv'
    OBVIOUS
  <2>1. TypeOK' /\ RevisionInv' /\ CloneInv' /\ FreshInv' /\ MovedInv'
    BY SnapshotAssumption, TypeStep, RevisionStep, CloneStep, FreshStep, MovedStep
  <2> QED BY <2>1 DEF IInv
<1> QED BY <1>1, <1>2, PTL DEF Spec

-----------------------------------------------------------------------------
\* The variables keep their types, whatever the jobs deploy and whatever fails.
THEOREM TypeCorrect == Spec => []TypeOK
<1>1. IInv => TypeOK
  BY DEF IInv
<1> QED BY <1>1, Invariance, PTL

\* The branch only grows: neither a promotion nor a rollback takes a commit of
\* somebody else away (no push of promote_snapshot or rollback_snapshot forces).
THEOREM HistoryCorrect == Spec => HistoryGrows
<1>1. IInv /\ [Next]_vars => [Tip' >= Tip /\ \A n \in 1 .. Tip : branch'[n] = branch[n]]_vars
  BY SnapshotAssumption, BranchGrows
<1> QED BY <1>1, Invariance, PTL DEF Spec, HistoryGrows

\* The revision that promote_snapshot returns holds what the job deploys, also
\* when there was nothing to commit or an earlier push was lost.
THEOREM RevisionCorrect == Spec => []RevisionIsDeployed
<1>1. IInv => RevisionIsDeployed
  BY DEF IInv, RevisionInv, RevisionIsDeployed
<1> QED BY <1>1, Invariance, PTL

\* What the trees of the branch are does not change when it grows.
LEMMA OldCommitsStay ==
  ASSUME SnapshotAssumption, IInv, [Next]_vars, NEW n \in 2 .. Tip
  PROVE  /\ branch'[n] = branch[n]
         /\ Tree(n)' = Tree(n) /\ Tree(n - 1)' = Tree(n - 1) /\ Tree(n - 2)' = Tree(n - 2)
<1>1. /\ Tip \in Nat
      /\ \A m \in 1 .. Tip : branch'[m] = branch[m]
      /\ \A m \in 0 .. Tip : Tree(m)' = Tree(m)
  BY BranchGrows
<1>2. n \in 1 .. Tip /\ n \in 0 .. Tip /\ n - 1 \in 0 .. Tip /\ n - 2 \in 0 .. Tip
  BY <1>1
<1> QED BY <1>1, <1>2

\* A promotion changes its own project only, and there, where overrides are
\* merged, only the images it built: update_images runs on a new clone in every
\* attempt.
THEOREM OwnChangesCorrect == Spec => []OnlyOwnChanges
<1> DEFINE Own(j, new, old) ==
      /\ \A p \in Projects \ {Project(j)} : new[p] = old[p]
      /\ Project(j) \in Merged => \A s \in Services \ Deploy[j].services :
           new[Project(j)].image[s] = old[Project(j)].image[s]
<1>1. Init => OnlyOwnChanges
  BY DEF Init, OnlyOwnChanges, Tip
<1>2. IInv /\ OnlyOwnChanges /\ [Next]_vars => OnlyOwnChanges'
  <2> SUFFICES ASSUME IInv, OnlyOwnChanges, [Next]_vars,
                      NEW n \in 2 .. Tip', ~branch'[n].undo
               PROVE  Own(branch'[n].by, Tree(n)', Tree(n - 1)')
    BY DEF OnlyOwnChanges, Project
  <2>1. Tip \in Nat /\ Tip >= 1
    BY SnapshotAssumption, BranchGrows
  <2>2. CASE n \in 2 .. Tip
    <3>1. Own(branch[n].by, Tree(n), Tree(n - 1)) \/ branch[n].undo
      BY <2>2 DEF OnlyOwnChanges
    <3> QED BY <2>2, <3>1, OldCommitsStay, SnapshotAssumption
  <2>3. CASE n \notin 2 .. Tip
    <3>1. PICK j \in Jobs : Pushed(j)
      BY <2>3, BranchSteps DEF Tip
    <3>2. /\ Tip' = Tip + 1 /\ Tip = base[j]
          /\ \A m \in 0 .. Tip : Tree(m)' = Tree(m)
          /\ at[j] = "push" => branch'[Tip + 1] = ToPush(j)
          /\ at[j] = "revert" => branch'[Tip + 1] = Reverting(j)
      BY <3>1, PushedCommit, SnapshotAssumption
    <3>3. n = Tip + 1 /\ n # 0 /\ n - 1 = Tip /\ n - 1 \in 0 .. Tip
      BY <2>1, <2>3, <3>2
    <3>4. branch'[n] = ToPush(j)
      BY <3>1, <3>2, <3>3 DEF Pushed, Reverting
    <3>5. Tree(n)' = Replayed(j, Tree(Tip)) /\ branch'[n].by = j
      BY <3>2, <3>3, <3>4 DEF Tree, ToPush
    <3>6. Tree(n - 1)' = Tree(n - 1) /\ Tree(n - 1) = Tree(Tip)
      BY <3>2, <3>3
    <3>7. Tree(Tip) \in Trees
      BY <2>1, TreeType DEF IInv
    <3>8. Own(j, Replayed(j, Tree(Tip)), Tree(Tip))
      BY <3>7, ReplayedFacts, SnapshotAssumption
    <3> QED BY <3>5, <3>6, <3>8
  <2> QED BY <2>2, <2>3
<1> QED BY <1>1, <1>2, Invariance, PTL DEF Spec

\* A revert undoes the commit before it and nothing else: rollback_snapshot
\* refuses when the head is not the revision, and its push when the branch moved.
THEOREM UndoCorrect == Spec => []UndoesOneCommit
<1>1. Init => UndoesOneCommit
  BY DEF Init, UndoesOneCommit, Tip
<1>2. IInv /\ UndoesOneCommit /\ [Next]_vars => UndoesOneCommit'
  <2> SUFFICES ASSUME IInv, UndoesOneCommit, [Next]_vars,
                      NEW n \in 2 .. Tip', branch'[n].undo
               PROVE  Tree(n)' = Tree(n - 2)'
    BY DEF UndoesOneCommit
  <2>1. Tip \in Nat /\ Tip >= 1
    BY SnapshotAssumption, BranchGrows
  <2>2. CASE n \in 2 .. Tip
    <3>1. branch[n].undo => Tree(n) = Tree(n - 2)
      BY <2>2 DEF UndoesOneCommit
    <3> QED BY <2>2, <3>1, OldCommitsStay, SnapshotAssumption
  <2>3. CASE n \notin 2 .. Tip
    <3>1. PICK j \in Jobs : Pushed(j)
      BY <2>3, BranchSteps DEF Tip
    <3>2. /\ Tip' = Tip + 1 /\ Tip = base[j]
          /\ \A m \in 0 .. Tip : Tree(m)' = Tree(m)
          /\ at[j] = "push" => branch'[Tip + 1] = ToPush(j)
          /\ at[j] = "revert" => branch'[Tip + 1] = Reverting(j)
      BY <3>1, PushedCommit, SnapshotAssumption
    <3>3. n = Tip + 1 /\ n # 0 /\ n - 2 = Tip - 1 /\ n - 2 \in 0 .. Tip
      BY <2>1, <2>3, <3>2
    <3>4. at[j] = "revert" /\ branch'[n] = Reverting(j)
      BY <3>1, <3>2, <3>3 DEF Pushed, ToPush
    <3>5. revision[j] = Tip
      BY <3>2, <3>4 DEF IInv, RevisionInv
    <3>6. Tree(n)' = Tree(n - 2)
      <4>1. Tree(n)' = branch'[n].tree
        BY <3>3 DEF Tree
      <4>2. branch'[n].tree = Tree(Tip - 1)
        BY <3>4, <3>5 DEF Reverting
      <4> QED BY <3>3, <4>1, <4>2
    <3> QED BY <3>2, <3>3, <3>6
  <2> QED BY <2>2, <2>3
<1> QED BY <1>1, <1>2, Invariance, PTL DEF Spec

\* Unless a push was lost, the two revisions promote_snapshot returns tell whether
\* the job has a commit of its own to roll back.
THEOREM OwnCommitCorrect == Spec => OwnCommitIsKnown
<1> DEFINE Known(j) ==
      at[j] # "deploying" /\ at'[j] = "deploying" /\ "lost" \notin struck' =>
        LET own == {n \in (Since(j) + 1) .. Tip' : branch'[n].by = j /\ ~branch'[n].undo}
        IN  \/ own = {} /\ revision'[j] = returned'[j]
            \/ own = {revision'[j]} /\ returned'[j] = revision'[j] - 1
<1>1. ASSUME IInv, Next PROVE \A j \in Jobs : Known(j)
  <2>1. PICK i \in Jobs :
           /\ Alone(i)
           /\ \/ Clones(i) \/ Pushes(i) \/ Misses(i)
              \/ RollsBack(i) \/ Leaves(i) \/ Restarts(i)
           /\ struck \subseteq struck'
    BY <1>1, StepOfJob, SnapshotAssumption
  <2> SUFFICES ASSUME NEW j \in Jobs, at[j] # "deploying", at'[j] = "deploying",
                      "lost" \notin struck'
               PROVE  Known(j)
    OBVIOUS
  <2> DEFINE own == {n \in (Since(j) + 1) .. Tip' : branch'[n].by = j /\ ~branch'[n].undo}
  <2>2. j = i
    BY <2>1 DEF Alone
  <2>3. Clones(j) \/ Pushes(j)
    BY <2>1, <2>2 DEF Misses, Again, GivesUp, RollsBack, Leaves, Restarts
  <2>4. /\ Tip \in Nat /\ first[j] \in 0 .. Tip
        /\ first[j] # 0 => \A n \in (first[j] + 1) .. Tip : branch[n].by = j => branch[n].undo
        /\ at[j] = "push" => first[j] # 0
    BY <1>1, <2>1, <2>3, BranchGrows, SnapshotAssumption
       DEF Clones, Pushes, IInv, TypeOK, FreshInv, CloneInv
  <2>5. CASE Clones(j)
    <3>1. branch' = branch /\ Tip' = Tip /\ revision'[j] = returned'[j]
      BY <2>5 DEF Clones, Tip
    <3>2. own = {}
      BY <2>4, <3>1 DEF Since
    <3> QED BY <3>1, <3>2
  <2>6. CASE Pushes(j)
    <3>1. at[j] = "push" /\ Pushed(j) /\ revision'[j] = Tip + 1 /\ returned'[j] = base[j]
      BY <2>6 DEF Pushes, Again, GivesUp
    <3>2. /\ Tip = base[j] /\ Tip' = Tip + 1 /\ \A n \in 1 .. Tip : branch'[n] = branch[n]
          /\ branch'[Tip + 1] = ToPush(j)
      BY <1>1, <3>1, PushedCommit, SnapshotAssumption
    <3>3. Since(j) = first[j]
      BY <2>4, <3>1 DEF Since
    <3>4. branch'[Tip + 1].by = j /\ ~branch'[Tip + 1].undo
      BY <3>2 DEF ToPush
    <3>5. \A n \in (Since(j) + 1) .. Tip' : n = Tip + 1 \/ n \in (first[j] + 1) .. Tip
      BY <2>4, <3>2, <3>3
    <3>6. \A n \in (first[j] + 1) .. Tip : n \notin own
      BY <2>4, <3>1, <3>2
    <3>7. Tip + 1 \in own
      BY <2>4, <3>2, <3>3, <3>4
    <3>8. own = {Tip + 1}
      BY <3>5, <3>6, <3>7
    <3> QED BY <2>4, <3>1, <3>2, <3>8
  <2> QED BY <2>3, <2>5, <2>6
<1>2. IInv /\ [Next]_vars => [\A j \in Jobs : Known(j)]_vars
  BY <1>1
<1> QED BY <1>2, Invariance, PTL DEF Spec, OwnCommitIsKnown

\* Unless a push fails for another reason, promote_snapshot gives up only after
\* the branch moved under each of its three attempts.
THEOREM GivesUpCorrect == Spec => GivesUpLate
<1> DEFINE Late(j) ==
      at'[j] = "moved" /\ at[j] = "push" /\ struck' = {} => Tip >= first[j] + Attempts
<1>1. ASSUME IInv, Next PROVE \A j \in Jobs : Late(j)
  <2>1. PICK i \in Jobs :
           /\ Alone(i)
           /\ \/ Clones(i) \/ Pushes(i) \/ Misses(i)
              \/ RollsBack(i) \/ Leaves(i) \/ Restarts(i)
           /\ struck \subseteq struck'
    BY <1>1, StepOfJob, SnapshotAssumption
  <2> SUFFICES ASSUME NEW j \in Jobs, at'[j] = "moved", at[j] = "push", struck' = {}
               PROVE  Tip >= first[j] + Attempts
    OBVIOUS
  <2>2. j = i
    BY <2>1 DEF Alone
  <2>3. Misses(j) /\ GivesUp(j) /\ Tip # base[j]
    BY <2>1, <2>2 DEF Clones, Pushes, Misses, Again, RollsBack, Leaves, Restarts, Ended
  <2>4. struck = {}
    BY <2>1
  <2>5. /\ Tip \in Nat /\ base[j] \in 0 .. Tip /\ first[j] \in 0 .. Tip
        /\ base[j] >= first[j] + attempt[j] - 1
    BY <1>1, <2>4, BranchGrows, SnapshotAssumption DEF IInv, TypeOK, MovedInv
  <2> QED BY <2>3, <2>5 DEF GivesUp, Attempts
<1>2. IInv /\ [Next]_vars => [\A j \in Jobs : Late(j)]_vars
  BY <1>1
<1> QED BY <1>2, Invariance, PTL DEF Spec, GivesUpLate

-----------------------------------------------------------------------------
\* A job that has no answer of promote_snapshot, or has given it up, knows none.
AnswerInv == \A j \in Jobs :
  at[j] \notin {"deploying", "deployed", "rollback", "revert"} =>
    revision[j] = 0 /\ returned[j] = 0

\* Every step keeps that.
LEMMA AnswerStep ==
  ASSUME SnapshotAssumption, TypeOK, AnswerInv, [Next]_vars
  PROVE  AnswerInv'
<1> USE DEF AnswerInv, TypeOK, Goto
<1>1. CASE UNCHANGED vars
  BY <1>1 DEF vars
<1>2. CASE Next
  <2> SUFFICES ASSUME NEW i \in Jobs, at'[i] \notin {"deploying", "deployed", "rollback", "revert"}
               PROVE  revision'[i] = 0 /\ returned'[i] = 0
    OBVIOUS
  <2> PICK j \in Jobs : \/ Clone(j) \/ Push(j) \/ PushFails(j) \/ Verdict(j)
                        \/ RollbackClone(j) \/ Revert(j) \/ Stop(j) \/ Rerun(j)
    BY <1>2 DEF Next
  <2>1. ASSUME NEW place, Ends(j, place) PROVE revision'[i] = 0 /\ returned'[i] = 0
    BY <2>1 DEF Ends, Returns
  <2>2. ASSUME NEW new, NEW old, Promoted(j, new, old) PROVE revision'[i] = 0 /\ returned'[i] = 0
    BY <2>2 DEF Promoted, Returns
  <2>3. ASSUME TryAgain(j), at[j] = "push" PROVE revision'[i] = 0 /\ returned'[i] = 0
    BY <2>1, <2>3 DEF TryAgain
  <2>4. CASE Clone(j)
    <3>1. CASE Promoted(j, Tip, Tip)
      BY <2>2, <3>1
    <3>2. CASE ~Promoted(j, Tip, Tip)
      BY <2>4, <3>2 DEF Clone
    <3> QED BY <3>1, <3>2
  <2>5. CASE Push(j)
    BY <2>2, <2>3, <2>5 DEF Push
  <2>6. CASE PushFails(j)
    BY <2>3, <2>6 DEF PushFails
  <2>7. CASE Verdict(j)
    BY <2>7 DEF Verdict
  <2>8. CASE RollbackClone(j)
    <3>1. CASE Ends(j, "failed")
      BY <2>1, <3>1
    <3>2. CASE ~Ends(j, "failed")
      BY <2>8, <3>2 DEF RollbackClone
    <3> QED BY <3>1, <3>2
  <2>9. CASE Revert(j) \/ Stop(j)
    BY <2>1, <2>9 DEF Revert, Stop
  <2>10. CASE Rerun(j)
    BY <2>10 DEF Rerun, Ended
  <2> QED BY <2>4, <2>5, <2>6, <2>7, <2>8, <2>9, <2>10
<1> QED BY <1>1, <1>2

\* The trees of the branch are the trees of the log.
LEMMA TreeIsTreeAt ==
  ASSUME NEW n
  PROVE  Log!TreeAt(n) = Tree(n) /\ Log!Top = Tree(Tip)
BY DEF Log!TreeAt, Log!Top, Tree, Tip

\* A push that is accepted takes effect where the branch then ends.
LEMMA PushIsPromote ==
  ASSUME SnapshotAssumption, IInv, AnswerInv, NEW j \in Jobs, Push(j)
  PROVE  Log!Promote(j)
<1>1. at[j] = "push" /\ Tip = base[j] /\ branch' = Append(branch, ToPush(j))
  BY DEF Push, PushOf
<1>2. ToPush(j) = [tree |-> Replayed(j, Log!Top), by |-> j, undo |-> FALSE]
  BY <1>1, TreeIsTreeAt DEF ToPush
<1>3. revision[j] = 0 /\ returned[j] = 0
  BY <1>1 DEF AnswerInv
<1>4. Log!Answer(j, Len(branch) + 1, Len(branch)) \/ UNCHANGED <<revision, returned>>
  <2>1. CASE Promoted(j, Tip + 1, base[j])
    BY <1>1, <2>1 DEF Promoted, Log!Answer, Tip
  <2>2. CASE Ends(j, "moved")
    BY <1>3, <2>2 DEF Ends, IInv, TypeOK
  <2>3. CASE UNCHANGED <<revision, returned>>
    BY <2>3
  <2> QED BY <2>1, <2>2, <2>3 DEF Push, TryAgain
<1> QED BY <1>1, <1>2, <1>3, <1>4 DEF Log!Promote

\* A revert that is accepted undoes the last commit.
LEMMA RevertIsUndo ==
  ASSUME SnapshotAssumption, IInv, NEW j \in Jobs, Revert(j)
  PROVE  Log!Undo(j)
<1>1. /\ at[j] = "revert" /\ Tip = base[j] /\ branch' = Append(branch, Reverting(j))
      /\ revision' = [revision EXCEPT ![j] = 0] /\ returned' = [returned EXCEPT ![j] = 0]
  BY DEF Revert, PushOf, Ends
<1>2. revision[j] = Len(branch)
  BY <1>1 DEF IInv, RevisionInv, Tip
<1>3. Reverting(j) = [tree |-> Log!TreeAt(Len(branch) - 1), by |-> branch[Len(branch)].by, undo |-> TRUE]
  BY <1>2, TreeIsTreeAt DEF Reverting
<1> QED BY <1>1, <1>2, <1>3 DEF Log!Undo, Log!Answer

\* Every step of a job is a step of DeployLog, or none.
LEMMA LogStep ==
  ASSUME SnapshotAssumption, IInv, AnswerInv, [Next]_vars
  PROVE  [Log!Next]_(Log!vars)
<1>1. CASE UNCHANGED vars
  BY <1>1 DEF vars, Log!vars
<1>2. CASE Next
  <2> PICK j \in Jobs : \/ Clone(j) \/ Push(j) \/ PushFails(j) \/ Verdict(j)
                        \/ RollbackClone(j) \/ Revert(j) \/ Stop(j) \/ Rerun(j)
    BY <1>2 DEF Next
  <2>1. CASE UNCHANGED <<branch, revision, returned>>
    BY <2>1 DEF Log!vars
  <2>2. ASSUME NEW place, Ends(j, place), UNCHANGED branch PROVE Log!Next
    <3>1. Log!Forget(j)
      BY <2>2 DEF Ends, Log!Forget, Log!Answer
    <3> QED BY <3>1 DEF Log!Next
  <2>3. CASE Clone(j) /\ ~UNCHANGED <<branch, revision, returned>>
    <3>1. /\ at[j] = "clone" /\ Replayed(j, Tree(Tip)) = Tree(Tip)
          /\ Promoted(j, Tip, Tip) /\ UNCHANGED branch
      BY <2>3 DEF Clone
    <3>2. revision[j] = 0
      BY <3>1 DEF AnswerInv
    <3>3. Log!Find(j)
      BY <3>1, <3>2, TreeIsTreeAt DEF Promoted, Log!Find, Log!Answer, Tip
    <3> QED BY <3>3 DEF Log!Next
  <2>4. CASE Push(j)
    BY <2>4, PushIsPromote DEF Log!Next
  <2>5. CASE PushFails(j) /\ ~UNCHANGED <<branch, revision, returned>>
    BY <2>2, <2>5 DEF PushFails, TryAgain
  <2>6. CASE RollbackClone(j) /\ ~UNCHANGED <<branch, revision, returned>>
    BY <2>2, <2>6 DEF RollbackClone
  <2>7. CASE Revert(j)
    BY <2>7, RevertIsUndo DEF Log!Next
  <2>8. CASE Stop(j)
    BY <2>2, <2>8 DEF Stop
  <2>9. CASE Verdict(j) \/ Rerun(j)
    BY <2>1, <2>9 DEF Verdict, Rerun
  <2> QED BY <2>1, <2>3, <2>4, <2>5, <2>6, <2>7, <2>8, <2>9
<1> QED BY <1>1, <1>2

\* The deploy jobs implement DeployLog: a promotion takes effect at one moment, on
\* what the branch then holds, and a rollback undoes the last commit.
THEOREM DeployLogKept == Spec => KeepsDeployLog
<1>1. Init => AnswerInv /\ Log!Init
  BY DEF Init, AnswerInv, Log!Init
<1>2. IInv /\ AnswerInv /\ [Next]_vars => AnswerInv'
  BY AnswerStep, SnapshotAssumption DEF IInv
<1>3. IInv /\ AnswerInv /\ [Next]_vars => [Log!Next]_(Log!vars)
  BY LogStep, SnapshotAssumption
<1> QED BY <1>1, <1>2, <1>3, Invariance, PTL DEF Spec, KeepsDeployLog, Log!Spec
=============================================================================
