------------------------ MODULE CandidateTagsProofs ------------------------
(***************************************************************************)
(* What CandidateTags keeps, for any commits, attempts and builds.         *)
(***************************************************************************)
EXTENDS CandidateTags, TLAPS

-----------------------------------------------------------------------------
(***************************************************************************)
(* Types                                                                   *)
(***************************************************************************)
\* One attempt goes to another place.
LEMMA Goes ==
  ASSUME TypeOK, NEW c \in Commits, NEW k \in Attempts, NEW p \in Places, Go(c, k, p)
  PROVE  /\ at' \in [Commits -> [Attempts -> Places]]
         /\ at'[c][k] = p
         /\ \A d \in Commits, i \in Attempts : d # c \/ i # k => at'[d][i] = at[d][i]
BY DEF TypeOK, Go

\* One attempt gets its digest.
LEMMA GetsImage ==
  ASSUME TypeOK, NEW c \in Commits, NEW k \in Attempts, NEW d \in Images \cup {None},
         image' = [image EXCEPT ![c][k] = d]
  PROVE  /\ image' \in [Commits -> [Attempts -> Images \cup {None}]]
         /\ image'[c][k] = d
         /\ \A e \in Commits, i \in Attempts : e # c \/ i # k => image'[e][i] = image[e][i]
BY DEF TypeOK

\* A new attempt is one of those that are bounded.
LEMMA NewAttempt ==
  ASSUME TypeOK, NEW c \in Commits, Trigger(c)
  PROVE  /\ latest'[c] = latest[c] + 1 /\ latest'[c] \in Attempts
         /\ latest' \in [Commits -> Nat] /\ \A d \in Commits : latest'[d] <= MaxAttempts[d]
         /\ \A d \in Commits : d # c => latest'[d] = latest[d]
<1>1. latest[c] \in Nat /\ latest[c] < MaxAttempts[c] /\ MaxAttempts[c] \in Nat
  BY CandidateAssumption DEF TypeOK, Trigger
<1>2. latest'[c] = latest[c] + 1 /\ \A d \in Commits : d # c => latest'[d] = latest[d]
  BY DEF TypeOK, Trigger
<1>3. latest'[c] \in 1..MaxAttempts[c]
  BY <1>1, <1>2
<1>4. latest' \in [Commits -> Nat]
  BY <1>1 DEF TypeOK, Trigger
<1> QED
  BY <1>1, <1>2, <1>3, <1>4 DEF Attempts, TypeOK

\* A rerun begins at one of two places, one of them with an earlier digest.
LEMMA NewPlace ==
  ASSUME TypeOK, NEW c \in Commits, Trigger(c)
  PROVE  \E p \in {"package", "restore"} :
           /\ Go(c, latest'[c], p)
           /\ p = "package" => image' = image
           /\ p = "restore" => \E k \in Attempts :
                /\ image[c][k] \in Images
                /\ image' = [image EXCEPT ![c][latest'[c]] = image[c][k]]
<1>1. CASE Go(c, latest'[c], "package") /\ UNCHANGED image
  BY <1>1
<1>2. ASSUME NEW k \in 1..latest[c], image[c][k] # None,
             image' = [image EXCEPT ![c][latest'[c]] = image[c][k]],
             Go(c, latest'[c], "restore")
      PROVE  \E i \in Attempts : /\ image[c][i] \in Images
                                 /\ image' = [image EXCEPT ![c][latest'[c]] = image[c][i]]
  <2>1. latest[c] <= MaxAttempts[c] /\ latest[c] \in Nat /\ MaxAttempts[c] \in Nat
    BY CandidateAssumption DEF TypeOK
  <2>2. k \in 1..MaxAttempts[c]
    BY <2>1
  <2>3. k \in Attempts
    BY <2>2 DEF Attempts
  <2>4. image[c][k] \in Images
    BY <1>2, <2>3 DEF TypeOK
  <2> QED
    BY <1>2, <2>3, <2>4
<1> QED
  BY <1>1, <1>2 DEF Trigger

LEMMA InitTyped == Init => TypeOK
BY CandidateAssumption DEF Init, TypeOK, Places

LEMMA NextBuild ==
  ASSUME TypeOK, NEW c \in Commits, NEW k \in Attempts, Build(c, k)
  PROVE  /\ builds' \in [Commits -> 0..MaxBuilds]
         /\ <<c, builds'[c]>> \in Images
         /\ candidate' = [candidate EXCEPT ![c] = <<c, builds'[c]>>]
         /\ image' = [image EXCEPT ![c][k] = <<c, builds'[c]>>]
<1>1. builds[c] \in 0..MaxBuilds /\ builds[c] < MaxBuilds /\ MaxBuilds \in Nat
  BY CandidateAssumption DEF TypeOK, Build
<1>2. builds' = [builds EXCEPT ![c] = builds[c] + 1]
  BY DEF Build
<1>3. builds'[c] = builds[c] + 1 /\ builds'[c] \in 1..MaxBuilds
  BY <1>1, <1>2 DEF TypeOK
<1> QED
  BY <1>1, <1>2, <1>3 DEF TypeOK, Build, Images

LEMMA StepTyped == TypeOK /\ [Next]_vars => TypeOK'
<1> SUFFICES ASSUME TypeOK, [Next]_vars PROVE TypeOK'
  OBVIOUS
<1> USE DEF TypeOK
<1>1. ASSUME NEW c \in Commits, Trigger(c) PROVE TypeOK'
  <2>1. PICK p \in {"package", "restore"} :
           /\ Go(c, latest'[c], p)
           /\ p = "package" => image' = image
           /\ p = "restore" => \E k \in Attempts :
                /\ image[c][k] \in Images
                /\ image' = [image EXCEPT ![c][latest'[c]] = image[c][k]]
    BY <1>1, NewPlace
  <2>2. at' \in [Commits -> [Attempts -> Places]]
    BY <1>1, <2>1, Goes, NewAttempt DEF Places
  <2>3. image' \in [Commits -> [Attempts -> Images \cup {None}]]
    BY <1>1, <2>1, GetsImage, NewAttempt
  <2>4. /\ status' \in [Commits -> {"none", "queued", "in_progress", "completed"}]
        /\ gap' \subseteq Commits /\ worked' \subseteq Commits
    BY <1>1 DEF Trigger, Works
  <2>5. latest' \in [Commits -> Nat] /\ \A d \in Commits : latest'[d] <= MaxAttempts[d]
    BY <1>1, NewAttempt
  <2> QED
    BY <1>1, <2>2, <2>3, <2>4, <2>5 DEF Trigger, registry, gitops
<1>2. ASSUME NEW c \in Commits, Start(c) PROVE TypeOK'
  BY <1>2 DEF Start, registry, gitops, pruning
<1>3. ASSUME NEW c \in Commits, Conclude(c) PROVE TypeOK'
  BY <1>3 DEF Conclude, registry, gitops
<1>4. ASSUME NEW c \in Commits, PruneDelete(c) PROVE TypeOK'
  BY <1>4 DEF PruneDelete, gitops, runs
<1>5. ASSUME NEW c \in Commits, NEW k \in Attempts, Package(c, k) PROVE TypeOK'
  <2>1. at' \in [Commits -> [Attempts -> Places]]
    BY <1>5, Goes DEF Package, Places
  <2>2. image' \in [Commits -> [Attempts -> Images \cup {None}]]
    BY <1>5, GetsImage DEF Package
  <2> QED
    BY <1>5, <2>1, <2>2 DEF Package, registry, gitops, runs, pruning
<1>6. ASSUME NEW c \in Commits, NEW k \in Attempts, Build(c, k) PROVE TypeOK'
  <2>1. at' \in [Commits -> [Attempts -> Places]]
    BY <1>6, Goes DEF Build, Places
  <2> DEFINE d == <<c, builds'[c]>>
  <2>4. d \in Images \cup {None} /\ image' = [image EXCEPT ![c][k] = d]
    BY <1>6, NextBuild
  <2> HIDE DEF d
  <2>2. image' \in [Commits -> [Attempts -> Images \cup {None}]]
    BY <2>4, GetsImage
  <2>3. candidate' \in [Commits -> Images \cup {None}] /\ builds' \in [Commits -> 0..MaxBuilds]
    BY <1>6, NextBuild, ZenonT(60)
  <2> QED
    BY <1>6, <2>1, <2>2, <2>3 DEF Build, gitops, runs, pruning
<1>7. ASSUME NEW c \in Commits, NEW k \in Attempts, Restore(c, k) PROVE TypeOK'
  <2>1. at' \in [Commits -> [Attempts -> Places]]
    BY <1>7, Goes DEF Restore, Places
  <2>2. candidate' \in [Commits -> Images \cup {None}]
    BY <1>7 DEF Restore
  <2> QED
    BY <1>7, <2>1, <2>2 DEF Restore, gitops, runs, pruning
<1>8. ASSUME NEW c \in Commits, NEW k \in Attempts, Deploy(c, k) PROVE TypeOK'
  <2>1. at' \in [Commits -> [Attempts -> Places]]
    BY <1>8, Goes DEF Deploy, Places
  <2>2. /\ deployed' \in Images \cup {None} /\ base' \in Images \cup {None}
        /\ deploying' \in (Commits \X Attempts) \cup {None}
    BY <1>8 DEF Deploy
  <2> QED
    BY <1>8, <2>1, <2>2 DEF Deploy, registry, runs, pruning
<1>9. ASSUME NEW c \in Commits, NEW k \in Attempts, Rollback(c, k) PROVE TypeOK'
  <2>1. at' \in [Commits -> [Attempts -> Places]]
    BY <1>9, Goes DEF Rollback, End, Places
  <2> QED
    BY <1>9, <2>1 DEF Rollback, registry, runs, pruning
<1>10. ASSUME NEW c \in Commits, NEW k \in Attempts, Promote(c, k) PROVE TypeOK'
  <2>1. at' \in [Commits -> [Attempts -> Places]]
    BY <1>10, Goes DEF Promote, Places
  <2>2. gap' \subseteq Commits /\ active' \in Images \cup {None}
    BY <1>10 DEF Promote
  <2> QED
    BY <1>10, <2>1, <2>2 DEF Promote, runs, pruning
<1>11. ASSUME NEW c \in Commits, NEW k \in Attempts, PromoteFails(c, k) PROVE TypeOK'
  <2>1. at' \in [Commits -> [Attempts -> Places]]
    BY <1>11, Goes DEF PromoteFails, End, Places
  <2>2. active' \in Images \cup {None}
    BY <1>11 DEF PromoteFails
  <2> QED
    BY <1>11, <2>1, <2>2 DEF PromoteFails, runs, pruning
<1>12. ASSUME NEW c \in Commits, NEW k \in Attempts, Check(c, k) PROVE TypeOK'
  <2>1. at' \in [Commits -> [Attempts -> Places]]
    BY <1>12, Goes DEF Check, End, Places
  <2> QED
    BY <1>12, <2>1 DEF Check, registry, gitops, runs, pruning
<1>13. ASSUME NEW c \in Commits, NEW k \in Attempts, Delete(c, k) PROVE TypeOK'
  <2>1. at' \in [Commits -> [Attempts -> Places]]
    BY <1>13, Goes DEF Delete, End, Places
  <2>2. candidate' \in [Commits -> Images \cup {None}]
    BY <1>13 DEF Delete
  <2> QED
    BY <1>13, <2>1, <2>2 DEF Delete, gitops, runs, pruning
<1>14. ASSUME NEW c \in Commits, NEW k \in Attempts, Fail(c, k) PROVE TypeOK'
  <2>1. at' \in [Commits -> [Attempts -> Places]]
    BY <1>14, Goes DEF Fail, End, Places
  <2> QED
    BY <1>14, <2>1 DEF Fail, registry, gitops, runs, pruning
<1>15. CASE PruneBegin
  BY <1>15 DEF PruneBegin, Digests, registry, gitops, runs
<1>16. CASE ReadRuns
  BY <1>16 DEF ReadRuns, registry, gitops, runs
<1>17. CASE ReadActive
  BY <1>17 DEF ReadActive, Digests, registry, gitops, runs
<1>18. CASE ListCandidates
  BY <1>18 DEF ListCandidates, registry, gitops, runs
<1>19. CASE PruneEnd
  BY <1>19 DEF PruneEnd, registry, gitops, runs
<1>20. CASE UNCHANGED vars
  BY <1>20 DEF vars, registry, gitops, runs, pruning
<1> QED
  BY <1>1, <1>2, <1>3, <1>4, <1>5, <1>6, <1>7, <1>8, <1>9, <1>10, <1>11, <1>12, <1>13, <1>14,
     <1>15, <1>16, <1>17, <1>18, <1>19, <1>20 DEF Next

\* The variables keep their types.
THEOREM TypeCorrect == Spec => []TypeOK
BY InitTyped, StepTyped, PTL DEF Spec

-----------------------------------------------------------------------------
(***************************************************************************)
(* What prune-candidates spares                                            *)
(***************************************************************************)
Active(c) == status[c] \in {"queued", "in_progress"}

\* A run that has been active all along was found queued, or was in progress
\* by then and is found when those in progress are read.
Spared ==
  /\ prune = "first" => \A c \in Commits : c \notin rested => Active(c)
  /\ prune = "second" => \A c \in Commits :
       c \notin rested => c \in busy \/ status[c] = "in_progress"
  /\ prune \in {"tags", "list", "delete"} => \A c \in Commits : c \notin rested => c \in busy
  /\ prune # "delete" => listed = {}
  /\ listed \subseteq rested

LEMMA InitSpared == Init => Spared
BY DEF Init, Spared

LEMMA StepSpared == TypeOK /\ Spared /\ [Next]_vars => Spared'
<1> SUFFICES ASSUME TypeOK, Spared, [Next]_vars PROVE Spared'
  OBVIOUS
<1> USE DEF Spared, Active
<1>1. ASSUME NEW c \in Commits, Trigger(c) PROVE Spared'
  BY <1>1 DEF Trigger, TypeOK
<1>2. ASSUME NEW c \in Commits, Start(c) PROVE Spared'
  BY <1>2 DEF Start, TypeOK, pruning
<1>3. ASSUME NEW c \in Commits, Conclude(c) PROVE Spared'
  BY <1>3 DEF Conclude, TypeOK, Pruning
<1>4. ASSUME NEW c \in Commits, PruneDelete(c) PROVE Spared'
  BY <1>4 DEF PruneDelete, runs
<1>5. ASSUME UNCHANGED <<runs, pruning>> PROVE Spared'
  BY <1>5 DEF runs, pruning
<1>6. ASSUME NEW c \in Commits, NEW k \in Attempts,
             \/ Package(c, k) \/ Build(c, k) \/ Restore(c, k) \/ Deploy(c, k) \/ Rollback(c, k)
             \/ Promote(c, k) \/ PromoteFails(c, k) \/ Check(c, k) \/ Delete(c, k) \/ Fail(c, k)
      PROVE  UNCHANGED <<runs, pruning>>
  BY <1>6 DEF Package, Build, Restore, Deploy, Rollback, Promote, PromoteFails, Check, Delete, Fail
<1>7. CASE PruneBegin
  BY <1>7 DEF PruneBegin, TypeOK, runs
<1>8. CASE ReadRuns
  BY <1>8 DEF ReadRuns, ReadOrder, TypeOK, runs
<1>9. CASE ReadActive
  BY <1>9 DEF ReadActive, runs
<1>10. CASE ListCandidates
  BY <1>10 DEF ListCandidates, Prunable, runs
<1>11. CASE PruneEnd
  BY <1>11 DEF PruneEnd, runs
<1>12. CASE UNCHANGED vars
  BY <1>5, <1>12 DEF vars
<1> QED
  BY <1>1, <1>2, <1>3, <1>4, <1>5, <1>6, <1>7, <1>8, <1>9, <1>10, <1>11, <1>12 DEF Next

\* A run that has been active since the prune began keeps its candidate.
THEOREM ActiveRunsSpared == Spec => []SparesActiveRuns
<1>1. Spared => SparesActiveRuns
  BY DEF Spared, SparesActiveRuns
<1> QED
  BY <1>1, InitTyped, StepTyped, InitSpared, StepSpared, PTL DEF Spec

-----------------------------------------------------------------------------
(***************************************************************************)
(* What is promoted is what was tested                                     *)
(***************************************************************************)
\* There is no attempt after the latest one.
LatestIsLast ==
  \A c \in Commits, k \in Attempts : k > latest[c] => at[c][k] = "none"

\* Only the latest attempt deletes, and only if no other is at work, unless
\* one of the windows was met.
DeletesAlone ==
  \A c \in Commits, k \in Attempts : c \notin gap =>
    /\ at[c][k] = "delete" => k = latest[c]
    /\ at[c][k] \in {"check", "delete"} /\ k = latest[c] =>
         \A i \in Attempts : i # k => ~Live(c, i)

\* What is restored, deployed or tested has a digest.
HasImage ==
  \A c \in Commits, k \in Attempts :
    at[c][k] \in {"restore", "deploy", "smoke"} => image[c][k] # None

\* The prune's history holds every commit with an attempt at work.
WorkIsSeen ==
  Pruning => \A c \in Commits, k \in Attempts : Live(c, k) => c \in worked

Standing == LatestIsLast /\ DeletesAlone /\ HasImage /\ WorkIsSeen /\ CandidateStands

LEMMA InitStands == Init => Standing
BY DEF Init, Standing, LatestIsLast, DeletesAlone, HasImage, WorkIsSeen, CandidateStands,
       Pruning, Live

\* An attempt of c goes on, and neither the attempts that there are nor the
\* candidate change.
LEMMA GoesOn ==
  ASSUME TypeOK, Standing, NEW c \in Commits, NEW k \in Attempts, NEW p \in Places, Go(c, k, p),
         Live(c, k), UNCHANGED <<candidate, latest, pruning>>, gap \subseteq gap',
         \/ image' = image
         \/ \E d \in Images : image' = [image EXCEPT ![c][k] = d],
         p \in {"restore", "deploy", "smoke"} => image'[c][k] # None,
         p \in {"deploy", "smoke"} => candidate[c] = image'[c][k] \/ c \in gap',
         p = "check" /\ k = latest[c] /\ c \notin gap' => \A i \in Attempts : i # k => ~Live(c, i),
         p = "delete" => at[c][k] = "check" /\ k = latest[c]
  PROVE  Standing'
<1>1. /\ at'[c][k] = p
      /\ \A d \in Commits, i \in Attempts : d # c \/ i # k => at'[d][i] = at[d][i]
  BY Goes
<1>2. \A d \in Commits, i \in Attempts : d # c \/ i # k => image'[d][i] = image[d][i]
  BY GetsImage
<1>3. \A d \in Commits, i \in Attempts : Live(d, i)' => Live(d, i)
  BY <1>1 DEF Live
<1>4. LatestIsLast' /\ HasImage'
  BY <1>1, <1>2 DEF Standing, LatestIsLast, HasImage, Live
<1>5. WorkIsSeen'
  BY <1>3 DEF Standing, WorkIsSeen, Pruning, pruning
<1>6. CandidateStands'
  BY <1>1, <1>2 DEF Standing, CandidateStands
<1>7. DeletesAlone'
  BY <1>1, <1>3 DEF Standing, DeletesAlone
<1> QED
  BY <1>4, <1>5, <1>6, <1>7 DEF Standing

LEMMA StepStands == TypeOK /\ Standing /\ [Next]_vars => Standing'
<1> SUFFICES ASSUME TypeOK, Standing, [Next]_vars PROVE Standing'
  OBVIOUS
<1>1. ASSUME NEW c \in Commits, Trigger(c) PROVE Standing'
  <2>1. PICK p \in {"package", "restore"} :
           /\ Go(c, latest'[c], p)
           /\ p = "package" => image' = image
           /\ p = "restore" => \E k \in Attempts :
                /\ image[c][k] \in Images
                /\ image' = [image EXCEPT ![c][latest'[c]] = image[c][k]]
    BY <1>1, NewPlace
  <2>2. /\ latest'[c] = latest[c] + 1 /\ latest'[c] \in Attempts /\ latest[c] \in Nat
        /\ \A d \in Commits : d # c => latest'[d] = latest[d]
        /\ Attempts \subseteq Nat
    <3>1. \A d \in Commits : 1..MaxAttempts[d] \subseteq Nat
      BY CandidateAssumption
    <3>2. Attempts \subseteq Nat
      BY <3>1 DEF Attempts
    <3> QED
      BY <1>1, <3>2, NewAttempt DEF TypeOK
  <2>3. /\ at'[c][latest'[c]] = p
        /\ \A d \in Commits, i \in Attempts : d # c \/ i # latest'[c] => at'[d][i] = at[d][i]
    BY <2>1, <2>2, Goes DEF Places
  <2>4. /\ \A d \in Commits, i \in Attempts : d # c \/ i # latest'[c] => image'[d][i] = image[d][i]
        /\ p = "restore" => image'[c][latest'[c]] # None
    BY <2>1, <2>2, GetsImage, CandidateAssumption
  <2>5. at[c][latest'[c]] = "none"
    BY <2>2 DEF Standing, LatestIsLast
  <2>6. LatestIsLast'
    BY <2>2, <2>3 DEF Standing, LatestIsLast
  <2>7. HasImage'
    BY <2>3, <2>4 DEF Standing, HasImage
  <2>8. CandidateStands'
    BY <1>1, <2>3, <2>4 DEF Standing, CandidateStands, Trigger, registry
  <2>9. WorkIsSeen'
    BY <1>1, <2>3 DEF Standing, WorkIsSeen, Trigger, Works, Pruning, Live
  <2>10. DeletesAlone'
    BY <1>1, <2>2, <2>3, <2>5 DEF Standing, DeletesAlone, LatestIsLast, Trigger, Live
  <2> QED
    BY <2>6, <2>7, <2>8, <2>9, <2>10 DEF Standing
<1>2. ASSUME NEW c \in Commits, Start(c) PROVE Standing'
  BY <1>2 DEF Start, registry, pruning, Standing, LatestIsLast, DeletesAlone, HasImage,
              WorkIsSeen, CandidateStands, Pruning, Live
<1>3. ASSUME NEW c \in Commits, Conclude(c) PROVE Standing'
  BY <1>3 DEF Conclude, registry, Standing, LatestIsLast, DeletesAlone, HasImage,
              WorkIsSeen, CandidateStands, Pruning, Live
<1>4. ASSUME NEW c \in Commits, PruneDelete(c) PROVE Standing'
  <2>1. UNCHANGED <<at, image, latest, prune, worked>> /\ gap \subseteq gap' /\ prune = "delete"
    BY <1>4 DEF PruneDelete, runs
  <2>2. LatestIsLast' /\ DeletesAlone' /\ HasImage' /\ WorkIsSeen'
    BY <2>1 DEF Standing, LatestIsLast, DeletesAlone, HasImage, WorkIsSeen, Pruning, Live
  <2>3. ASSUME NEW d \in Commits, NEW k \in Attempts, at[d][k] \in {"deploy", "smoke"}
        PROVE  candidate'[d] = image[d][k] \/ d \in gap'
    <3>1. CASE d = c
      BY <1>4, <2>1, <2>3, <3>1 DEF PruneDelete, Standing, WorkIsSeen, Pruning, Live
    <3>2. CASE d # c
      BY <1>4, <2>1, <2>3, <3>2 DEF PruneDelete, Standing, CandidateStands, TypeOK
    <3> QED
      BY <3>1, <3>2
  <2> QED
    BY <2>1, <2>2, <2>3 DEF Standing, CandidateStands
<1>5. ASSUME NEW c \in Commits, NEW k \in Attempts, Package(c, k) PROVE Standing'
  <2>1. Live(c, k) /\ candidate[c] \in Images \cup {None}
    BY <1>5 DEF Package, Live, TypeOK
  <2>2. CASE candidate[c] # None /\ image' = [image EXCEPT ![c][k] = candidate[c]] /\ Go(c, k, "deploy")
    <3>1. image'[c][k] = candidate[c]
      BY <2>1, <2>2, GetsImage
    <3> QED
      BY <1>5, <2>1, <2>2, <3>1, GoesOn DEF Package, registry, runs, Places
  <2>3. CASE Go(c, k, "build") /\ UNCHANGED image
    BY <1>5, <2>1, <2>3, GoesOn DEF Package, registry, runs, Places
  <2> QED
    BY <1>5, <2>2, <2>3 DEF Package
<1>6. ASSUME NEW c \in Commits, NEW k \in Attempts, at[c][k] \in {"build", "restore"},
             NEW d \in Images, candidate[c] \in {None, d},
             candidate' = [candidate EXCEPT ![c] = d],
             image' = [image EXCEPT ![c][k] = d], Go(c, k, "deploy"),
             UNCHANGED <<latest, prune, worked, gap>>
      PROVE  Standing'
  <2>1. /\ at'[c][k] = "deploy" /\ image'[c][k] = d
        /\ \A e \in Commits, i \in Attempts :
             e # c \/ i # k => at'[e][i] = at[e][i] /\ image'[e][i] = image[e][i]
    <3>1. /\ image'[c][k] = d
          /\ \A e \in Commits, i \in Attempts : e # c \/ i # k => image'[e][i] = image[e][i]
      <4>1. d \in Images \cup {None} /\ image' = [image EXCEPT ![c][k] = d]
        BY <1>6
      <4> QED
        BY <4>1, GetsImage, ZenonT(60)
    <3>2. /\ at'[c][k] = "deploy"
          /\ \A e \in Commits, i \in Attempts : e # c \/ i # k => at'[e][i] = at[e][i]
      BY <1>6, Goes, SMTT(40) DEF Places
    <3> QED
      BY <3>1, <3>2
  <2>2. Live(c, k) /\ \A e \in Commits, i \in Attempts : Live(e, i)' => Live(e, i)
    BY <1>6, <2>1 DEF Live
  <2>3. LatestIsLast' /\ HasImage'
    BY <1>6, <2>1, CandidateAssumption DEF Standing, LatestIsLast, HasImage
  <2>4. WorkIsSeen'
    BY <1>6, <2>2 DEF Standing, WorkIsSeen, Pruning
  <2>5. DeletesAlone'
    BY <1>6, <2>1, <2>2 DEF Standing, DeletesAlone
  <2>6. ASSUME NEW e \in Commits, NEW i \in Attempts, at'[e][i] \in {"deploy", "smoke"}
        PROVE  candidate'[e] = image'[e][i] \/ e \in gap
    BY <1>6, <2>1, <2>6 DEF Standing, CandidateStands, HasImage, TypeOK
  <2> QED
    BY <1>6, <2>3, <2>4, <2>5, <2>6 DEF Standing, CandidateStands
<1>7. ASSUME NEW c \in Commits, NEW k \in Attempts, Build(c, k) PROVE Standing'
  BY <1>6, <1>7, NextBuild DEF Build, MayPush, runs, pruning
<1>8. ASSUME NEW c \in Commits, NEW k \in Attempts, Restore(c, k) PROVE Standing'
  <2>1. image[c][k] \in Images
    BY <1>8 DEF Restore, Standing, HasImage, TypeOK
  <2>2. image' = [image EXCEPT ![c][k] = image[c][k]]
    BY <1>8 DEF Restore, TypeOK
  <2>3. candidate' = [candidate EXCEPT ![c] = image[c][k]]
    BY <1>8 DEF Restore, Restorable, TypeOK
  <2> QED
    BY <1>6, <1>8, <2>1, <2>2, <2>3 DEF Restore, Restorable, runs, pruning
<1>9. ASSUME NEW c \in Commits, NEW k \in Attempts, Deploy(c, k) PROVE Standing'
  BY <1>9, GoesOn DEF Deploy, Live, registry, runs, Places, Standing, HasImage, CandidateStands
<1>10. ASSUME NEW c \in Commits, NEW k \in Attempts,
              Rollback(c, k) \/ PromoteFails(c, k) \/ Fail(c, k)
       PROVE  Standing'
  BY <1>10, GoesOn DEF Rollback, PromoteFails, Fail, End, Live, registry, runs, Places
<1>11. ASSUME NEW c \in Commits, NEW k \in Attempts, Promote(c, k) PROVE Standing'
  BY <1>11, GoesOn DEF Promote, Live, runs, Places
<1>12. ASSUME NEW c \in Commits, NEW k \in Attempts, Check(c, k) PROVE Standing'
  <2>1. CASE Allowed(c, k) /\ Go(c, k, "delete")
    <3>1. k \in Nat /\ latest[c] \in Nat
      BY CandidateAssumption DEF TypeOK, Attempts
    <3>2. k = latest[c]
      BY <1>12, <2>1, <3>1 DEF Check, Allowed, Standing, LatestIsLast
    <3> QED
      BY <1>12, <2>1, <3>2, GoesOn DEF Check, Live, registry, runs, Places
  <2>2. CASE End(c, k)
    BY <1>12, <2>2, GoesOn DEF Check, End, Live, registry, runs, Places
  <2> QED
    BY <1>12, <2>1, <2>2 DEF Check
<1>13. ASSUME NEW c \in Commits, NEW k \in Attempts, Delete(c, k) PROVE Standing'
  <2>1. /\ at[c][k] = "delete" /\ at'[c][k] = "ended"
        /\ \A e \in Commits, i \in Attempts : e # c \/ i # k => at'[e][i] = at[e][i]
    BY <1>13, Goes DEF Delete, End, Places
  <2>2. \A e \in Commits, i \in Attempts : Live(e, i)' => Live(e, i)
    BY <2>1 DEF Live
  <2>3. UNCHANGED <<image, latest, prune, worked, gap>>
    BY <1>13 DEF Delete, runs, pruning
  <2>4. LatestIsLast' /\ HasImage' /\ WorkIsSeen' /\ DeletesAlone'
    BY <2>1, <2>2, <2>3 DEF Standing, LatestIsLast, HasImage, WorkIsSeen, DeletesAlone, Pruning
  <2>5. ASSUME NEW e \in Commits, NEW i \in Attempts, at'[e][i] \in {"deploy", "smoke"}
        PROVE  candidate'[e] = image[e][i] \/ e \in gap
    <3>1. CASE e = c
      BY <2>1, <2>5, <3>1 DEF Standing, DeletesAlone, Live
    <3>2. CASE e # c
      BY <1>13, <2>1, <2>5, <3>2 DEF Delete, Standing, CandidateStands, TypeOK
    <3> QED
      BY <3>1, <3>2
  <2> QED
    BY <2>3, <2>4, <2>5 DEF Standing, CandidateStands
<1>14. ASSUME PruneBegin \/ ReadRuns \/ ReadActive \/ ListCandidates \/ PruneEnd PROVE Standing'
  <2>1. UNCHANGED <<candidate, latest, at, image, gap>>
    BY <1>14 DEF PruneBegin, ReadRuns, ReadActive, ListCandidates, PruneEnd, registry, runs
  <2>2. WorkIsSeen'
    BY <1>14, <2>1 DEF PruneBegin, ReadRuns, ReadActive, ListCandidates, PruneEnd, Standing,
                       WorkIsSeen, Pruning, Live
  <2> QED
    BY <2>1, <2>2 DEF Standing, LatestIsLast, HasImage, DeletesAlone, CandidateStands, Live
<1>15. CASE UNCHANGED vars
  BY <1>15 DEF vars, registry, runs, pruning, Standing, LatestIsLast, DeletesAlone, HasImage,
               WorkIsSeen, CandidateStands, Pruning, Live
<1> QED
  BY <1>1, <1>2, <1>3, <1>4, <1>5, <1>7, <1>8, <1>9, <1>10, <1>11, <1>12, <1>13, <1>14, <1>15
     DEF Next

\* What is promoted is what was tested: the candidate stays, but for the
\* windows that are named.
THEOREM WhatIsTestedStands == Spec => []CandidateStands
<1>1. Standing => CandidateStands
  BY DEF Standing
<1> QED
  BY <1>1, InitTyped, StepTyped, InitStands, StepStands, PTL DEF Spec

-----------------------------------------------------------------------------
(***************************************************************************)
(* What is deployed has a tag                                              *)
(***************************************************************************)
\* A digest belongs to the commit it was built from.
Owned ==
  \A c \in Commits :
    /\ candidate[c] # None => candidate[c][1] = c
    /\ \A k \in Attempts : image[c][k] # None => image[c][k][1] = c

\* The one attempt in deploy-release is the one that is tested.
OneDeploys ==
  \A c \in Commits, k \in Attempts :
    at[c][k] = "smoke" => deploying = <<c, k>> /\ deployed = image[c][k]

LEMMA InitOwned == Init => Owned /\ OneDeploys
BY DEF Init, Owned, OneDeploys

\* An attempt that is not tested goes on, perhaps with a digest of its commit.
LEMMA OwnedGoesOn ==
  ASSUME TypeOK, Owned, OneDeploys, NEW c \in Commits, NEW k \in Attempts, NEW p \in Places,
         Go(c, k, p), p # "smoke", at[c][k] # "smoke",
         \/ image' = image
         \/ \E d \in Images : d[1] = c /\ image' = [image EXCEPT ![c][k] = d],
         \/ candidate' = candidate
         \/ \E d \in Images : d[1] = c /\ candidate' = [candidate EXCEPT ![c] = d],
         UNCHANGED <<deploying, deployed>>
  PROVE  Owned' /\ OneDeploys'
<1>1. /\ at'[c][k] = p
      /\ \A d \in Commits, i \in Attempts : d # c \/ i # k => at'[d][i] = at[d][i]
  BY Goes
<1>2. /\ image' = image \/ (image'[c][k] # None => image'[c][k][1] = c)
      /\ \A d \in Commits, i \in Attempts : d # c \/ i # k => image'[d][i] = image[d][i]
  BY GetsImage
<1>3. \A e \in Commits : candidate'[e] # None => candidate'[e][1] = e
  BY DEF TypeOK, Owned
<1>4. Owned'
  BY <1>2, <1>3 DEF Owned
<1>5. OneDeploys'
  BY <1>1, <1>2 DEF OneDeploys
<1> QED
  BY <1>4, <1>5

LEMMA StepOwned ==
  TypeOK /\ Standing /\ Owned /\ OneDeploys /\ [Next]_vars => Owned' /\ OneDeploys'
<1> SUFFICES ASSUME TypeOK, Standing, Owned, OneDeploys, [Next]_vars PROVE Owned' /\ OneDeploys'
  OBVIOUS
<1>1. ASSUME NEW c \in Commits, Trigger(c) PROVE Owned' /\ OneDeploys'
  <2>1. latest'[c] \in Attempts /\ latest'[c] = latest[c] + 1 /\ latest[c] \in Nat
    BY <1>1, NewAttempt DEF TypeOK
  <2>2. at[c][latest'[c]] = "none"
    BY <2>1 DEF Standing, LatestIsLast
  <2>3. UNCHANGED <<candidate, deploying, deployed>>
    BY <1>1 DEF Trigger, registry, gitops
  <2>4. PICK p \in {"package", "restore"} :
           /\ Go(c, latest'[c], p)
           /\ p = "package" => image' = image
           /\ p = "restore" => \E k \in Attempts :
                /\ image[c][k] \in Images
                /\ image' = [image EXCEPT ![c][latest'[c]] = image[c][k]]
    BY <1>1, NewPlace
  <2>5. p \in Places \ {"smoke"}
    BY DEF Places
  <2>6. \/ image' = image
        \/ \E d \in Images : d[1] = c /\ image' = [image EXCEPT ![c][latest'[c]] = d]
    BY <2>4, CandidateAssumption DEF Owned
  <2> QED
    BY <2>1, <2>2, <2>3, <2>4, <2>5, <2>6, OwnedGoesOn
<1>2. ASSUME NEW c \in Commits, Start(c) \/ Conclude(c) PROVE Owned' /\ OneDeploys'
  BY <1>2 DEF Start, Conclude, registry, gitops, Owned, OneDeploys
<1>3. ASSUME NEW c \in Commits, PruneDelete(c) PROVE Owned' /\ OneDeploys'
  BY <1>3 DEF PruneDelete, gitops, Owned, OneDeploys, TypeOK
<1>4. ASSUME NEW c \in Commits, NEW k \in Attempts, Package(c, k) PROVE Owned' /\ OneDeploys'
  <2>1. at[c][k] = "package" /\ UNCHANGED <<candidate, deploying, deployed>>
    BY <1>4 DEF Package, registry, gitops
  <2>2. CASE candidate[c] # None /\ image' = [image EXCEPT ![c][k] = candidate[c]] /\ Go(c, k, "deploy")
    <3>1. candidate[c] \in Images /\ candidate[c][1] = c
      BY <2>2 DEF Owned, TypeOK
    <3> QED
      BY <2>1, <2>2, <3>1, OwnedGoesOn DEF Places
  <2>3. CASE Go(c, k, "build") /\ UNCHANGED image
    BY <2>1, <2>3, OwnedGoesOn DEF Places
  <2> QED
    BY <1>4, <2>2, <2>3 DEF Package
<1>5. ASSUME NEW c \in Commits, NEW k \in Attempts, Build(c, k) PROVE Owned' /\ OneDeploys'
  <2>1. PICK d \in Images : /\ d[1] = c /\ candidate' = [candidate EXCEPT ![c] = d]
                            /\ image' = [image EXCEPT ![c][k] = d]
    BY <1>5, NextBuild
  <2>2. /\ at[c][k] = "build" /\ Go(c, k, "deploy") /\ "deploy" \in Places
        /\ UNCHANGED <<deploying, deployed>>
    BY <1>5 DEF Build, gitops, Places
  <2> QED
    BY <2>1, <2>2, OwnedGoesOn
<1>6. ASSUME NEW c \in Commits, NEW k \in Attempts, Restore(c, k) PROVE Owned' /\ OneDeploys'
  <2>1. image[c][k] \in Images /\ image[c][k][1] = c
    BY <1>6 DEF Restore, Standing, HasImage, TypeOK, Owned
  <2>2. candidate' = candidate \/ candidate' = [candidate EXCEPT ![c] = image[c][k]]
    BY <1>6 DEF Restore, TypeOK
  <2> QED
    BY <1>6, <2>1, <2>2, OwnedGoesOn DEF Restore, gitops, Places
<1>7. ASSUME NEW c \in Commits, NEW k \in Attempts, Deploy(c, k) PROVE Owned' /\ OneDeploys'
  <2>1. /\ at'[c][k] = "smoke"
        /\ \A d \in Commits, i \in Attempts : d # c \/ i # k => at'[d][i] = at[d][i]
    BY <1>7, Goes DEF Deploy, Places
  <2>2. \A d \in Commits, i \in Attempts : at[d][i] # "smoke"
    BY <1>7, CandidateAssumption DEF Deploy, OneDeploys
  <2>3. deploying' = <<c, k>> /\ deployed' = image[c][k] /\ UNCHANGED <<image, candidate>>
    BY <1>7 DEF Deploy, registry
  <2> QED
    BY <2>1, <2>2, <2>3 DEF Owned, OneDeploys
<1>8. ASSUME NEW c \in Commits, NEW k \in Attempts, NEW p \in {"ended", "check"}, Go(c, k, p),
             at[c][k] = "smoke", UNCHANGED <<candidate, image>>
      PROVE  Owned' /\ OneDeploys'
  <2>1. /\ at'[c][k] = p
        /\ \A d \in Commits, i \in Attempts : d # c \/ i # k => at'[d][i] = at[d][i]
    BY <1>8, Goes DEF Places
  <2>2. \A d \in Commits, i \in Attempts : at'[d][i] # "smoke"
    BY <1>8, <2>1 DEF OneDeploys
  <2> QED
    BY <1>8, <2>2 DEF Owned, OneDeploys
<1>9. ASSUME NEW c \in Commits, NEW k \in Attempts,
             Rollback(c, k) \/ Promote(c, k) \/ PromoteFails(c, k)
      PROVE  Owned' /\ OneDeploys'
  BY <1>8, <1>9 DEF Rollback, Promote, PromoteFails, End, registry
<1>10. ASSUME NEW c \in Commits, NEW k \in Attempts, Check(c, k) \/ Fail(c, k)
       PROVE  Owned' /\ OneDeploys'
  BY <1>10, OwnedGoesOn DEF Check, Fail, End, registry, gitops, Places
<1>11. ASSUME NEW c \in Commits, NEW k \in Attempts, Delete(c, k) PROVE Owned' /\ OneDeploys'
  <2>1. /\ at'[c][k] = "ended"
        /\ \A d \in Commits, i \in Attempts : d # c \/ i # k => at'[d][i] = at[d][i]
    BY <1>11, Goes DEF Delete, End, Places
  <2> QED
    BY <1>11, <2>1 DEF Delete, gitops, Owned, OneDeploys, TypeOK
<1>12. ASSUME \/ PruneBegin \/ ReadRuns \/ ReadActive \/ ListCandidates \/ PruneEnd
              \/ UNCHANGED vars
       PROVE  Owned' /\ OneDeploys'
  BY <1>12 DEF PruneBegin, ReadRuns, ReadActive, ListCandidates, PruneEnd, vars, registry,
               gitops, Owned, OneDeploys
<1> QED
  BY <1>1, <1>2, <1>3, <1>4, <1>5, <1>6, <1>7, <1>9, <1>10, <1>11, <1>12 DEF Next

Safe(d) == d = None \/ Tagged(d) \/ d[1] \in gap

\* Neither what is deployed nor what it would be rolled back to is d.
Unused(d) == d # deployed /\ (deploying # None => d # base)

\* A cleanup takes a candidate that is active or was replaced.
CleanupIsSafe ==
  \A c \in Commits, k \in Attempts :
    c \notin gap /\ at[c][k] \in {"check", "delete"} /\ k = latest[c] =>
      candidate[c] = None \/ candidate[c] = active \/ Unused(candidate[c])

\* So does the prune, of the commits that nobody works on.
PruneIsSafe ==
  Pruning => \A c \in Commits : c \notin worked =>
    candidate[c] \in {None} \cup protected \cup blind \/ Unused(candidate[c])

ListIsUnprotected ==
  \A c \in Commits : c \in listed /\ c \notin worked => candidate[c] \notin protected

Guarded ==
  /\ Safe(deployed) /\ (deploying # None => Safe(base))
  /\ CleanupIsSafe /\ PruneIsSafe /\ ListIsUnprotected

LEMMA InitGuarded == Init => Guarded
BY DEF Init, Guarded, Safe, CleanupIsSafe, PruneIsSafe, ListIsUnprotected, Pruning

\* An attempt goes on and no tag, deployment or prune changes.
LEMMA GuardedGoesOn ==
  ASSUME TypeOK, Guarded, NEW c \in Commits, NEW k \in Attempts, NEW p \in Places, Go(c, k, p),
         p # "check", p = "delete" => at[c][k] = "check",
         UNCHANGED <<registry, gitops, latest, pruning, gap>>
  PROVE  Guarded'
<1>1. /\ at'[c][k] = p
      /\ \A d \in Commits, i \in Attempts : d # c \/ i # k => at'[d][i] = at[d][i]
  BY Goes
<1>2. Safe(deployed)' /\ (deploying # None => Safe(base))'
  BY DEF Guarded, Safe, Tagged, registry, gitops
<1>3. CleanupIsSafe'
  BY <1>1 DEF Guarded, CleanupIsSafe, Unused, registry, gitops
<1>4. PruneIsSafe' /\ ListIsUnprotected'
  BY DEF Guarded, PruneIsSafe, ListIsUnprotected, Unused, Pruning, registry, gitops, pruning
<1> QED
  BY <1>2, <1>3, <1>4 DEF Guarded

\* A candidate is built or restored.
LEMMA GuardedTagged ==
  ASSUME TypeOK, Spared, Standing, Guarded,
         NEW c \in Commits, NEW k \in Attempts, NEW d \in Images,
         Go(c, k, "deploy"), at[c][k] \in {"build", "restore"}, candidate[c] \in {None, d},
         candidate' = [candidate EXCEPT ![c] = d],
         UNCHANGED <<active, gitops, latest, pruning, gap>>
  PROVE  Guarded'
<1>1. /\ at'[c][k] = "deploy"
      /\ \A e \in Commits, i \in Attempts : e # c \/ i # k => at'[e][i] = at[e][i]
  BY Goes DEF Places
<1>2. candidate'[c] = d /\ \A e \in Commits : e # c => candidate'[e] = candidate[e]
  BY DEF TypeOK
<1>3. Live(c, k)
  BY DEF Live
<1>4. Safe(deployed)' /\ (deploying # None => Safe(base))'
  BY <1>2 DEF Guarded, Safe, Tagged, gitops
<1>5. CleanupIsSafe'
  BY <1>1, <1>2, <1>3 DEF Guarded, CleanupIsSafe, Unused, Standing, DeletesAlone, gitops
<1>6. PruneIsSafe'
  BY <1>2, <1>3 DEF Guarded, PruneIsSafe, Standing, WorkIsSeen, Unused, Pruning, gitops, pruning
<1>7. ListIsUnprotected'
  BY <1>2, <1>3 DEF Guarded, ListIsUnprotected, Spared, Standing, WorkIsSeen, Pruning, pruning
<1> QED
  BY <1>4, <1>5, <1>6, <1>7 DEF Guarded

LEMMA StepGuarded ==
  TypeOK /\ Spared /\ Standing /\ Owned /\ OneDeploys /\ Guarded /\ [Next]_vars => Guarded'
<1> SUFFICES ASSUME TypeOK, Spared, Standing, Owned, OneDeploys, Guarded, [Next]_vars
             PROVE  Guarded'
  OBVIOUS
<1>1. ASSUME NEW c \in Commits, Trigger(c) PROVE Guarded'
  <2>1. latest'[c] \in Attempts /\ \A d \in Commits : d # c => latest'[d] = latest[d]
    BY <1>1, NewAttempt
  <2>2. PICK p \in {"package", "restore"} : Go(c, latest'[c], p)
    BY <1>1, NewPlace
  <2>3. /\ at'[c][latest'[c]] = p
        /\ \A d \in Commits, i \in Attempts : d # c \/ i # latest'[c] => at'[d][i] = at[d][i]
    BY <2>1, <2>2, Goes DEF Places
  <2>4. /\ UNCHANGED <<candidate, active, deployed, deploying, base, prune, protected, listed, blind>>
        /\ gap \subseteq gap' /\ worked \subseteq worked'
    BY <1>1 DEF Trigger, Works, registry, gitops
  <2>5. CleanupIsSafe'
    BY <2>1, <2>3, <2>4 DEF Guarded, CleanupIsSafe, Unused
  <2> QED
    BY <2>4, <2>5 DEF Guarded, Safe, Tagged, PruneIsSafe, ListIsUnprotected, Unused, Pruning
<1>2. ASSUME NEW c \in Commits, Start(c) \/ Conclude(c) PROVE Guarded'
  BY <1>2 DEF Start, Conclude, registry, gitops, pruning, Guarded, Safe, Tagged, CleanupIsSafe,
              PruneIsSafe, ListIsUnprotected, Unused, Pruning
<1>3. ASSUME NEW c \in Commits, PruneDelete(c) PROVE Guarded'
  <2>1. /\ UNCHANGED <<active, deployed, deploying, base, at, latest, prune, worked, protected, blind>>
        /\ prune = "delete" /\ c \in listed /\ listed' = listed \ {c} /\ gap \subseteq gap'
        /\ c \in worked \/ candidate[c] \in blind => c \in gap'
    BY <1>3 DEF PruneDelete, gitops, runs
  <2>2. candidate'[c] = None /\ \A e \in Commits : e # c => candidate'[e] = candidate[e]
    BY <1>3 DEF PruneDelete, TypeOK
  <2>3. candidate[c] # None => (c \in gap' /\ candidate[c][1] = c) \/ Unused(candidate[c])
    BY <2>1 DEF Owned, Guarded, PruneIsSafe, ListIsUnprotected, Pruning
  <2>4. Safe(deployed)' /\ (deploying # None => Safe(base))'
    BY <2>1, <2>2, <2>3 DEF Guarded, Safe, Tagged, Unused
  <2>5. CleanupIsSafe' /\ PruneIsSafe' /\ ListIsUnprotected'
    BY <2>1, <2>2 DEF Guarded, CleanupIsSafe, PruneIsSafe, ListIsUnprotected, Unused, Pruning
  <2> QED
    BY <2>4, <2>5 DEF Guarded
<1>4. ASSUME NEW c \in Commits, NEW k \in Attempts, Package(c, k) PROVE Guarded'
  BY <1>4, GuardedGoesOn DEF Package, runs, Places
<1>5. ASSUME NEW c \in Commits, NEW k \in Attempts, Build(c, k) PROVE Guarded'
  <2>1. PICK d \in Images : candidate' = [candidate EXCEPT ![c] = d]
    BY <1>5, NextBuild
  <2> QED
    BY <1>5, <2>1, GuardedTagged DEF Build, MayPush, runs
<1>6. ASSUME NEW c \in Commits, NEW k \in Attempts, Restore(c, k) PROVE Guarded'
  <2>1. image[c][k] \in Images
    BY <1>6 DEF Restore, Standing, HasImage, TypeOK
  <2>2. candidate' = [candidate EXCEPT ![c] = image[c][k]]
    BY <1>6 DEF Restore, Restorable, TypeOK
  <2> QED
    BY <1>6, <2>1, <2>2, GuardedTagged DEF Restore, Restorable, runs
<1>7. ASSUME NEW c \in Commits, NEW k \in Attempts, Deploy(c, k) PROVE Guarded'
  <2>1. /\ at'[c][k] = "smoke"
        /\ \A e \in Commits, i \in Attempts : e # c \/ i # k => at'[e][i] = at[e][i]
    BY <1>7, Goes DEF Deploy, Places
  <2>2. /\ at[c][k] = "deploy" /\ deployed' = image[c][k] /\ base' = deployed
        /\ UNCHANGED <<candidate, active, latest, prune, protected, listed, worked, blind, gap>>
    BY <1>7 DEF Deploy, registry, runs, pruning
  <2>3. Live(c, k) /\ deployed'[1] = c
    BY <2>2 DEF Live, Standing, HasImage, Owned
  <2>4. Safe(deployed)' /\ Safe(base)'
    BY <2>2, <2>3 DEF Guarded, Safe, Tagged, Standing, CandidateStands
  <2>5. \A e \in Commits : e # c /\ candidate[e] # None /\ Unused(candidate[e]) => Unused(candidate[e])'
    BY <2>2, <2>3 DEF Owned, Unused
  <2>6. CleanupIsSafe'
    BY <2>1, <2>2, <2>3, <2>5 DEF Guarded, CleanupIsSafe, Standing, DeletesAlone
  <2>7. PruneIsSafe'
    BY <2>2, <2>3, <2>5 DEF Guarded, PruneIsSafe, Standing, WorkIsSeen, Pruning
  <2>8. ListIsUnprotected'
    BY <2>2 DEF Guarded, ListIsUnprotected
  <2> QED
    BY <2>4, <2>6, <2>7, <2>8 DEF Guarded
<1>8. ASSUME NEW c \in Commits, NEW k \in Attempts, Rollback(c, k) PROVE Guarded'
  <2>1. /\ at'[c][k] = "ended"
        /\ \A e \in Commits, i \in Attempts : e # c \/ i # k => at'[e][i] = at[e][i]
    BY <1>8, Goes DEF Rollback, End, Places
  <2>2. /\ deployed' = base /\ deploying' = None
        /\ UNCHANGED <<candidate, active, base, latest, prune, protected, listed, worked, blind, gap>>
    BY <1>8 DEF Rollback, registry, runs, pruning
  <2>3. deploying # None
    BY <1>8, CandidateAssumption DEF Rollback, OneDeploys
  <2>4. \A e \in Commits : Unused(candidate[e]) => Unused(candidate[e])'
    BY <2>2, <2>3 DEF Unused
  <2>5. Safe(deployed)' /\ ~(deploying # None)'
    BY <2>2, <2>3 DEF Guarded, Safe, Tagged
  <2>6. CleanupIsSafe' /\ PruneIsSafe' /\ ListIsUnprotected'
    BY <2>1, <2>2, <2>4 DEF Guarded, CleanupIsSafe, PruneIsSafe, ListIsUnprotected, Pruning
  <2> QED
    BY <2>5, <2>6 DEF Guarded
<1>9. ASSUME NEW c \in Commits, NEW k \in Attempts, Promote(c, k) \/ PromoteFails(c, k)
      PROVE  Guarded'
  <2>1. \/ at'[c][k] = "ended"
        \/ at'[c][k] = "check" /\ active' = candidate[c]
    BY <1>9, Goes DEF Promote, PromoteFails, End, Places
  <2>2. \A e \in Commits, i \in Attempts : e # c \/ i # k => at'[e][i] = at[e][i]
    BY <1>9, Goes DEF Promote, PromoteFails, End, Places
  <2>3. /\ at[c][k] = "smoke" /\ deploying' = None /\ gap \subseteq gap'
        /\ UNCHANGED <<candidate, deployed, latest, prune, protected, listed, worked, blind>>
    BY <1>9 DEF Promote, PromoteFails, runs, pruning
  <2>4. Live(c, k) /\ deployed = image[c][k] /\ deployed # None /\ deployed[1] = c
    BY <2>3 DEF Live, Standing, HasImage, Owned, OneDeploys
  <2>5. \A e \in Commits : e # c /\ candidate[e] # None => Unused(candidate[e])'
    BY <2>3, <2>4 DEF Owned, Unused
  <2>6. Safe(deployed)' /\ ~(deploying # None)'
    BY <2>3, <2>4 DEF Safe, Tagged, Standing, CandidateStands
  <2>7. CleanupIsSafe'
    BY <2>1, <2>2, <2>3, <2>4, <2>5 DEF CleanupIsSafe, Standing, DeletesAlone
  <2>8. PruneIsSafe'
    BY <2>3, <2>4, <2>5 DEF PruneIsSafe, Standing, WorkIsSeen, Pruning
  <2>9. ListIsUnprotected'
    BY <2>3 DEF Guarded, ListIsUnprotected
  <2> QED
    BY <2>6, <2>7, <2>8, <2>9 DEF Guarded
<1>10. ASSUME NEW c \in Commits, NEW k \in Attempts, Check(c, k) \/ Fail(c, k) PROVE Guarded'
  BY <1>10, GuardedGoesOn DEF Check, Fail, End, runs, Places
<1>11. ASSUME NEW c \in Commits, NEW k \in Attempts, Delete(c, k) PROVE Guarded'
  <2>1. /\ at[c][k] = "delete" /\ at'[c][k] = "ended"
        /\ \A e \in Commits, i \in Attempts : e # c \/ i # k => at'[e][i] = at[e][i]
    BY <1>11, Goes DEF Delete, End, Places
  <2>2. candidate'[c] = None /\ \A e \in Commits : e # c => candidate'[e] = candidate[e]
    BY <1>11 DEF Delete, TypeOK
  <2>3. UNCHANGED <<active, deployed, deploying, base, latest, prune, protected, listed, worked, blind, gap>>
    BY <1>11 DEF Delete, gitops, runs, pruning
  <2>4. candidate[c] # None => \/ c \in gap /\ candidate[c][1] = c
                               \/ candidate[c] = active \/ Unused(candidate[c])
    BY <2>1 DEF Owned, Guarded, CleanupIsSafe, Standing, DeletesAlone
  <2>5. Safe(deployed)' /\ (deploying # None => Safe(base))'
    BY <2>2, <2>3, <2>4 DEF Guarded, Safe, Tagged, Unused
  <2>6. CleanupIsSafe' /\ PruneIsSafe'
    BY <2>1, <2>2, <2>3 DEF Guarded, CleanupIsSafe, PruneIsSafe, Unused, Pruning
  <2>7. None \notin protected
    BY CandidateAssumption DEF TypeOK
  <2>8. ListIsUnprotected'
    BY <2>2, <2>3, <2>7 DEF Guarded, ListIsUnprotected
  <2> QED
    BY <2>5, <2>6, <2>8 DEF Guarded
<1>12. ASSUME PruneBegin \/ ReadRuns \/ ReadActive \/ ListCandidates \/ PruneEnd PROVE Guarded'
  <2>1. UNCHANGED <<registry, gitops, runs, at, gap>>
    BY <1>12 DEF PruneBegin, ReadRuns, ReadActive, ListCandidates, PruneEnd
  <2>2. Safe(deployed)' /\ (deploying # None => Safe(base))' /\ CleanupIsSafe'
    BY <2>1 DEF Guarded, Safe, Tagged, CleanupIsSafe, Unused, registry, gitops, runs
  <2>3. PruneIsSafe'
    BY <1>12, <2>1 DEF PruneBegin, ReadRuns, ReadActive, ListCandidates, PruneEnd, Digests,
                       Guarded, PruneIsSafe, Unused, Pruning, registry, gitops
  <2>4. ListIsUnprotected'
    BY <1>12, <2>1 DEF PruneBegin, ReadRuns, ReadActive, ListCandidates, PruneEnd, Prunable,
                       Spared, Guarded, ListIsUnprotected, registry
  <2> QED
    BY <2>2, <2>3, <2>4 DEF Guarded
<1>13. CASE UNCHANGED vars
  BY <1>13 DEF vars, registry, gitops, runs, pruning, Guarded, Safe, Tagged, CleanupIsSafe,
               PruneIsSafe, ListIsUnprotected, Unused, Pruning
<1> QED
  BY <1>1, <1>2, <1>3, <1>4, <1>5, <1>6, <1>7, <1>8, <1>9, <1>10, <1>11, <1>12, <1>13 DEF Next

\* What is deployed keeps a tag, but for the windows that are named.
THEOREM WhatIsDeployedIsTagged == Spec => []DeployedIsTagged
<1>1. Guarded => DeployedIsTagged
  BY DEF Guarded, Safe, DeployedIsTagged
<1> QED
  BY <1>1, InitTyped, StepTyped, InitSpared, StepSpared, InitStands, StepStands, InitOwned,
     StepOwned, InitGuarded, StepGuarded, PTL DEF Spec
=============================================================================
