--------------------------- MODULE ArgoWaitProofs ---------------------------
(***************************************************************************)
(* What ArgoWait keeps, for any number of applications and revisions and   *)
(* any timeout.                                                            *)
(***************************************************************************)
EXTENDS ArgoWait, FiniteSetTheorems, TLAPS

\* What the health of a status may be is one of the values of the field.
LEMMA HealthValues ==
  /\ DOMAIN Health = {"healthy", "starting", "broken"}
  /\ Health["healthy"] = {"Healthy"}
  /\ Health["starting"] = {"Progressing"}
  /\ Health["broken"] = {"Progressing", "Degraded"}
BY DEF Health

-----------------------------------------------------------------------------
(***************************************************************************)
(* Types, with the bound of the round counter                              *)
(***************************************************************************)
InTheLoop == at \in {"refresh", "poll"} => round < Polls

Typed == TypeOK /\ InTheLoop

LEMMA InitTyped == Init => Typed
<1> SUFFICES ASSUME Init PROVE Typed
  OBVIOUS
<1> USE ArgoAssumption
<1>1. 0 \in Revisions /\ 0 \in Nat /\ 0 \in 0..Polls /\ RefreshEvery \in Nat
  BY DEF Revisions
<1>2. status \in [Apps -> Statuses]
  <2>1. [revision : {0}, synced : {TRUE}, health : {"Healthy", "Degraded"}, running : {0},
         phase : {"Succeeded", "Running", "Failed"}, operation : {0}, history : {{0}}]
          \subseteq Statuses
    BY <1>1 DEF Statuses
  <2> QED
    BY <2>1 DEF Init
<1>3. /\ live \in [Apps -> Revisions] /\ op \in [Apps -> Revisions \cup {NoOp}]
      /\ workload \in [Apps -> DOMAIN Health] /\ asked \in [Apps -> BOOLEAN]
  BY <1>1, HealthValues DEF Init
<1>4. /\ observed \in [Apps -> BOOLEAN] /\ strikes \in [Apps -> Nat] /\ lag \in [Apps -> Nat]
      /\ sick \in [Apps -> 0..Polls] /\ since \in Nat /\ arrived \subseteq Apps
  BY <1>1 DEF Init
<1>5. lost \in [Apps -> Nat]
  BY <1>1 DEF Init
<1> QED
  BY <1>1, <1>2, <1>3, <1>4, <1>5 DEF Init, Typed, TypeOK, InTheLoop

\* A refresh is asked for, or lost, or neither.
LEMMA AskTyped ==
  ASSUME TypeOK, NEW a \in Apps, Ask(a) \/ AskByGet(a) \/ LoseRefresh(a)
  PROVE  asked' \in [Apps -> BOOLEAN] /\ lag' \in [Apps -> Nat] /\ lost' \in [Apps -> Nat]
<1>1. CASE Ask(a)
  BY <1>1 DEF TypeOK, Ask
<1>2. CASE AskByGet(a)
  BY <1>1, <1>2 DEF TypeOK, AskByGet, delay
<1>3. CASE LoseRefresh(a)
  BY <1>3 DEF TypeOK, LoseRefresh
<1> QED
  BY <1>1, <1>2, <1>3

\* One field after the other, a status remains one.
LEMMA StatusTyped ==
  ASSUME NEW s \in Statuses, NEW r \in Revisions, NEW l \in Revisions, NEW b \in BOOLEAN,
         NEW h \in {"Healthy", "Progressing", "Degraded"},
         NEW p \in {"Succeeded", "Running", "Failed"}
  PROVE  /\ [s EXCEPT !.phase = p] \in Statuses
         /\ [s EXCEPT !.phase = p, !.operation = r] \in Statuses
         /\ [s EXCEPT !.phase = p, !.history = @ \cup {r}] \in Statuses
         /\ [s EXCEPT !.revision = r, !.health = h, !.running = l, !.synced = b] \in Statuses
BY DEF Statuses

LEMMA StepTyped == Typed /\ [Next]_vars => Typed'
<1> SUFFICES ASSUME Typed, [Next]_vars PROVE Typed'
  OBVIOUS
<1> USE ArgoAssumption, HealthValues DEF Typed, TypeOK, InTheLoop
<1>1. CASE Commit
  BY <1>1 DEF Commit, Goto, fixed, seen, timer, delay, Revisions
<1>2. CASE TerminateFails
  BY <1>2 DEF TerminateFails, Goto, env, fixed, seen, timer, delay, Ended
<1>3. CASE BeginRound
  <2>1. CASE InTime
    <3>1. since' \in Nat /\ refreshing' \in BOOLEAN
      BY <1>3, <2>1 DEF BeginRound, Due
    <3>2. round < Polls /\ todo' \subseteq Apps /\ at' \in {"refresh", "poll"}
      BY <1>3, <2>1 DEF BeginRound, InTime, Unseen, Goto
    <3> QED
      BY <1>3, <3>1, <3>2 DEF BeginRound, env, fixed, seen, delay
  <2>2. CASE ~InTime
    BY <1>3, <2>2 DEF BeginRound, Goto, env, fixed, seen, delay, Ended
  <2> QED
    BY <2>1, <2>2
<1>4. CASE BeginPolls
  BY <1>4 DEF BeginPolls, Goto, env, fixed, seen, timer, delay
<1>5. CASE EndRound
  BY <1>5 DEF EndRound, Goto, env, fixed, seen, Unseen, Ended
<1>6. ASSUME NEW a \in Apps, TerminateOperation(a) PROVE Typed'
  <2>1. status' \in [Apps -> Statuses]
    <3>1. PICK p \in {status[a].phase, "Failed"} :
            status' = [status EXCEPT ![a] = [@ EXCEPT !.phase = p]]
      BY <1>6 DEF TerminateOperation
    <3>2. p \in {"Succeeded", "Running", "Failed"}
      BY DEF Statuses
    <3> QED
      BY <3>1, <3>2, StatusTyped
  <2>2. op' \in [Apps -> Revisions \cup {NoOp}] /\ todo' \subseteq Apps
    BY <1>6 DEF TerminateOperation
  <2> QED
    BY <1>6, <2>1, <2>2 DEF TerminateOperation, fixed, seen, timer, delay
<1>7. ASSUME NEW a \in Apps, Drain(a) PROVE Typed'
  BY <1>7 DEF Drain, env, fixed, seen, timer, delay
<1>8. ASSUME NEW a \in Apps, RequestRefresh(a) PROVE Typed'
  <2>1. /\ asked' \in [Apps -> BOOLEAN] /\ lag' \in [Apps -> Nat] /\ lost' \in [Apps -> Nat]
        /\ todo' \subseteq Apps
        /\ at' \in {"refresh", "failed"} /\ why' \in {"none", "argo", "status", "pods"}
    BY <1>8, AskTyped DEF RequestRefresh, Goto, delay
  <2> QED
    BY <1>8, <2>1 DEF RequestRefresh, env, fixed, seen, timer, delay, Ended
<1>9. ASSUME NEW a \in Apps, Unreadable(a) PROVE Typed'
  <2>1. /\ asked' \in [Apps -> BOOLEAN] /\ lag' \in [Apps -> Nat] /\ lost' \in [Apps -> Nat]
        /\ todo' \subseteq Apps
    BY <1>9, AskTyped DEF Unreadable
  <2> QED
    BY <1>9, <2>1 DEF Unreadable, Goto, env, fixed, seen, timer, delay, Ended
<1>10. ASSUME NEW a \in Apps, Poll(a) PROVE Typed'
  <2>1. /\ observed' \in [Apps -> BOOLEAN]
        /\ asked' \in [Apps -> BOOLEAN] /\ lag' \in [Apps -> Nat] /\ lost' \in [Apps -> Nat]
    BY <1>10, AskTyped DEF Poll, Has, ShowsImage
  <2>2. /\ strikes' \in [Apps -> Nat] /\ sick' \in [Apps -> 0..Polls]
        /\ todo' \subseteq Apps /\ pending' \subseteq Apps
        /\ at' \in {"poll", "failed"} /\ why' \in {"none", "argo", "status", "pods"}
    BY <1>10 DEF Poll, Accept, Goto
  <2> QED
    BY <1>10, <2>1, <2>2 DEF Poll, env, fixed, timer, delay, Ended
<1>11. CASE PushByOthers
  <2>1. head' \in Revisions
    BY <1>11 DEF PushByOthers, Revisions
  <2> QED
    BY <1>11, <2>1 DEF PushByOthers, job, fixed, seen, timer, delay
<1>12. ASSUME NEW a \in Rolling, Refresh(a) PROVE Typed'
  <2>1. status' \in [Apps -> Statuses]
    <3>1. PICK r \in {head} \cup {status[a].revision}, h \in Health[workload[a]] :
            status' = [status EXCEPT ![a] = Compared(a, r, h)]
      BY <1>12 DEF Refresh
    <3>2. r \in Revisions /\ h \in {"Healthy", "Progressing", "Degraded"} /\ live[a] \in Revisions
      BY DEF Statuses
    <3>3. Compared(a, r, h) \in Statuses
      BY <3>2, StatusTyped, ZenonT(60) DEF Compared
    <3> QED
      BY <3>1, <3>3
  <2>2. asked' \in [Apps -> BOOLEAN]
    BY <1>12 DEF Refresh
  <2> QED
    BY <1>12, <2>1, <2>2 DEF Refresh, job, fixed, seen, timer, delay
<1>13. ASSUME NEW a \in Rolling, StartOperation(a) PROVE Typed'
  <2>1. status[a].revision \in Revisions
    BY DEF Statuses
  <2>2. status' \in [Apps -> Statuses] /\ op' \in [Apps -> Revisions \cup {NoOp}]
    BY <1>13, <2>1, StatusTyped DEF StartOperation
  <2> QED
    BY <1>13, <2>2 DEF StartOperation, job, fixed, seen, timer, delay
<1>14. ASSUME NEW a \in Rolling, FinishOperation(a) PROVE Typed'
  <2>1. op[a] \in Revisions
    BY <1>14 DEF FinishOperation
  <2>2. status' \in [Apps -> Statuses]
    <3>1. status[a] \in Statuses
      OBVIOUS
    <3>2. Succeeded(a) \in Statuses /\ [status[a] EXCEPT !.phase = "Failed"] \in Statuses
      BY <2>1, <3>1, StatusTyped DEF Succeeded
    <3>3. \/ status' = [status EXCEPT ![a] = Succeeded(a)]
          \/ status' = [status EXCEPT ![a] = [@ EXCEPT !.phase = "Failed"]]
      BY <1>14 DEF FinishOperation
    <3> QED
      BY <3>2, <3>3
  <2>3. /\ live' \in [Apps -> Revisions] /\ workload' \in [Apps -> DOMAIN Health]
        /\ op' \in [Apps -> Revisions \cup {NoOp}] /\ arrived' \subseteq Apps
    BY <1>14, <2>1 DEF FinishOperation, Arrive
  <2> QED
    BY <1>14, <2>2, <2>3 DEF FinishOperation, job, fixed, seen, timer, delay
<1>15. ASSUME NEW a \in Rolling, WorkloadChanges(a) PROVE Typed'
  BY <1>15 DEF WorkloadChanges, Arrive, job, fixed, seen, timer, delay
<1>16. CASE UNCHANGED vars
  BY <1>16 DEF vars, env, job, fixed, seen, timer, delay
<1> QED
  BY <1>1, <1>2, <1>3, <1>4, <1>5, <1>6, <1>7, <1>8, <1>9, <1>10, <1>11, <1>12, <1>13, <1>14,
     <1>15, <1>16 DEF Next, JobStep

\* The variables keep their types.
THEOREM TypeCorrect == Spec => []TypeOK
<1>1. Spec => []Typed
  BY InitTyped, StepTyped, PTL DEF Spec
<1>2. Typed => TypeOK
  BY DEF Typed
<1> QED
  BY <1>1, <1>2, PTL

-----------------------------------------------------------------------------
(***************************************************************************)
(* Pods.  A strike that is counted in this round is the first one or comes *)
(* after one of an earlier round, because no application is polled twice   *)
(* in a round, and the count starts again when the pods do.                *)
(***************************************************************************)
NoStrikeYet == at \in {"terminate", "commit"} => \A a \in Apps : strikes[a] = 0
PollsPending == at \in {"refresh", "poll"} => todo \subseteq pending
FirstStrike == \A a \in Apps : strikes[a] = 0 => sick[a] = Polls
StruckBefore ==
  \A a \in Apps : strikes[a] >= 1 =>
    /\ at \in {"round", "refresh"} => sick[a] < round
    /\ at = "poll" => sick[a] <= round
    /\ at = "poll" /\ a \in todo => sick[a] < round
PodsEndIt == why = "pods" => at = "failed"

Struck == NoStrikeYet /\ PollsPending /\ FirstStrike /\ StruckBefore /\ PodsEndIt /\ BlipIsNotFatal

LEMMA InitStruck == Init => Struck
BY DEF Init, Struck, NoStrikeYet, PollsPending, FirstStrike, StruckBefore, PodsEndIt, BlipIsNotFatal

LEMMA StepStruck == Typed /\ Struck /\ [Next]_vars => Struck'
<1> SUFFICES ASSUME Typed, Struck, [Next]_vars PROVE Struck'
  OBVIOUS
<1> USE DEF Struck, NoStrikeYet, PollsPending, FirstStrike, StruckBefore, PodsEndIt, BlipIsNotFatal
<1>0. /\ round \in Nat /\ strikes \in [Apps -> Nat] /\ sick \in [Apps -> Nat]
      /\ todo \subseteq Apps /\ pending \subseteq Apps
  BY ArgoAssumption DEF Typed, TypeOK
<1>1. CASE Commit
  BY <1>0, <1>1 DEF Commit, Goto, fixed, seen, timer, delay
<1>2. CASE TerminateFails
  BY <1>0, <1>2 DEF TerminateFails, Goto, fixed, seen, timer, delay
<1>3. CASE BeginRound
  BY <1>0, <1>3 DEF BeginRound, InTime, Due, Unseen, Goto, fixed, seen
<1>4. CASE BeginPolls
  BY <1>0, <1>4 DEF BeginPolls, Goto, fixed, seen, timer, delay
<1>5. CASE EndRound
  BY <1>0, <1>5 DEF EndRound, Goto, fixed, seen
<1>6. ASSUME NEW a \in Apps, TerminateOperation(a) PROVE Struck'
  BY <1>0, <1>6 DEF TerminateOperation, fixed, seen, timer, delay
<1>7. ASSUME NEW a \in Apps, Drain(a) PROVE Struck'
  BY <1>0, <1>7 DEF Drain, fixed, seen, timer, delay
<1>8. ASSUME NEW a \in Apps, RequestRefresh(a) PROVE Struck'
  BY <1>0, <1>8 DEF RequestRefresh, Goto, fixed, seen, timer, delay
<1>9. ASSUME NEW a \in Apps, Unreadable(a) PROVE Struck'
  BY <1>0, <1>9 DEF Unreadable, Goto, fixed, seen, timer, delay
<1>10. ASSUME NEW a \in Apps, Poll(a) PROVE Struck'
  <2>0. at = "poll" /\ a \in todo /\ a \in pending /\ round' = round /\ round < Polls
    BY <1>10 DEF Poll, timer, Typed, InTheLoop
  <2>1. CASE ShowsFailure(status[a]) /\ at' = "failed" /\ why' = "status" /\ UNCHANGED <<strikes, sick>>
    BY <2>0, <2>1
  <2>2. CASE UNCHANGED <<strikes, sick>> /\ Accept(a)
    BY <1>0, <2>0, <2>2 DEF Accept
  <2>3. ASSUME NEW failing \in PodsFail(a),
               strikes' = [strikes EXCEPT ![a] = IF failing THEN @ + 1 ELSE 0],
               sick' = [sick EXCEPT ![a] = IF ~failing THEN Polls
                                           ELSE IF @ = Polls THEN round ELSE @],
               IF failing /\ TooMany(strikes[a] + 1)
               THEN Goto("failed") /\ why' = "pods" /\ UNCHANGED <<todo, pending>>
               ELSE Accept(a)
        PROVE  Struck'
    <3>1. CASE failing /\ TooMany(strikes[a] + 1)
      <4>1. strikes'[a] >= 2 /\ strikes[a] >= 1 /\ sick'[a] = sick[a]
        BY <1>0, <2>3, <3>1, <2>0 DEF TooMany
      <4>2. sick'[a] < round' /\ a \in pending'
        BY <1>0, <2>0, <2>3, <3>1, <4>1
      <4> QED
        BY <1>0, <2>0, <2>3, <3>1, <4>1, <4>2 DEF Goto
    <3>2. CASE ~(failing /\ TooMany(strikes[a] + 1))
      <4>1. Accept(a)
        BY <2>3, <3>2
      <4>2. todo' = todo \ {a} /\ todo' \subseteq pending' /\ at' = at /\ why' = why
        BY <2>0, <4>1 DEF Accept
      <4>3. ASSUME NEW b \in Apps, strikes'[b] >= 1
            PROVE  sick'[b] <= round' /\ (b \in todo' => sick'[b] < round')
        <5>1. CASE b = a
          <6>1. failing /\ strikes[a] = 0
            BY <1>0, <2>3, <3>2, <4>3, <5>1 DEF TooMany
          <6>2. sick'[a] = round
            BY <1>0, <2>3, <6>1
          <6> QED
            BY <1>0, <2>0, <4>2, <5>1, <6>2
        <5>2. CASE b # a
          BY <1>0, <2>0, <2>3, <4>2, <4>3, <5>2
        <5> QED
          BY <5>1, <5>2
      <4>4. FirstStrike'
        BY <1>0, <2>3
      <4> QED
        BY <2>0, <4>2, <4>3, <4>4
    <3> QED
      BY <3>1, <3>2
  <2> QED
    BY <1>10, <2>1, <2>2, <2>3 DEF Poll, Goto
<1>11. CASE PushByOthers
  BY <1>11 DEF PushByOthers, job, fixed, seen, timer, delay
<1>12. ASSUME NEW a \in Rolling, Refresh(a) PROVE Struck'
  BY <1>12 DEF Refresh, job, fixed, seen, timer, delay
<1>13. ASSUME NEW a \in Rolling, StartOperation(a) PROVE Struck'
  BY <1>13 DEF StartOperation, job, fixed, seen, timer, delay
<1>14. ASSUME NEW a \in Rolling, FinishOperation(a) PROVE Struck'
  BY <1>14 DEF FinishOperation, job, fixed, seen, timer, delay
<1>15. ASSUME NEW a \in Rolling, WorkloadChanges(a) PROVE Struck'
  BY <1>15 DEF WorkloadChanges, job, fixed, seen, timer, delay
<1>16. CASE UNCHANGED vars
  BY <1>16 DEF vars, job, fixed, seen, timer, delay
<1> QED
  BY <1>1, <1>2, <1>3, <1>4, <1>5, <1>6, <1>7, <1>8, <1>9, <1>10, <1>11, <1>12, <1>13, <1>14,
     <1>15, <1>16 DEF Next, JobStep

\* A container that fails for less than a poll does not end the wait.
THEOREM BlipTolerated == Spec => []BlipIsNotFatal
<1>1. Spec => [](Typed /\ Struck)
  BY InitTyped, InitStruck, StepTyped, StepStruck, PTL DEF Spec
<1>2. Struck => BlipIsNotFatal
  BY DEF Struck
<1> QED
  BY <1>1, <1>2, PTL

-----------------------------------------------------------------------------
(***************************************************************************)
(* Refreshes.  Until the next EndRound an application that has not shown   *)
(* Target lags no more than the timer and an interval for every refresh of *)
(* its own that was lost, or it is still to be asked in this round.        *)
(***************************************************************************)
Granted(n) == RefreshEvery * n

LEMMA OneIntervalMore ==
  ASSUME NEW n \in Nat
  PROVE  /\ Granted(n) \in Nat
         /\ Granted(n + 1) = Granted(n) + RefreshEvery
         /\ RefreshEvery * (1 + n) = RefreshEvery + Granted(n)
BY ArgoAssumption DEF Granted

NoLagYet == at \in {"terminate", "commit"} => \A a \in Apps : lag[a] = 0
TimerBounded ==
  /\ since <= RefreshEvery
  /\ at \in {"refresh", "poll"} => since < RefreshEvery
LagFollowsTimer ==
  \A a \in Unseen :
    /\ at = "round" => lag[a] <= since + Granted(lost[a])
    /\ at = "refresh" => mode = "kubectl" /\ (lag[a] <= since + Granted(lost[a]) \/ a \in todo)
    /\ at = "poll" => \/ lag[a] <= since + Granted(lost[a])
                      \/ mode = "http" /\ refreshing /\ a \in todo
LagGranted == \A a \in Unseen : lag[a] <= RefreshEvery + Granted(lost[a])

Asked == NoLagYet /\ TimerBounded /\ LagFollowsTimer /\ LagGranted

LEMMA InitAsked == Init => Asked
<1> SUFFICES ASSUME Init PROVE Asked
  OBVIOUS
<1>1. \A a \in Apps : Granted(lost[a]) \in Nat
  BY OneIntervalMore DEF Init
<1> QED
  BY <1>1, ArgoAssumption
  DEF Init, Asked, NoLagYet, TimerBounded, LagFollowsTimer, LagGranted, Unseen

LEMMA StepAsked == Typed /\ Asked /\ [Next]_vars => Asked'
<1> SUFFICES ASSUME Typed, Asked, [Next]_vars PROVE Asked'
  OBVIOUS
<1> USE DEF Asked, NoLagYet, TimerBounded, LagFollowsTimer, LagGranted, Unseen
<1>0. /\ since \in Nat /\ lag \in [Apps -> Nat] /\ observed \in [Apps -> BOOLEAN]
      /\ todo \subseteq Apps /\ pending \subseteq Apps
      /\ RefreshEvery \in Nat \ {0} /\ mode \in {"kubectl", "http"} /\ lost \in [Apps -> Nat]
  BY ArgoAssumption DEF Typed, TypeOK
<1>00. \A n \in Nat : Granted(n) \in Nat /\ Granted(n + 1) = Granted(n) + RefreshEvery
  BY OneIntervalMore
<1>1. CASE Commit
  BY <1>0, <1>00, <1>1 DEF Commit, Goto, fixed, seen, timer, delay
<1>2. CASE TerminateFails
  BY <1>0, <1>00, <1>2 DEF TerminateFails, Goto, fixed, seen, timer, delay
<1>3. CASE BeginRound
  <2>1. UNCHANGED <<lag, lost, pending, observed, mode>>
    BY <1>3 DEF BeginRound, fixed, seen, delay
  <2>2. CASE InTime /\ Due
    BY <1>0, <1>00, <1>3, <2>1, <2>2 DEF BeginRound, Goto
  <2>3. CASE InTime /\ ~Due
    BY <1>0, <1>00, <1>3, <2>1, <2>3 DEF BeginRound, Due, Goto
  <2>4. CASE ~InTime
    BY <1>0, <1>00, <1>3, <2>1, <2>4 DEF BeginRound, Goto
  <2> QED
    BY <2>2, <2>3, <2>4
<1>4. CASE BeginPolls
  BY <1>0, <1>00, <1>4 DEF BeginPolls, Goto, fixed, seen, timer, delay
<1>5. CASE EndRound
  BY <1>0, <1>00, <1>5 DEF EndRound, Goto, fixed, seen
<1>6. ASSUME NEW a \in Apps, TerminateOperation(a) PROVE Asked'
  BY <1>0, <1>00, <1>6 DEF TerminateOperation, fixed, seen, timer, delay
<1>7. ASSUME NEW a \in Apps, Drain(a) PROVE Asked'
  BY <1>0, <1>00, <1>7 DEF Drain, fixed, seen, timer, delay
<1>8. ASSUME NEW a \in Apps, RequestRefresh(a) PROVE Asked'
  BY <1>0, <1>00, <1>8 DEF RequestRefresh, Ask, Goto, fixed, seen, timer, delay
<1>9. ASSUME NEW a \in Apps, Unreadable(a) PROVE Asked'
  <2>1. /\ at = "poll" /\ a \in todo /\ at' \in {"poll", "failed"}
        /\ at' = "poll" => todo' = todo \ {a}
        /\ UNCHANGED <<since, refreshing, mode, pending, observed>>
    BY <1>9 DEF Unreadable, Goto, timer, fixed, seen
  <2>2. CASE AskByGet(a)
    <3>1. /\ \A b \in Apps : b # a => lag'[b] = lag[b] /\ lost'[b] = lost[b]
          /\ (lag'[a] = 0 /\ lost'[a] = 0) \/ (lag'[a] = lag[a] /\ lost'[a] = lost[a])
          /\ GetAsks(a) => lag'[a] = 0 /\ lost'[a] = 0
      BY <1>0, <2>2 DEF AskByGet, Ask, delay
    <3> QED
      BY <1>0, <1>00, <2>1, <3>1 DEF GetAsks
  <2>3. CASE LoseRefresh(a)
    <3>1. /\ \A b \in Apps : b # a => lost'[b] = lost[b]
          /\ lost'[a] = lost[a] + 1 /\ lag' = lag /\ ~observed[a]
      BY <1>0, <2>3 DEF LoseRefresh, GetAsks
    <3>2. a \in pending => lag[a] <= Granted(lost'[a])
      BY <1>0, <1>00, <3>1
    <3> QED
      BY <1>0, <1>00, <2>1, <3>1, <3>2
  <2> QED
    BY <1>9, <2>2, <2>3 DEF Unreadable
<1>10. ASSUME NEW a \in Apps, Poll(a) PROVE Asked'
  <2>1. /\ at = "poll" /\ at' \in {"poll", "failed"}
        /\ pending' \subseteq pending
        /\ at' = "poll" => todo' = todo \ {a}
    BY <1>0, <1>00, <1>10 DEF Poll, Accept, Goto
  <2>2. \A b \in Apps : observed[b] => observed'[b]
    BY <1>0, <1>00, <1>10 DEF Poll, Has, ShowsImage
  <2>3. UNCHANGED <<since, refreshing, mode>>
    BY <1>10 DEF Poll, timer, delay, fixed
  <2>4. /\ \A b \in Apps : b # a => lag'[b] = lag[b] /\ lost'[b] = lost[b]
        /\ (lag'[a] = 0 /\ lost'[a] = 0) \/ (lag'[a] = lag[a] /\ lost'[a] = lost[a])
        /\ GetAsks(a) => lag'[a] = 0 /\ lost'[a] = 0
    BY <1>0, <1>10 DEF Poll, AskByGet, Ask, delay
  <2> QED
    BY <1>0, <1>00, <2>1, <2>2, <2>3, <2>4 DEF GetAsks
<1>11. CASE PushByOthers
  BY <1>11 DEF PushByOthers, job, fixed, seen, timer, delay
<1>12. ASSUME NEW a \in Rolling, Refresh(a) PROVE Asked'
  BY <1>12 DEF Refresh, job, fixed, seen, timer, delay
<1>13. ASSUME NEW a \in Rolling, StartOperation(a) PROVE Asked'
  BY <1>13 DEF StartOperation, job, fixed, seen, timer, delay
<1>14. ASSUME NEW a \in Rolling, FinishOperation(a) PROVE Asked'
  BY <1>14 DEF FinishOperation, job, fixed, seen, timer, delay
<1>15. ASSUME NEW a \in Rolling, WorkloadChanges(a) PROVE Asked'
  BY <1>15 DEF WorkloadChanges, job, fixed, seen, timer, delay
<1>16. CASE UNCHANGED vars
  BY <1>16 DEF vars, job, fixed, seen, timer, delay
<1> QED
  BY <1>1, <1>2, <1>3, <1>4, <1>5, <1>6, <1>7, <1>8, <1>9, <1>10, <1>11, <1>12, <1>13, <1>14,
     <1>15, <1>16 DEF Next, JobStep

\* No application that has not shown Target is put off by the others: it waits
\* for one interval, and for one more with every refresh of its own that was lost.
THEOREM RefreshesGoOn == Spec => []KeepsAsking
<1>1. Spec => [](Typed /\ Asked)
  BY InitTyped, InitAsked, StepTyped, StepAsked, PTL DEF Spec
<1>2. Typed /\ Asked => KeepsAsking
  <2> SUFFICES ASSUME Typed, Asked, NEW a \in pending, ~observed[a]
               PROVE  lag[a] <= RefreshEvery * (1 + lost[a])
    BY DEF KeepsAsking
  <2>1. lost[a] \in Nat /\ lag[a] <= RefreshEvery + Granted(lost[a])
    BY DEF Typed, TypeOK, Asked, LagGranted, Unseen
  <2> QED
    BY <2>1, OneIntervalMore
<1> QED
  BY <1>1, <1>2, PTL

-----------------------------------------------------------------------------
(***************************************************************************)
(* Delivery.  A status that would be accepted belongs to an application on *)
(* which Target has arrived: only an operation for Target, or for a later  *)
(* commit, brings Target into the status, and the comparison in it was     *)
(* made with such a commit.                                                *)
(***************************************************************************)
HeadIsFirst == at \in {"terminate", "commit"} => head = 0
ComparedWithBranch == \A a \in Apps : status[a].revision <= head
OperationIsShown == \A a \in Apps : op[a] # NoOp => status[a].operation = op[a]
ShownIsCompared ==
  \A a \in Apps : Target = status[a].operation \/ Target \in status[a].history
                    => status[a].revision >= Target
DeliveredArrived == \A a \in Apps : Delivered(a) => a \in arrived
ReadyArrived == \A a \in Apps : IsReady(a, status[a]) => a \in arrived
AcceptedArrived ==
  /\ at \in {"round", "refresh", "poll", "ok"} => \A a \in Apps : a \in pending \/ a \in arrived
  /\ at = "ok" => pending = {}

Arrived ==
  /\ HeadIsFirst /\ ComparedWithBranch /\ OperationIsShown /\ ShownIsCompared
  /\ DeliveredArrived /\ ReadyArrived /\ AcceptedArrived

LEMMA InitArrived == Init => Arrived
<1> SUFFICES ASSUME Init PROVE Arrived
  OBVIOUS
<1>1. \A a \in Apps :
        /\ status[a].revision = 0 /\ status[a].operation = 0 /\ status[a].history = {0}
        /\ status[a].running = 0 /\ live[a] = 0
        /\ op[a] \in {NoOp, 0} /\ status[a].health \in Health[workload[a]]
        /\ workload[a] \in {"healthy", "broken"}
  BY DEF Init
<1>2. HeadIsFirst /\ ComparedWithBranch /\ OperationIsShown /\ ShownIsCompared
  BY <1>1, ArgoAssumption
  DEF Init, HeadIsFirst, ComparedWithBranch, OperationIsShown, ShownIsCompared, Revisions
<1>3. DeliveredArrived /\ AcceptedArrived
  BY DEF Init, DeliveredArrived, AcceptedArrived
<1>4. ASSUME NEW a \in Apps, IsReady(a, status[a]) PROVE a \in arrived
  <2>1. workload[a] = "healthy"
    BY <1>1, <1>4, HealthValues DEF IsReady
  <2>2. CASE Has(status[a], Target)
    BY <1>1, <1>3, <2>1, <2>2 DEF Has, Delivered, DeliveredArrived
  <2>3. CASE ShowsImage(a, status[a])
    BY <1>1, <1>3, <2>1, <2>3 DEF ShowsImage, Delivered, DeliveredArrived
  <2> QED
    BY <1>4, <2>2, <2>3 DEF IsReady
<1> QED
  BY <1>2, <1>3, <1>4 DEF Arrived, ReadyArrived

\* Steps that change neither an application nor the cluster.
LEMMA QuietArrived ==
  ASSUME Arrived, UNCHANGED <<live, workload, op, status, arrived, expected>>,
         HeadIsFirst', ComparedWithBranch', AcceptedArrived'
  PROVE  Arrived'
BY DEF Arrived, OperationIsShown, ShownIsCompared, DeliveredArrived, ReadyArrived, Delivered,
       IsReady, Has, ShowsImage

LEMMA StepArrived == Typed /\ Arrived /\ [Next]_vars => Arrived'
<1> SUFFICES ASSUME Typed, Arrived, [Next]_vars PROVE Arrived'
  OBVIOUS
<1> USE DEF HeadIsFirst, ComparedWithBranch, AcceptedArrived
<1>0. /\ status \in [Apps -> Statuses] /\ head \in Nat /\ Target \in Nat \ {0}
      /\ \A a \in Apps : status[a].revision \in Nat
      /\ HeadIsFirst /\ ComparedWithBranch /\ AcceptedArrived
  BY ArgoAssumption DEF Typed, TypeOK, Arrived, Statuses, Revisions
<1>1. CASE Commit
  BY <1>0, <1>1, QuietArrived DEF Commit, Goto, fixed
<1>2. CASE TerminateFails
  BY <1>0, <1>2, QuietArrived DEF TerminateFails, Goto, env, fixed
<1>3. CASE BeginRound
  BY <1>0, <1>3, QuietArrived DEF BeginRound, Goto, env, fixed
<1>4. CASE BeginPolls
  BY <1>0, <1>4, QuietArrived DEF BeginPolls, Goto, env, fixed
<1>5. CASE EndRound
  BY <1>0, <1>5, QuietArrived DEF EndRound, Goto, env, fixed
<1>6. ASSUME NEW a \in Apps, TerminateOperation(a) PROVE Arrived'
  <2>1. /\ op' = [op EXCEPT ![a] = NoOp]
        /\ UNCHANGED <<head, live, workload, arrived, at, expected, pending>>
    BY <1>6 DEF TerminateOperation, fixed
  <2>2. /\ \A b \in Apps : /\ status'[b].revision = status[b].revision
                           /\ status'[b].synced = status[b].synced
                           /\ status'[b].health = status[b].health
                           /\ status'[b].running = status[b].running
                           /\ status'[b].operation = status[b].operation
                           /\ status'[b].history = status[b].history
    BY <1>0, <1>6 DEF TerminateOperation, Statuses
  <2>3. \A b \in Apps : op'[b] # NoOp => op'[b] = op[b]
    BY <2>1 DEF Typed, TypeOK
  <2> QED
    BY <1>0, <2>1, <2>2, <2>3
    DEF Arrived, OperationIsShown, ShownIsCompared, DeliveredArrived, ReadyArrived, Delivered,
        IsReady, Has, ShowsImage
<1>7. ASSUME NEW a \in Apps, Drain(a) PROVE Arrived'
  BY <1>0, <1>7, QuietArrived DEF Drain, env, fixed
<1>8. ASSUME NEW a \in Apps, RequestRefresh(a) PROVE Arrived'
  BY <1>0, <1>8, QuietArrived DEF RequestRefresh, Goto, env, fixed
<1>9. ASSUME NEW a \in Apps, Unreadable(a) PROVE Arrived'
  BY <1>0, <1>9, QuietArrived DEF Unreadable, Goto, env, fixed
<1>10. ASSUME NEW a \in Apps, Poll(a) PROVE Arrived'
  <2>1. at = "poll" /\ UNCHANGED env /\ UNCHANGED fixed
    BY <1>10 DEF Poll
  <2>2. \/ at' = "failed"
        \/ at' = at /\ pending' = IF IsReady(a, status[a]) THEN pending \ {a} ELSE pending
    BY <1>10 DEF Poll, Accept, Goto
  <2>3. AcceptedArrived'
    BY <1>0, <2>1, <2>2 DEF Arrived, ReadyArrived, env
  <2> QED
    BY <1>0, <2>1, <2>2, <2>3, QuietArrived DEF env, fixed
<1>11. CASE PushByOthers
  <2>1. /\ Target <= head /\ head' = head + 1
        /\ UNCHANGED <<live, workload, op, status, arrived, expected, at, pending>>
    BY <1>11 DEF PushByOthers, job, fixed
  <2>2. HeadIsFirst' /\ ComparedWithBranch' /\ AcceptedArrived'
    BY <1>0, <2>1
  <2> QED
    BY <2>1, <2>2, QuietArrived
<1>12. ASSUME NEW a \in Rolling, Refresh(a) PROVE Arrived'
  <2>0. a \in Apps
    BY ArgoAssumption
  <2>1. PICK r \in {head} \cup {status[a].revision}, h \in Health[workload[a]] :
          status' = [status EXCEPT ![a] = Compared(a, r, h)]
    BY <1>12 DEF Refresh
  <2>2. UNCHANGED <<head, live, workload, op, arrived, at, pending, expected>>
    BY <1>12 DEF Refresh, job, fixed
  <2>3. /\ status'[a].revision = r /\ status'[a].health = h /\ status'[a].running = live[a]
        /\ status'[a].synced = (Content[a][live[a]] = Content[a][r])
        /\ status'[a].operation = status[a].operation /\ status'[a].history = status[a].history
    BY <1>0, <2>0, <2>1 DEF Compared, Statuses
  <2>4. \A b \in Apps : b # a => status'[b] = status[b]
    BY <1>0, <2>1
  <2>5. r <= head /\ r >= status[a].revision /\ r \in Revisions
    <3>1. head \in Revisions /\ status[a].revision \in Revisions
      BY <2>0 DEF Typed, TypeOK, Statuses
    <3>2. r = head \/ r = status[a].revision
      BY <2>1
    <3> QED
      BY <1>0, <2>0, <3>1, <3>2
  <2>6. ComparedWithBranch'
    BY <1>0, <2>2, <2>3, <2>4, <2>5
  <2>7. OperationIsShown' /\ DeliveredArrived'
    BY <2>2, <2>3, <2>4 DEF Arrived, OperationIsShown, DeliveredArrived, Delivered
  <2>8. ShownIsCompared'
    BY <1>0, <2>0, <2>3, <2>4, <2>5 DEF Arrived, ShownIsCompared
  <2>9. ASSUME IsReady(a, status'[a]) PROVE a \in arrived
    <3>1. workload[a] = "healthy"
      BY <2>0, <2>3, <2>9, HealthValues DEF IsReady, Typed, TypeOK
    <3>2. CASE Has(status'[a], Target)
      <4>1. r >= Target
        BY <1>0, <2>0, <2>3, <2>5, <2>8, <3>2 DEF Has, ShownIsCompared
      <4>2. Content[a][live[a]] = Content[a][Target]
        BY <2>0, <2>3, <2>5, <2>9, <4>1, OthersCommitElsewhere DEF IsReady
      <4> QED
        BY <2>0, <3>1, <4>2 DEF Delivered, DeliveredArrived, Arrived
    <3>3. CASE ShowsImage(a, status'[a])
      BY <2>0, <2>3, <3>1, <3>3 DEF ShowsImage, Delivered, DeliveredArrived, Arrived
    <3> QED
      BY <2>9, <3>2, <3>3 DEF IsReady
  <2>10. ReadyArrived'
    BY <2>2, <2>4, <2>9 DEF Arrived, ReadyArrived, IsReady, Has, ShowsImage
  <2> QED
    BY <1>0, <2>2, <2>6, <2>7, <2>8, <2>10 DEF Arrived
<1>13. ASSUME NEW a \in Rolling, StartOperation(a) PROVE Arrived'
  <2>0. a \in Apps
    BY ArgoAssumption
  <2>1. UNCHANGED <<head, live, workload, arrived, at, pending, expected>>
    BY <1>13 DEF StartOperation, job, fixed
  <2>2. /\ ~status[a].synced /\ status'[a].synced = status[a].synced
        /\ status'[a].revision = status[a].revision
        /\ status'[a].operation = status[a].revision /\ status'[a].history = status[a].history
        /\ op'[a] = status[a].revision
    BY <1>0, <1>13, <2>0 DEF StartOperation, Statuses, Typed, TypeOK
  <2>3. \A b \in Apps : b # a => status'[b] = status[b] /\ op'[b] = op[b]
    BY <1>0, <1>13 DEF StartOperation, Typed, TypeOK
  <2>4. ComparedWithBranch' /\ OperationIsShown' /\ DeliveredArrived'
    BY <1>0, <2>0, <2>1, <2>2, <2>3 DEF Arrived, OperationIsShown, DeliveredArrived, Delivered
  <2>5. ShownIsCompared'
    BY <1>0, <2>0, <2>2, <2>3 DEF Arrived, ShownIsCompared
  <2>6. ReadyArrived'
    BY <2>1, <2>2, <2>3 DEF Arrived, ReadyArrived, IsReady, Has, ShowsImage
  <2> QED
    BY <1>0, <2>1, <2>4, <2>5, <2>6 DEF Arrived
<1>14. ASSUME NEW a \in Rolling, FinishOperation(a) PROVE Arrived'
  <2>0. a \in Apps
    BY ArgoAssumption
  <2>1. UNCHANGED <<head, at, pending, expected>> /\ Arrive /\ op' = [op EXCEPT ![a] = NoOp]
    BY <1>14 DEF FinishOperation, job, fixed
  <2>2. op[a] # NoOp /\ op[a] = status[a].operation
    BY <1>14, <2>0 DEF FinishOperation, Arrived, OperationIsShown
  <2>3. /\ status'[a].revision = status[a].revision /\ status'[a].synced = status[a].synced
        /\ status'[a].health = status[a].health /\ status'[a].running = status[a].running
        /\ status'[a].operation = status[a].operation
        /\ status'[a].history \subseteq status[a].history \cup {op[a]}
    <3>1. \/ status' = [status EXCEPT ![a] = Succeeded(a)]
          \/ status' = [status EXCEPT ![a] = [@ EXCEPT !.phase = "Failed"]]
      BY <1>14 DEF FinishOperation
    <3>2. status'[a] = Succeeded(a) \/ status'[a] = [status[a] EXCEPT !.phase = "Failed"]
      BY <1>0, <2>0, <3>1
    <3>3. status[a] \in Statuses
      BY <1>0, <2>0
    <3> QED
      BY <3>2, <3>3 DEF Succeeded, Statuses
  <2>4. \A b \in Apps : b # a => status'[b] = status[b]
    BY <1>0, <1>14 DEF FinishOperation
  <2>5. \A b \in Apps : op'[b] # NoOp => b # a /\ op'[b] = op[b]
    BY <2>1 DEF Typed, TypeOK
  <2>6. ComparedWithBranch' /\ OperationIsShown'
    BY <1>0, <2>1, <2>3, <2>4, <2>5 DEF Arrived, OperationIsShown
  <2>7. DeliveredArrived' /\ arrived \subseteq arrived'
    BY <2>1 DEF Arrive, DeliveredArrived
  <2>8. ShownIsCompared'
    BY <1>0, <2>0, <2>2, <2>3, <2>4 DEF Arrived, ShownIsCompared
  <2>9. \A b \in Apps : IsReady(b, status[b])' => IsReady(b, status[b])
    BY <2>1, <2>2, <2>3, <2>4 DEF IsReady, Has, ShowsImage
  <2>10. ReadyArrived'
    BY <2>7, <2>9 DEF Arrived, ReadyArrived
  <2> QED
    BY <1>0, <2>1, <2>6, <2>7, <2>8, <2>10 DEF Arrived
<1>15. ASSUME NEW a \in Rolling, WorkloadChanges(a) PROVE Arrived'
  <2>1. UNCHANGED <<head, op, status, at, pending, expected>> /\ Arrive
    BY <1>15 DEF WorkloadChanges, job, fixed
  <2>2. DeliveredArrived' /\ arrived \subseteq arrived'
    BY <2>1 DEF Arrive, DeliveredArrived
  <2> QED
    BY <1>0, <2>1, <2>2
    DEF Arrived, OperationIsShown, ShownIsCompared, ReadyArrived, IsReady, Has, ShowsImage
<1>16. CASE UNCHANGED vars
  BY <1>0, <1>16, QuietArrived DEF vars, env, job, fixed
<1> QED
  BY <1>1, <1>2, <1>3, <1>4, <1>5, <1>6, <1>7, <1>8, <1>9, <1>10, <1>11, <1>12, <1>13, <1>14,
     <1>15, <1>16 DEF Next, JobStep

\* argo-wait exits 0 only if Target was live and healthy on every application.
THEOREM WaitedForTarget == Spec => []SuccessWasDelivered
<1>1. Spec => [](Typed /\ Arrived)
  BY InitTyped, InitArrived, StepTyped, StepArrived, PTL DEF Spec
<1>2. Typed /\ Arrived => SuccessWasDelivered
  BY DEF Typed, TypeOK, Arrived, AcceptedArrived, SuccessWasDelivered
<1> QED
  BY <1>1, <1>2, PTL

-----------------------------------------------------------------------------
(***************************************************************************)
(* How long the wait can go on                                             *)
(***************************************************************************)
\* What a poll of the loop takes at most: its begin, one request to refresh and
\* one read for each application, and the two steps between and after them.
PerRound == 2 * Cardinality(Apps) + 3

\* The steps the job has left at most.
Left ==
  CASE at = "terminate" -> Polls * PerRound + Cardinality(todo) + Cardinality(pending) + 2
    [] at = "commit" -> Polls * PerRound + 2
    [] at = "round" -> (Polls - round) * PerRound + 1
    [] at = "refresh" -> (Polls - round - 1) * PerRound + Cardinality(todo) + Cardinality(Apps) + 3
    [] at = "poll" -> (Polls - round - 1) * PerRound + Cardinality(todo) + 2
    [] OTHER -> 0

\* Every step of the job brings it nearer to its end, and nothing that others do
\* takes it farther away: neither the cluster nor the branch, an application that
\* is asked again, or one that cannot be read.
ComesToAnEnd == [][IF JobStep THEN Left' < Left ELSE Left' = Left]_vars

\* The loop is at its start until the commit, and the job drains what it stopped.
NoRoundYet == at \in {"terminate", "commit"} => round = 0

LEMMA InitNoRound == Init => NoRoundYet
BY DEF Init, NoRoundYet

LEMMA StepNoRound == Typed /\ NoRoundYet /\ [Next]_vars => NoRoundYet'
<1> SUFFICES ASSUME Typed, NoRoundYet, [Next]_vars PROVE NoRoundYet'
  OBVIOUS
<1>1. at' \in {"terminate", "commit"} => at' = at /\ round' = round
  BY DEF Next, JobStep, Commit, TerminateFails, BeginRound, BeginPolls, EndRound,
         TerminateOperation, Drain, RequestRefresh, Unreadable, Poll, Accept, Goto,
         PushByOthers, Refresh, StartOperation, FinishOperation, WorkloadChanges,
         vars, job, timer, delay
<1> QED
  BY <1>1 DEF NoRoundYet

\* The number of applications, and of those that are left in a loop over them.
LEMMA CountOfSome ==
  ASSUME IsFiniteSet(Apps), NEW some \in SUBSET Apps
  PROVE  /\ Cardinality(Apps) \in Nat /\ Cardinality(some) \in Nat
         /\ Cardinality(some) <= Cardinality(Apps)
         /\ \A a \in some : Cardinality(some \ {a}) = Cardinality(some) - 1
<1>1. IsFiniteSet(some)
  BY FS_Subset
<1> QED
  BY <1>1, FS_Subset, FS_CardinalityType, FS_RemoveElement

\* One round more is PerRound steps more.
LEMMA OneRoundMore ==
  ASSUME NEW n \in Nat, NEW k \in Nat
  PROVE  (n + 1) * k = n * k + k /\ n * k \in Nat
OBVIOUS

\* A job that comes to an end has no step left.
LEMMA NothingLeft ==
  ASSUME at \in Ended
  PROVE  Left = 0
BY DEF Left, Ended

\* A job that has not ended has a step left.
LEMMA SomethingLeft ==
  ASSUME IsFiniteSet(Apps), Typed
  PROVE  /\ Left \in Nat
         /\ at \notin Ended => Left > 0
<1> DEFINE Rest(n) == n * PerRound
<1>1. /\ Cardinality(Apps) \in Nat /\ Cardinality(todo) \in Nat /\ Cardinality(pending) \in Nat
      /\ Polls \in Nat /\ round \in 0 .. Polls /\ PerRound \in Nat
  BY CountOfSome, ArgoAssumption DEF Typed, TypeOK, PerRound
<1>2. \A n \in Nat : Rest(n) \in Nat
  BY <1>1, OneRoundMore
<1>3. at \in {"refresh", "poll"} => Polls - round - 1 \in Nat
  BY <1>1 DEF Typed, InTheLoop
<1>4. Polls - round \in Nat
  BY <1>1
<1> HIDE DEF Rest
<1>5. CASE at \in {"terminate", "commit", "round", "refresh", "poll"}
  <2>1. Left = CASE at = "terminate" -> Rest(Polls) + Cardinality(todo) + Cardinality(pending) + 2
                 [] at = "commit" -> Rest(Polls) + 2
                 [] at = "round" -> Rest(Polls - round) + 1
                 [] at = "refresh" -> Rest(Polls - round - 1) + Cardinality(todo) + Cardinality(Apps) + 3
                 [] at = "poll" -> Rest(Polls - round - 1) + Cardinality(todo) + 2
                 [] OTHER -> 0
    BY DEF Left, Rest
  <2> QED
    BY <1>1, <1>2, <1>3, <1>4, <1>5, <2>1
<1>6. CASE at \in Ended
  BY <1>6, NothingLeft
<1> QED
  BY <1>5, <1>6 DEF Typed, TypeOK

\* What does not concern the job takes nothing away.
LEMMA OthersTakeNothing ==
  ASSUME UNCHANGED job
  PROVE  Left' = Left
BY DEF job, timer, delay, Left

\* Every step of the job takes one away at least.
LEMMA JobStepTakes ==
  ASSUME IsFiniteSet(Apps), Typed, NoRoundYet, JobStep
  PROVE  Left' < Left
<1> DEFINE Rest(n) == n * PerRound
           N == Cardinality(Apps)
<1>1. /\ N \in Nat /\ Cardinality(todo) \in Nat /\ Cardinality(pending) \in Nat
      /\ Cardinality(pending) <= N
      /\ Polls \in Nat /\ round \in 0 .. Polls /\ PerRound = 2 * N + 3 /\ PerRound \in Nat
  BY CountOfSome, ArgoAssumption DEF Typed, TypeOK, PerRound
<1>2. \A n \in Nat : Rest(n) \in Nat /\ Rest(n + 1) = Rest(n) + PerRound
  BY <1>1, OneRoundMore
<1>3. Cardinality({}) = 0
  BY FS_EmptySet
<1>4. /\ at = "terminate" => Left = Rest(Polls) + Cardinality(todo) + Cardinality(pending) + 2
      /\ at = "commit" => Left = Rest(Polls) + 2
      /\ at = "round" => Left = Rest(Polls - round) + 1
      /\ at = "refresh" => Left = Rest(Polls - round - 1) + Cardinality(todo) + N + 3
      /\ at = "poll" => Left = Rest(Polls - round - 1) + Cardinality(todo) + 2
  BY DEF Left
<1>5. /\ at' = "terminate" => Left' = Rest(Polls) + Cardinality(todo') + Cardinality(pending') + 2
      /\ at' = "round" => Left' = Rest(Polls - round') + 1
      /\ at' = "refresh" => Left' = Rest(Polls - round' - 1) + Cardinality(todo') + N + 3
      /\ at' = "poll" => Left' = Rest(Polls - round' - 1) + Cardinality(todo') + 2
      /\ at' \in Ended => Left' = 0
  BY DEF Left, Ended, PerRound
<1>6. Left \in Nat /\ (at \notin Ended => Left > 0)
  BY SomethingLeft
<1> HIDE DEF Rest
<1>7. CASE Commit
  <2>1. round = 0 /\ round' = 0 /\ at' = "round" /\ Polls - 0 = Polls
    BY <1>1, <1>7 DEF Commit, NoRoundYet, Goto, timer, delay
  <2>2. Left' = Rest(Polls) + 1 /\ Left >= Rest(Polls) + 2 /\ Rest(Polls) \in Nat
    BY <1>1, <1>2, <1>4, <1>5, <1>7, <2>1 DEF Commit
  <2> QED
    BY <1>6, <2>1, <2>2
<1>8. CASE at \notin Ended /\ at' \in Ended
  BY <1>5, <1>6, <1>8
<1>9. CASE BeginRound /\ at' \notin Ended
  <2>1. /\ at = "round" /\ round < Polls /\ round' = round /\ at' \in {"refresh", "poll"}
        /\ todo' \subseteq Apps
    BY <1>9 DEF BeginRound, InTime, Goto, Ended, Unseen, Typed, TypeOK
  <2>2. PICK n \in Nat : n = Polls - round - 1 /\ n + 1 = Polls - round
    BY <1>1, <2>1
  <2>3. Cardinality(todo') \in Nat /\ Cardinality(todo') <= N
    BY <2>1, CountOfSome
  <2>4. Left = Rest(n) + PerRound + 1
    BY <1>2, <1>4, <2>1, <2>2
  <2>5. Left' <= Rest(n) + 2 * N + 3 /\ Rest(n) \in Nat /\ Left' \in Nat
    BY <1>1, <1>2, <1>5, <2>1, <2>2, <2>3
  <2> QED
    BY <1>1, <2>4, <2>5
<1>10. CASE BeginPolls
  <2>1. at = "refresh" /\ todo = {} /\ at' = "poll" /\ todo' = pending /\ round' = round
    BY <1>10 DEF BeginPolls, Goto, timer, delay
  <2>2. PICK n \in Nat : n = Polls - round - 1
    BY <1>1, <2>1 DEF Typed, InTheLoop
  <2> QED
    BY <1>1, <1>2, <1>3, <1>4, <1>5, <2>1, <2>2
<1>11. CASE EndRound /\ at' \notin Ended
  <2>1. at = "poll" /\ todo = {} /\ at' = "round" /\ round' = round + 1
    BY <1>11 DEF EndRound, Goto, Ended
  <2>2. PICK n \in Nat : n = Polls - round - 1 /\ n = Polls - round'
    BY <1>1, <2>1 DEF Typed, InTheLoop
  <2> QED
    BY <1>2, <1>3, <1>4, <1>5, <2>1, <2>2
<1>12. ASSUME NEW a \in Apps, TerminateOperation(a) \/ Drain(a) PROVE Left' < Left
  <2>1. /\ at = "terminate" /\ at' = "terminate"
        /\ \/ a \in todo /\ todo' = todo \ {a} /\ pending' = pending
           \/ a \in pending /\ pending' = pending \ {a} /\ todo' = todo
    BY <1>12 DEF TerminateOperation, Drain
  <2>2. \/ Cardinality(todo') = Cardinality(todo) - 1 /\ pending' = pending
        \/ Cardinality(pending') = Cardinality(pending) - 1 /\ todo' = todo
    BY <2>1, CountOfSome DEF Typed, TypeOK
  <2> QED
    BY <1>1, <1>2, <1>4, <1>5, <2>1, <2>2
<1>13. ASSUME NEW a \in Apps, RequestRefresh(a) \/ Unreadable(a) \/ Poll(a), at' \notin Ended
       PROVE  Left' < Left
  <2>1. /\ at \in {"refresh", "poll"} /\ at' = at /\ round' = round
        /\ a \in todo /\ todo' = todo \ {a}
    BY <1>13 DEF RequestRefresh, Unreadable, Poll, Accept, Goto, Ended, timer, delay
  <2>2. Cardinality(todo') = Cardinality(todo) - 1
    BY <2>1, CountOfSome DEF Typed, TypeOK
  <2>3. PICK n \in Nat : n = Polls - round - 1
    BY <1>1, <2>1 DEF Typed, InTheLoop
  <2> QED
    BY <1>1, <1>2, <1>4, <1>5, <2>1, <2>2, <2>3
<1>14. CASE TerminateFails
  BY <1>8, <1>14 DEF TerminateFails, Goto, Ended
<1>15. at \notin Ended
  BY DEF JobStep, Commit, TerminateFails, BeginRound, BeginPolls, EndRound,
         TerminateOperation, Drain, RequestRefresh, Unreadable, Poll, Ended
<1> QED
  BY <1>7, <1>8, <1>9, <1>10, <1>11, <1>12, <1>13, <1>14, <1>15 DEF JobStep

\* The wait comes to an end after a number of steps of its own, which only the
\* timeout and the number of applications bound: this is the part of WaitEnds that
\* does not depend on fairness.
THEOREM WaitIsBounded ==
  ASSUME IsFiniteSet(Apps)
  PROVE  Spec => ComesToAnEnd
<1>1. Spec => [](Typed /\ NoRoundYet)
  BY InitTyped, InitNoRound, StepTyped, StepNoRound, PTL DEF Spec
<1>2. Typed /\ NoRoundYet /\ [Next]_vars => [IF JobStep THEN Left' < Left ELSE Left' = Left]_vars
  <2> SUFFICES ASSUME Typed, NoRoundYet, Next, ~JobStep PROVE Left' = Left
    BY JobStepTakes
  <2>1. UNCHANGED job
    BY DEF Next, PushByOthers, Refresh, StartOperation, FinishOperation, WorkloadChanges
  <2> QED
    BY <2>1, OthersTakeNothing
<1> QED
  BY <1>1, <1>2, PTL DEF Spec, ComesToAnEnd
=============================================================================
