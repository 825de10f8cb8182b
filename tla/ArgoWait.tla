------------------------------ MODULE ArgoWait ------------------------------
(***************************************************************************)
(* argocd.py: argo-terminate and argo-wait of one deploy job, against      *)
(* applications whose refreshes, operations and workloads go on by         *)
(* themselves.  The job stops the operations of an earlier deployment      *)
(* (or not), commits Target to the deployment branch, and polls until      *)
(* every application shows it, one of them shows a failure, or the time is *)
(* over.  What it reads is a status: it may be older than the commit, and  *)
(* revision, health and operation in it were written at different times.   *)
(***************************************************************************)
EXTENDS Naturals

CONSTANTS
  Apps,          \* the applications waited for
  Rolling,       \* those whose controller acts; the others stay as they are
  LastRevision,  \* bound: commits of the deployment branch are 0..LastRevision
  Target,        \* the commit the job waits for
  Content,       \* Content[a][r]: the manifests of a at revision r
  Image,         \* Image[a][r]: the image those manifests name
  Polls,         \* the timeout, in polls
  RefreshEvery,  \* REFRESH_INTERVAL_SECONDS, in polls
  Modes,         \* "kubectl" with a KUBECONFIG, else "http"
  NoOp           \* the application has no operation

Revisions == 0..LastRevision

ASSUME ArgoAssumption ==
  /\ LastRevision \in Nat /\ Target \in Revisions \ {0}
  /\ Rolling \subseteq Apps
  /\ Polls \in Nat /\ RefreshEvery \in Nat \ {0}
  /\ Modes \subseteq {"kubectl", "http"}
  /\ NoOp \notin Revisions

\* Later commits of the branch are of other projects (see GitOpsSnapshot):
\* they leave the manifests that Target has put there.
ASSUME OthersCommitElsewhere ==
  \A a \in Apps, r \in Revisions : r >= Target => Content[a][r] = Content[a][Target]

VARIABLES
  head,               \* the deployment branch
  live, workload,     \* cluster: what is applied, and how it fares
  op, asked,          \* application: operation in progress, refresh annotation
  status,             \* application: what a GET shows
  at, mode, todo,     \* the job: its place, and the applications of this loop
  expected,           \* the applications for which wait_targets has an image
  pending, observed,  \* wait_applications: not accepted yet; refresh_observed
  strikes,            \* pod_failure_counts
  round, since,       \* polls done, and polls since last_refresh
  refreshing,         \* refresh_due, of this poll
  arrived,            \* history: applications on which Target was live and healthy
  lag, lost,          \* history: rounds without a refresh, and refreshes lost meanwhile
  sick,               \* history: round since which the pods fail; Polls: they do not
  why                 \* history: why the wait failed

env == <<head, live, workload, op, status, arrived>>
fixed == <<mode, expected>>
seen == <<observed, strikes, sick>>
timer == <<round, since, refreshing>>
delay == <<lag, lost>>
job == <<at, fixed, todo, pending, seen, timer, delay, why>>
vars == <<env, asked, job>>

Ended == {"ok", "failed", "timeout"}
Health == [healthy |-> {"Healthy"}, starting |-> {"Progressing"},
           broken |-> {"Progressing", "Degraded"}]

\* What the wait is there to find out: Target's manifests, or at least the
\* expected image, run and are healthy.
Delivered(a) ==
  /\ workload[a] = "healthy"
  /\ \/ Content[a][live[a]] = Content[a][Target]
     \/ a \in expected /\ Image[a][live[a]] = Image[a][Target]

\* The job begins with what an earlier deployment has left: an operation that
\* is going on or has failed, and a workload that may be broken.
Init ==
  /\ head = 0
  /\ live = [a \in Apps |-> 0]
  /\ workload \in [Apps -> {"healthy", "broken"}]
  /\ op \in [Apps -> {NoOp, 0}]
  /\ asked = [a \in Apps |-> FALSE]
  /\ status \in [Apps -> [revision : {0}, synced : {TRUE}, health : {"Healthy", "Degraded"},
                          running : {0}, phase : {"Succeeded", "Running", "Failed"},
                          operation : {0}, history : {{0}}]]
  /\ \A a \in Apps : /\ status[a].health \in Health[workload[a]]
                     /\ op[a] = 0 <=> status[a].phase = "Running"
                     /\ a \notin Rolling => status[a].phase = "Succeeded" /\ workload[a] = "healthy"
  /\ at \in {"terminate", "commit"}
  /\ mode \in Modes
  /\ expected \in SUBSET Apps         \* wait_targets: a digest or tag override, or none
  /\ todo = Apps
  /\ pending = Apps
  /\ observed = [a \in Apps |-> FALSE]
  /\ strikes = [a \in Apps |-> 0]
  /\ round = 0
  /\ since \in {0, RefreshEvery}     \* 0: last_refresh = 0.0 on a host that has just booted
  /\ refreshing = FALSE
  /\ arrived = {a \in Apps : Delivered(a)}
  /\ lag = [a \in Apps |-> 0]
  /\ lost = [a \in Apps |-> 0]
  /\ sick = [a \in Apps |-> Polls]
  /\ why = "none"

-----------------------------------------------------------------------------
(***************************************************************************)
(* External: the branch, the application controller and the cluster.       *)
(***************************************************************************)
Arrive == arrived' = arrived \cup {a \in Apps : Delivered(a)'}

PushByOthers ==
  /\ Target <= head /\ head < LastRevision
  /\ head' = head + 1
  /\ UNCHANGED <<live, workload, op, status, arrived, asked, job>>

Compared(a, r, h) ==
  [status[a] EXCEPT !.revision = r, !.health = h, !.running = live[a],
                    !.synced = Content[a][live[a]] = Content[a][r]]

\* The controller compares: with the head if asked to, else perhaps with the
\* revision it has cached.
Refresh(a) ==
  \E r \in {head} \cup (IF asked[a] THEN {} ELSE {status[a].revision}), h \in Health[workload[a]] :
    /\ status' = [status EXCEPT ![a] = Compared(a, r, h)]
    /\ asked' = [asked EXCEPT ![a] = FALSE]
    /\ UNCHANGED <<head, live, workload, op, arrived, job>>

\* Automatic sync; a revision whose operation has failed is not tried again.
StartOperation(a) ==
  LET s == status[a] IN
  /\ op[a] = NoOp /\ ~s.synced
  /\ ~(s.phase = "Failed" /\ s.operation = s.revision)
  /\ op' = [op EXCEPT ![a] = s.revision]
  /\ status' = [status EXCEPT ![a] = [@ EXCEPT !.phase = "Running", !.operation = s.revision]]
  /\ UNCHANGED <<head, live, workload, arrived, asked, job>>

Succeeded(a) == [status[a] EXCEPT !.phase = "Succeeded", !.history = @ \cup {op[a]}]

FinishOperation(a) ==
  /\ op[a] # NoOp
  /\ op' = [op EXCEPT ![a] = NoOp]
  /\ \/ /\ live' = [live EXCEPT ![a] = op[a]]
        /\ workload' = [workload EXCEPT ![a] =
             IF Content[a][live[a]] = Content[a][op[a]] THEN @ ELSE "starting"]
        /\ status' = [status EXCEPT ![a] = Succeeded(a)]
     \/ /\ status' = [status EXCEPT ![a] = [@ EXCEPT !.phase = "Failed"]]
        /\ UNCHANGED <<live, workload>>
  /\ UNCHANGED <<head, asked, job>>
  /\ Arrive

WorkloadChanges(a) ==
  /\ \E w \in {"healthy", "broken"} : w # workload[a] /\ workload' = [workload EXCEPT ![a] = w]
  /\ UNCHANGED <<head, live, op, status, asked, job>>
  /\ Arrive

-----------------------------------------------------------------------------
(***************************************************************************)
(* argo-terminate, and the commit that follows it                          *)
(***************************************************************************)
Goto(place) == at' = place

\* The root-level operation is removed; what the controller makes of the
\* operation state is its own affair.
TerminateOperation(a) ==
  /\ at = "terminate" /\ a \in todo
  /\ todo' = todo \ {a}
  /\ op' = [op EXCEPT ![a] = NoOp]
  /\ \E p \in {status[a].phase} \cup (IF op[a] = NoOp THEN {} ELSE {"Failed"}) :
       status' = [status EXCEPT ![a] = [@ EXCEPT !.phase = p]]
  /\ UNCHANGED <<head, live, workload, arrived, asked, at, fixed, pending, seen, timer, delay, why>>

\* A request fails, or an operation is there again until the time is over.
TerminateFails ==
  /\ at = "terminate"
  /\ Goto("failed")
  /\ why' = "argo"
  /\ UNCHANGED <<env, asked, fixed, todo, pending, seen, timer, delay>>

\* Each application is looked at until it was seen without an operation.
Drain(a) ==
  /\ at = "terminate" /\ todo = {} /\ a \in pending
  /\ op[a] = NoOp
  /\ pending' = pending \ {a}
  /\ UNCHANGED <<env, asked, at, fixed, todo, seen, timer, delay, why>>

Commit ==
  /\ at = "commit" \/ (at = "terminate" /\ todo = {} /\ pending = {})
  /\ head' = Target
  /\ pending' = Apps
  /\ Goto("round")
  /\ UNCHANGED <<live, workload, op, status, arrived, asked, fixed, todo, seen, timer, delay, why>>

-----------------------------------------------------------------------------
(***************************************************************************)
(* wait_applications                                                       *)
(***************************************************************************)
Has(s, r) == r = s.revision \/ r = s.operation \/ r \in s.history       \* _observed_revisions
ShowsImage(a, s) == a \in expected /\ Image[a][s.running] = Image[a][Target]
ShowsFailure(s) == s.phase = "Failed" \/ s.health = "Degraded"           \* _payload_failure

\* Mutation: all() over no expected images.
IsReadyVacuously(a, s) ==
  s.synced /\ s.health = "Healthy" /\ (Has(s, Target) \/ a \notin expected \/ ShowsImage(a, s))

\* _ready_state
IsReady(a, s) == s.synced /\ s.health = "Healthy" /\ (Has(s, Target) \/ ShowsImage(a, s))

\* Mutation: only the first poll asks.
DueAtFirst == round = 0

Due == since >= RefreshEvery
Unseen == {a \in pending : ~observed[a]}

\* Mutation: one poll after the deadline.
InTimeOrJustLate == round <= Polls

InTime == round < Polls

\* The head of the loop: the deadline, and whether a refresh is due.
BeginRound ==
  /\ at = "round"
  /\ IF InTime
     THEN /\ refreshing' = Due
          /\ since' = IF Due THEN 0 ELSE since
          /\ \/ mode = "kubectl" /\ Goto("refresh") /\ todo' = IF Due THEN Unseen ELSE {}
             \/ mode = "http" /\ Goto("poll") /\ todo' = pending
     ELSE Goto("timeout") /\ UNCHANGED <<todo, since, refreshing>>
  /\ UNCHANGED <<env, asked, fixed, pending, seen, round, delay, why>>

Ask(a) ==
  /\ asked' = [asked EXCEPT ![a] = TRUE]
  /\ lag' = [lag EXCEPT ![a] = 0]
  /\ lost' = [lost EXCEPT ![a] = 0]

\* kubectl annotate; an application that cannot be asked ends the wait.
RequestRefresh(a) ==
  /\ at = "refresh" /\ a \in todo
  /\ \/ Ask(a) /\ todo' = todo \ {a} /\ UNCHANGED <<at, why>>
     \/ Goto("failed") /\ why' = "argo" /\ UNCHANGED <<asked, delay, todo>>
  /\ UNCHANGED <<env, fixed, pending, seen, timer>>

BeginPolls ==
  /\ at = "refresh" /\ todo = {}
  /\ Goto("poll")
  /\ todo' = pending
  /\ UNCHANGED <<env, asked, fixed, pending, seen, timer, delay, why>>

\* In HTTP mode the GET itself carries the request (?refresh=hard).
GetAsks(a) == mode = "http" /\ refreshing /\ ~observed[a]

\* The GET has reached the server.
AskByGet(a) == IF GetAsks(a) THEN Ask(a) ELSE UNCHANGED <<asked, delay>>

\* The GET was lost, and with it the refresh: last_refresh is already set, so the
\* application is asked again only when the next refresh is due.
LoseRefresh(a) ==
  /\ GetAsks(a)
  /\ lost' = [lost EXCEPT ![a] = @ + 1]
  /\ UNCHANGED <<asked, lag>>

\* The application cannot be read, because the request or only its answer is
\* lost: it is looked at again in the next round.  An answer that is no JSON
\* (kubectl) or breaks off (http) ends the wait.
Unreadable(a) ==
  /\ at = "poll" /\ a \in todo
  /\ AskByGet(a) \/ LoseRefresh(a)
  /\ \/ todo' = todo \ {a} /\ UNCHANGED <<at, why>>
     \/ Goto("failed") /\ why' = "argo" /\ UNCHANGED todo
  /\ UNCHANGED <<env, fixed, pending, seen, timer>>

\* _pod_failures: a pod that cannot be read counts as one that does not fail.
PodsFail(a) == IF workload[a] = "broken" THEN {TRUE, FALSE} ELSE {FALSE}

\* Mutation: the first failing pod ends the wait.
TooManyAtOnce(n) == n >= 1

TooMany(n) == n >= 2

Accept(a) ==
  /\ pending' = IF IsReady(a, status[a]) THEN pending \ {a} ELSE pending
  /\ todo' = todo \ {a}
  /\ UNCHANGED <<at, why>>

\* A status is read and judged.  In kubectl mode the pods of its workloads are
\* read too; since the status may be older than the pods in any case, both are
\* read in one step.
Poll(a) ==
  /\ at = "poll" /\ a \in todo
  /\ AskByGet(a)
  /\ observed' = [observed EXCEPT ![a] = @ \/ Has(status[a], Target) \/ ShowsImage(a, status[a])]
  /\ \/ /\ ShowsFailure(status[a])
        /\ Goto("failed") /\ why' = "status"
        /\ UNCHANGED <<todo, pending, strikes, sick>>
     \/ /\ ~ShowsFailure(status[a]) /\ mode = "kubectl"
        /\ \E failing \in PodsFail(a) :
             /\ strikes' = [strikes EXCEPT ![a] = IF failing THEN @ + 1 ELSE 0]
             /\ sick' = [sick EXCEPT ![a] = IF ~failing THEN Polls
                                             ELSE IF @ = Polls THEN round ELSE @]
             /\ IF failing /\ TooMany(strikes[a] + 1)
                THEN Goto("failed") /\ why' = "pods" /\ UNCHANGED <<todo, pending>>
                ELSE Accept(a)
     \/ /\ ~ShowsFailure(status[a]) /\ mode = "http"
        /\ Accept(a)
        /\ UNCHANGED <<strikes, sick>>
  /\ UNCHANGED <<env, fixed, timer>>

\* Mutation: each refresh gives the wait its time again.
EndRoundAnew ==
  /\ at = "poll" /\ todo = {}
  /\ IF pending = {} THEN Goto("ok") /\ UNCHANGED <<round, since>>
     ELSE Goto("round") /\ round' = (IF refreshing THEN 0 ELSE round + 1) /\ since' = since + 1
  /\ lag' = [a \in Apps |-> IF a \in Unseen THEN lag[a] + 1 ELSE 0]
  /\ lost' = [a \in Apps |-> IF a \in Unseen THEN lost[a] ELSE 0]
  /\ UNCHANGED <<env, asked, fixed, todo, pending, seen, refreshing, why>>

\* The end of the loop: return, or sleep until the next poll.
EndRound ==
  /\ at = "poll" /\ todo = {}
  /\ IF pending = {}
     THEN Goto("ok") /\ UNCHANGED <<round, since>>
     ELSE Goto("round") /\ round' = round + 1 /\ since' = since + 1
  /\ lag' = [a \in Apps |-> IF a \in Unseen THEN lag[a] + 1 ELSE 0]
  /\ lost' = [a \in Apps |-> IF a \in Unseen THEN lost[a] ELSE 0]
  /\ UNCHANGED <<env, asked, fixed, todo, pending, seen, refreshing, why>>

JobStep ==
  \/ Commit \/ TerminateFails \/ BeginRound \/ BeginPolls \/ EndRound
  \/ \E a \in Apps : TerminateOperation(a) \/ Drain(a) \/ RequestRefresh(a) \/ Unreadable(a) \/ Poll(a)

Next ==
  \/ JobStep
  \/ PushByOthers
  \/ \E a \in Rolling : Refresh(a) \/ StartOperation(a) \/ FinishOperation(a) \/ WorkloadChanges(a)

\* A request to the cluster is answered or fails at some time; the job is not killed.
Spec == Init /\ [][Next]_vars /\ WF_vars(JobStep)

-----------------------------------------------------------------------------
(***************************************************************************)
(* Properties                                                              *)
(***************************************************************************)
Statuses == [revision : Revisions, synced : BOOLEAN, health : {"Healthy", "Progressing", "Degraded"},
             running : Revisions, phase : {"Succeeded", "Running", "Failed"},
             operation : Revisions, history : SUBSET Revisions]

\* The values every variable stays in.
TypeOK ==
  /\ head \in Revisions
  /\ live \in [Apps -> Revisions]
  /\ workload \in [Apps -> DOMAIN Health]
  /\ op \in [Apps -> Revisions \cup {NoOp}]
  /\ asked \in [Apps -> BOOLEAN]
  /\ status \in [Apps -> Statuses]
  /\ at \in {"terminate", "commit", "round", "refresh", "poll"} \cup Ended
  /\ mode \in Modes
  /\ expected \subseteq Apps /\ todo \subseteq Apps /\ pending \subseteq Apps /\ arrived \subseteq Apps
  /\ observed \in [Apps -> BOOLEAN]
  /\ strikes \in [Apps -> Nat]
  /\ round \in 0..Polls /\ since \in Nat
  /\ refreshing \in BOOLEAN
  /\ lag \in [Apps -> Nat] /\ lost \in [Apps -> Nat]
  /\ sick \in [Apps -> 0..Polls]
  /\ why \in {"none", "argo", "status", "pods"}

\* argo-wait exits 0 only if on every application Target's manifests, or the
\* expected image, have really run and been healthy: a status put together from
\* an old comparison, the health of another revision and an operation that has
\* only been started is not taken for it.
SuccessWasDelivered == at = "ok" => arrived = Apps

\* As long as an application has not shown Target it is asked to look at the
\* branch again.  One refresh timer serves all of them: those that were seen or
\* accepted meanwhile, and reads of others that fail, put nobody off, and only a
\* refresh of its own that was lost makes an application wait an interval longer.
KeepsAsking == \A a \in pending : ~observed[a] => lag[a] <= RefreshEvery * (1 + lost[a])

\* A container that fails for less than a poll does not end the wait: the pods of
\* one application were seen failing in an earlier round and, whenever they could
\* be read, ever since.
BlipIsNotFatal == why = "pods" => \E a \in pending : sick[a] < round

\* The wait ends, whatever the cluster does and whatever cannot be read.
WaitEnds == <>(at \in Ended)
=============================================================================
