--------------------------- MODULE CandidateTags ---------------------------
(***************************************************************************)
(* The candidate tags sha-<commit> of one service: the attempts of the     *)
(* runs that build, deploy, promote and remove them, and one               *)
(* prune-candidates beside them.  A rerun does not cancel what an earlier  *)
(* attempt still does, and GitHub may call a run completed whose job goes  *)
(* on.  HarborTags has the requests of a promotion; here a promotion is    *)
(* one step that may leave the active tag absent (see ActiveTag).          *)
(*                                                                         *)
(* The jobs and their order are those of the workflow that docs/consume.md *)
(* describes; it deploys one release at a time.                            *)
(***************************************************************************)
EXTENDS Naturals

CONSTANTS
  Commits,      \* each with its run
  MaxAttempts,  \* MaxAttempts[c]: bound on the attempts of c's run
  MaxBuilds,    \* bound: builds of one commit; no two give the same digest
  None

Attempts == UNION {1..MaxAttempts[c] : c \in Commits}
Images == Commits \X (1..MaxBuilds)

ASSUME CandidateAssumption ==
  /\ MaxAttempts \in [Commits -> Nat \ {0}] /\ MaxBuilds \in Nat
  /\ None \notin Images \cup (Commits \X Attempts)

VARIABLES
  candidate,   \* the digest that sha-<commit> names
  active,      \* the digest that the active tag names
  deployed,    \* the digest that the GitOps branch names
  builds,      \* builds of each commit
  status,      \* of each run, for GitHub
  latest,      \* run_attempt of each run
  at,          \* at[c][k]: the place of attempt k
  image,       \* image[c][k]: its digest artifact
  deploying,   \* the attempt in deploy-release
  base,        \* what was deployed before it
  prune,       \* place of prune-candidates
  busy,        \* active_shas
  protected,   \* digests it must not touch
  listed,      \* candidates it is going to delete
  rested,      \* history: commits whose run was not active at a time since the prune began
  worked,      \* history: commits of which an attempt was at work at a time since
  blind,       \* history: what a deployment could go back to when digests were injected
  gap          \* history: commits whose tag was lost in a window that no check covers

registry == <<candidate, active, builds>>
gitops == <<deployed, deploying, base>>
runs == <<status, latest>>
pruning == <<prune, busy, protected, listed, rested, worked, blind>>
vars == <<registry, gitops, runs, at, image, pruning, gap>>

Init ==
  /\ candidate = [c \in Commits |-> None]
  /\ active = None
  /\ deployed = None
  /\ builds = [c \in Commits |-> 0]
  /\ status = [c \in Commits |-> "none"]
  /\ latest = [c \in Commits |-> 0]
  /\ at = [c \in Commits |-> [k \in Attempts |-> "none"]]
  /\ image = [c \in Commits |-> [k \in Attempts |-> None]]
  /\ deploying = None
  /\ base = None
  /\ prune = "idle"
  /\ busy = {} /\ protected = {} /\ listed = {}
  /\ rested = {} /\ worked = {} /\ blind = {}
  /\ gap = {}

Live(c, k) == at[c][k] \notin {"none", "ended"}
Pruning == prune \notin {"idle", "ended"}

-----------------------------------------------------------------------------
(***************************************************************************)
(* External: GitHub.                                                       *)
(***************************************************************************)
Go(c, k, place) == at' = [at EXCEPT ![c][k] = place]
End(c, k) == Go(c, k, "ended")
Works(c) == worked' = IF Pruning THEN worked \cup {c} ELSE worked

\* A push starts the run; a rerun gives it another attempt, of all jobs or of
\* those that failed: it then begins with the digest artifact that there is.
Trigger(c) ==
  /\ status[c] \in {"none", "completed"} /\ latest[c] < MaxAttempts[c]
  /\ status' = [status EXCEPT ![c] = "queued"]
  /\ latest' = [latest EXCEPT ![c] = @ + 1]
  /\ \/ Go(c, latest'[c], "package") /\ UNCHANGED image
     \/ \E k \in 1..latest[c] :
          /\ image[c][k] # None
          /\ image' = [image EXCEPT ![c][latest'[c]] = image[c][k]]
          /\ Go(c, latest'[c], "restore")
  /\ Works(c)
  /\ gap' = IF \E k \in Attempts : at[c][k] = "delete" THEN gap \cup {c} ELSE gap
  /\ UNCHANGED <<registry, gitops, prune, busy, protected, listed, rested, blind>>

Start(c) ==
  /\ status[c] = "queued"
  /\ status' = [status EXCEPT ![c] = "in_progress"]
  /\ UNCHANGED <<registry, gitops, latest, at, image, pruning, gap>>

\* Its jobs have ended, or GitHub has lost sight of them.
Conclude(c) ==
  /\ status[c] = "in_progress"
  /\ status' = [status EXCEPT ![c] = "completed"]
  /\ rested' = IF Pruning THEN rested \cup {c} ELSE rested
  /\ UNCHANGED <<registry, gitops, latest, at, image, gap,
                 prune, busy, protected, listed, worked, blind>>

\* A job of the latest attempt waits for its runner.
Runs(c, k) == k = latest[c] => status[c] # "queued"

-----------------------------------------------------------------------------
(***************************************************************************)
(* The jobs                                                                *)
(***************************************************************************)
\* build --reuse-existing: the candidate is there, or it is built.  It is
\* also built if it could not be inspected.
Package(c, k) ==
  /\ at[c][k] = "package" /\ Runs(c, k)
  /\ \/ /\ candidate[c] # None
        /\ image' = [image EXCEPT ![c][k] = candidate[c]]
        /\ Go(c, k, "deploy")
     \/ Go(c, k, "build") /\ UNCHANGED image
  /\ UNCHANGED <<registry, gitops, runs, pruning, gap>>

\* Mutation: the registry lets a tag be overwritten.
MayPushAnything(c) == TRUE

\* Candidate tags are immutable in Harbor.
MayPush(c) == candidate[c] = None

\* buildx build --push, then image_digest for the artifact.
Build(c, k) ==
  /\ at[c][k] = "build" /\ MayPush(c) /\ builds[c] < MaxBuilds
  /\ builds' = [builds EXCEPT ![c] = @ + 1]
  /\ candidate' = [candidate EXCEPT ![c] = <<c, builds'[c]>>]
  /\ image' = [image EXCEPT ![c][k] = <<c, builds'[c]>>]
  /\ Go(c, k, "deploy")
  /\ UNCHANGED <<active, gitops, runs, pruning, gap>>

\* tag_digest: never over another digest.
Restorable(c, k) == candidate[c] \in {None, image[c][k]}

\* restore-candidate
Restore(c, k) ==
  /\ at[c][k] = "restore" /\ Runs(c, k)
  /\ Restorable(c, k)
  /\ candidate' = [candidate EXCEPT ![c] = IF @ = None THEN image[c][k] ELSE @]
  /\ Go(c, k, "deploy")
  /\ UNCHANGED <<active, builds, gitops, runs, image, pruning, gap>>

\* promote-snapshot, argo-wait and smoke
Deploy(c, k) ==
  /\ at[c][k] = "deploy" /\ deploying = None
  /\ deploying' = <<c, k>>
  /\ base' = deployed
  /\ deployed' = image[c][k]
  /\ Go(c, k, "smoke")
  /\ UNCHANGED <<registry, runs, image, pruning, gap>>

Rollback(c, k) ==
  /\ at[c][k] = "smoke"
  /\ deployed' = base
  /\ deploying' = None
  /\ End(c, k)
  /\ UNCHANGED <<registry, base, runs, image, pruning, gap>>

\* promote-candidate: the tag is promoted, whatever digest it names, and even
\* if an earlier attempt is still at work and may deploy the digest again.
Promote(c, k) ==
  /\ at[c][k] = "smoke"
  /\ candidate[c] # None
  /\ active' = candidate[c]
  /\ deploying' = None
  /\ Go(c, k, "check")
  /\ gap' = IF k = latest[c] /\ \E i \in Attempts : i # k /\ Live(c, i)
            THEN gap \cup {c} ELSE gap
  /\ UNCHANGED <<candidate, builds, deployed, base, runs, image, pruning>>

\* It fails, perhaps after the active tag of another digest was taken away;
\* what has passed smoke stays deployed.
PromoteFails(c, k) ==
  /\ at[c][k] = "smoke"
  /\ active' \in {active} \cup (IF candidate[c] \in {None, active} THEN {} ELSE {None})
  /\ deploying' = None
  /\ End(c, k)
  /\ UNCHANGED <<candidate, builds, deployed, base, runs, image, pruning, gap>>

\* Mutation: the attempt is not compared.
AllowedAlways(c, k) == TRUE

\* candidate_cleanup_allowed
Allowed(c, k) == ~(k < latest[c])

Check(c, k) ==
  /\ at[c][k] = "check"
  /\ IF Allowed(c, k) THEN Go(c, k, "delete") ELSE End(c, k)
  /\ UNCHANGED <<registry, gitops, runs, image, pruning, gap>>

\* cleanup-candidate
Delete(c, k) ==
  /\ at[c][k] = "delete"
  /\ candidate' = [candidate EXCEPT ![c] = None]
  /\ End(c, k)
  /\ UNCHANGED <<active, builds, gitops, runs, image, pruning, gap>>

\* A build, a request or a lookup fails, or the job is killed.
Fail(c, k) ==
  /\ at[c][k] \in {"package", "build", "restore", "deploy", "check", "delete"}
  /\ End(c, k)
  /\ UNCHANGED <<registry, gitops, runs, image, pruning, gap>>

-----------------------------------------------------------------------------
(***************************************************************************)
(* prune-candidates.  How old a candidate is, is left open; a failing      *)
(* request ends the prune.  With --dry-run it changes nothing.             *)
(***************************************************************************)
\* Mutation: the runs in progress are read first.
InProgressFirst == <<"in_progress", "queued">>

\* _active_commit_shas
ReadOrder == <<"queued", "in_progress">>

\* Mutation: no digest counts as one.
DigestsOrNone(d) == {d}

Digests(d) == {d} \ {None}

\* It begins with CI_GITOPS_PROTECTED_DIGESTS_JSON.
PruneBegin ==
  /\ prune = "idle"
  /\ prune' = "first"
  /\ protected' = Digests(deployed)
  /\ blind' = IF deploying = None THEN {} ELSE {base}
  /\ rested' = {c \in Commits : status[c] \notin {"queued", "in_progress"}}
  /\ worked' = {c \in Commits : \E k \in Attempts : Live(c, k)}
  /\ UNCHANGED <<registry, gitops, runs, at, image, busy, listed, gap>>

ReadRuns ==
  /\ \/ /\ prune = "first" /\ prune' = "second"
        /\ busy' = {c \in Commits : status[c] = ReadOrder[1]}
     \/ /\ prune = "second" /\ prune' = "tags"
        /\ busy' = busy \cup {c \in Commits : status[c] = ReadOrder[2]}
  /\ UNCHANGED <<registry, gitops, runs, at, image, protected, listed, rested, worked, blind, gap>>

ReadActive ==
  /\ prune = "tags" /\ prune' = "list"
  /\ protected' = protected \cup Digests(active)
  /\ UNCHANGED <<registry, gitops, runs, at, image, busy, listed, rested, worked, blind, gap>>

\* Mutation: only runs are looked at.
PrunableIfIdle(c) == candidate[c] # None /\ c \notin busy

Prunable(c) == candidate[c] # None /\ c \notin busy /\ candidate[c] \notin protected

ListCandidates ==
  /\ prune = "list" /\ prune' = "delete"
  /\ listed' \in SUBSET {c \in Commits : Prunable(c)}
  /\ UNCHANGED <<registry, gitops, runs, at, image, busy, protected, rested, worked, blind, gap>>

\* delete_tag by name: whatever digest the tag has by now.
PruneDelete(c) ==
  /\ prune = "delete" /\ c \in listed
  /\ listed' = listed \ {c}
  /\ candidate' = [candidate EXCEPT ![c] = None]
  /\ gap' = IF c \in worked \/ candidate[c] \in blind THEN gap \cup {c} ELSE gap
  /\ UNCHANGED <<active, builds, gitops, runs, at, image,
                 prune, busy, protected, rested, worked, blind>>

PruneEnd ==
  /\ Pruning
  /\ prune' = "ended"
  /\ busy' = {} /\ protected' = {} /\ listed' = {}
  /\ rested' = {} /\ worked' = {} /\ blind' = {}
  /\ UNCHANGED <<registry, gitops, runs, at, image, gap>>

Next ==
  \/ \E c \in Commits : Trigger(c) \/ Start(c) \/ Conclude(c) \/ PruneDelete(c)
  \/ \E c \in Commits, k \in Attempts :
       \/ Package(c, k) \/ Build(c, k) \/ Restore(c, k) \/ Deploy(c, k) \/ Rollback(c, k)
       \/ Promote(c, k) \/ PromoteFails(c, k) \/ Check(c, k) \/ Delete(c, k) \/ Fail(c, k)
  \/ PruneBegin \/ ReadRuns \/ ReadActive \/ ListCandidates \/ PruneEnd

Spec == Init /\ [][Next]_vars

-----------------------------------------------------------------------------
(***************************************************************************)
(* Properties                                                              *)
(***************************************************************************)
Places == {"none", "package", "build", "restore", "deploy", "smoke", "check", "delete", "ended"}

\* The values every variable stays in.
TypeOK ==
  /\ candidate \in [Commits -> Images \cup {None}]
  /\ active \in Images \cup {None} /\ deployed \in Images \cup {None}
  /\ builds \in [Commits -> 0..MaxBuilds]
  /\ status \in [Commits -> {"none", "queued", "in_progress", "completed"}]
  /\ latest \in [Commits -> Nat] /\ \A c \in Commits : latest[c] <= MaxAttempts[c]
  /\ at \in [Commits -> [Attempts -> Places]]
  /\ image \in [Commits -> [Attempts -> Images \cup {None}]]
  /\ deploying \in (Commits \X Attempts) \cup {None} /\ base \in Images \cup {None}
  /\ prune \in {"idle", "first", "second", "tags", "list", "delete", "ended"}
  /\ busy \subseteq Commits /\ listed \subseteq Commits /\ gap \subseteq Commits
  /\ rested \subseteq Commits /\ worked \subseteq Commits
  /\ protected \subseteq Images /\ blind \subseteq Images \cup {None}

Tagged(d) == d = active \/ \E c \in Commits : candidate[c] = d

\* prune-candidates never takes the candidate of a run that has been queued or
\* in progress ever since it began, although it asks for the two separately
\* and runs go from the one to the other meanwhile.
SparesActiveRuns == listed \subseteq rested

\* From its build or restoration to its promotion an attempt's candidate tag
\* stays where it is: a cleanup of an earlier attempt does not take it, nor
\* does a build or a restoration of another attempt give it another digest,
\* so that what is promoted is what was tested.
CandidateStands ==
  \A c \in Commits, k \in Attempts :
    at[c][k] \in {"deploy", "smoke"} => candidate[c] = image[c][k] \/ c \in gap

\* The digest that GitOps names has a tag, so that Harbor does not collect it:
\* through failed promotions, rollbacks, cleanups and prunes.
DeployedIsTagged == deployed # None => Tagged(deployed) \/ deployed[1] \in gap
=============================================================================
