# TLA+ models of ci-templates

ci-templates is the toolbox a set of repositories share for building images, promoting
them through Harbor, rolling them out with GitOps and Argo CD, and reporting on it in
Feishu. Its Python commands are short-lived processes started by GitHub Actions jobs.
They keep no state of their own: what they do is to read and change **shared state they
do not control** (registry tags, a Git branch, a task board, Argo CD applications, Docker
volumes, files on a runner) in several requests each, while other jobs do the same and
while requests fail. The models are about that.

## Inventory

| Component (source) | State it reads and writes | Operations | What is hard | What makes it correct |
| --- | --- | --- | --- | --- |
| Harbor tags (`harbor.py`) | tag → digest of one repository | `promote_tag`, `tag_digest`, `delete_tag`, listing | no compare-and-swap; lost, late, refused writes; concurrent promotions | success means visible; never delete what was not read; a lost active tag is restored or reported |
| Feishu board (`task_tracker.py`) | one list with four sections; one task per workflow: section, members, cursor | `sync`, `provision`, `ensure_board` | reordered and repeated events, partial failure, people editing, overlapping jobs | newest event wins; one list, one task; people's own members stay; contributors assigned |
| GitOps snapshot (`gitops.py`) | branch `dev`/`main` of the deployment repository | `promote_snapshot`, `rollback_snapshot` | concurrent pushes, lost answers, nothing-to-do commits | never overwrite another writer; roll back exactly one's own commit |
| Candidates (`github.py`, `maintenance.py`, `build.py`) | candidate tags, workflow runs, what is deployed | `candidate_cleanup_allowed`, `restore-candidate`, `prune_candidates` | reruns, builds, promotions and deployments after the check | what was tested is promoted; what is deployed keeps a tag; active runs are spared |
| Artifact cache (`artifact_cache.py`) | files: payload and metadata per key | `restore`, `restore_pattern`, `cache_prune` | downloads that share a temporary file, readers that discard, crash between two renames, pruning | what is restored has the digest that is reported; nothing left in the cache fails a restore for ever |
| Cache maintenance (`cache_maintenance.py`) | cache roots, disk usage | `prune_cache` | lock, watermarks, disk usage against sizes | artifacts keep their 72 hours and then go; packages go only under pressure, the oldest first, until the low watermark |
| Release (`versions.py`, `release.py`, `github.py`) | Git tags, GitHub releases | `next_patch`, `create_and_push_tag`, `create_release` | crash between tag and push, two releases at once, stale tags | every version is released once, with its own commit |
| Argo CD (`argocd.py`) | application status | `wait_targets`, `wait_applications`, `terminate_operations` | status of an earlier operation, refreshes, timeouts | success only if every application has run the target healthy; it goes on asking; a blip is not fatal; it ends |
| Builder (`build.py`) | buildx builders, previous/active image tags | `_ensure_builder`, `build_service`, `restore_previous` | jobs sharing a Docker daemon | the image that was active can be restored |
| Change detection (`changes.py`) | none | service selection from changed paths | path rules, shared libraries | every affected service is selected |
| Transport (`transport.py`) | none | retry policy | which statuses and methods are retried | a write is not sent twice |
| Charts, configuration, smoke checks, network audit, notification cards, workflows | files and single requests | | formatting, parsing, I/O | not modelled, see the end |

How they interact: a build pushes a *candidate* tag to Harbor; the deploy job promotes
candidates to the *active* tag and commits a snapshot to the GitOps branch; Argo CD is
refreshed and waited for; on failure the snapshot is rolled back and the previous tags are
restored; the release job tags the commit; the board and the cards are updated at the
start and at the end of a run. All of these meet in shared external state, never in
memory.

The properties listed there are what the plan below aims at; `PROJECT.json` lists each
hazard at its line with the properties that cover it, or why none does yet.

## Modules

| Module | Models | Runs | Theorems |
| --- | --- | --- | --- |
| `HarborTags` | `harbor.py` tag writes | `harbor_faults` | `HarborTagsProofs` |
| `ActiveTag` | what `promote_tag` promises, abstractly | `harbor_faults` | `HarborTagsProofs` |
| `CandidateTags` | `maintenance.py`, the cleanup guard of `github.py`, the commands that touch candidates | `candidates` | `CandidateTagsProofs` |
| `FeishuTask` | `task_tracker.py` synchroniser | `feishu_serial`, `feishu_contributors` | `FeishuTaskProofs` |
| `FeishuBoard` | `task_tracker.py`, the list that repositories share | `feishu_board` | `FeishuTaskProofs` |
| `GitOpsSnapshot` | `gitops.py` | `gitops` | `GitOpsSnapshotProofs` |
| `DeployLog` | what a promotion and a rollback promise, abstractly | `gitops` | `GitOpsSnapshotProofs` |
| `ArgoWait` | `argocd.py` | `argo_wait` | `ArgoWaitProofs` |
| `Release` | the `release` command | `release_faults`, `release_retry` | `ReleaseProofs` |
| `VersionLog` | what the `release` command promises, abstractly | `release_faults` | `ReleaseProofs` |
| `ArtifactCache` | `artifact_cache.py`, and what `cache_maintenance.py` removes of an entry | `artifact_shared` | `ArtifactCacheProofs` |
| `CacheMaintenance` | `cache_maintenance.py` | `cache_prune`, `cache_watermark` | `CacheMaintenanceProofs` |

Each `MC…` module instantiates one of them for TLC. Conventions shared by all modules:

- One process is one job or command; its variables are functions from processes. A step is
  one HTTP request or Git command together with the local computation up to the next one,
  because every such request is a point at which other processes run.
- `Faults` says which failures an instance may have, and the history variable `struck` which
  have happened: a property that needs a failure not to have happened says so in its
  premise, so that one run covers all the cases.
- A definition commented `Mutation:` is a plausible bug. It is used by no specification; put
  in place of the definition it precedes or is named after, it makes a run fail, which shows
  that the property in question depends on that code.

### HarborTags

State: `tags`, the registry's map from tags to digests of one repository; `wire`, writes
that a process gave up on and that the registry will still apply; and for every process the
command it runs (`job`), the request it is at (`pc`) and the local variables of `promote_tag`,
`tag_digest` and `delete_tag` (`digest`, `existing`, `seen`, `restoring`). `visible` and
`remover` are history variables.

The actions follow the requests of the code: `ReadSource`, `ReadDestination`, `DeleteHead`,
`DeleteSend`, `DeleteReread`, `AfterDelete`, `TagHead`, `TagSend`, `TagConfirm`, `Reconcile`.
A call that returns continues at the place its caller is at (`DeleteReturns`, `TagReturns`,
`TagRaises`), so that `tag_digest` is modelled once for its three callers. `DeleteUncertain`
and `TagUncertain` are writes without an answer; `LateWrite` is such a write arriving later.

Assumed of Harbor (it is not in the repository): a DELETE names artifact and tag and has an
effect only while the tag points at the artifact; a POST is refused with 409 while a tag of
that name exists; candidate tags are immutable, so builds only create them.

- `harbor_faults`: two processes with any two commands, two candidates, three digests, every
  kind of failure. Two processes are enough for each interleaving of a read and a write of one
  with a write of the other; three digests are the old one and one for each promotion.

What the premises of the properties leave open is really open in the code. With a write that
arrives late, an old DELETE can hit an active tag that was moved away from its digest and
back again by others; nothing in the code can see this, and `AbsenceIsAccounted` excludes
it. When a *read* fails between the DELETE and the POST, `promote_tag` raises without
putting the old digest back, because only the call of `tag_digest` is inside the `try`
(`harbor.py:327-350`); `LossIsReported` therefore speaks of failing writes only.

`ActiveTag` says the same in one variable for the tag and one for who is answerable for its
absence (`debtor`): the tag is never moved from one digest to another, only taken away by a process
that has seen the digest there, and attached again; a process with a gap open does not leave as if
nothing were open, unless a write got loose. `KeepsPromise` is that `HarborTags` implements it,
with the active tag, the history variable `remover` and the locals `existing` for the abstract
variables. Everything else `HarborTags` does is a stutter there.

### CandidateTags

State: `candidate`, the digest `sha-<commit>` names; `active` and `deployed`, what the active tag and
the GitOps branch name; GitHub's view of the runs (`status`, `latest`); for every attempt of every
run where it is (`at`) and its digest artifact (`image`); the deployment in progress (`deploying`,
`base`); and the locals of `prune_candidates` (`busy`, `protected`, `listed`). `rested`, `worked`,
`blind` and `gap` are history.

`Package` and `Build` are `build --reuse-existing`, `Restore` is `restore-candidate`, `Promote` and
`PromoteFails` are `promote-candidate` (whose requests are `HarborTags`; here it is one step that may
leave the active tag absent), `Check` and `Delete` are the two requests of `cleanup-candidate`.
`PruneBegin`, `ReadRuns`, `ReadActive`, `ListCandidates`, `PruneDelete` are `prune_candidates` with a step
for each request that others can come between. The order of the jobs is that of `docs/consume.md`;
that the deployments of a project are serial is assumed of the consumer's workflow.

- `candidates`: a commit whose run has two attempts and one whose run has one, two builds of a
  commit (which give different digests), one prune. Two attempts are what the guard is about; the
  second commit is what a deployment replaces and is rolled back to.

The code leaves four windows open, which the properties name by `gap`; each is needed, TLC
refutes the property without it:

1. a rerun is triggered between the check of `cleanup-candidate` and its DELETE: the new attempt
   has found the candidate and deploys it;
2. the latest attempt promotes and cleans up while an earlier one is still at work and deploys
   the digest again: the guard asks for the attempt only;
3. a run that works on a commit during the prune without having been active when the runs were
   read: its candidate is deleted, by name, whatever digest it has by then;
4. the prune deletes the digest that a deployment in progress would be rolled back to:
   `CI_GITOPS_PROTECTED_DIGESTS_JSON` holds only what is deployed when it is injected.

### FeishuTask

State: `task`, the tasks of one repository and workflow, each with its section, members,
event cursor (`latest`) and list of managed members; `job`, where each running job is
and what it computed from its read of the task. `byHand`, `guests`, `dragged` and `failed` are history.

An event is what the cursor keeps of it: run, attempt and board state, ordered by (run,
attempt, phase). `Deliver` starts a job for *any* event at any time, which covers repeated,
late and reordered deliveries; `FindTask` is `find_task` and the stale check; `Move`,
`RemoveFollowers`, `RemoveAssignees`, `AddAssignees`, `Save` are the five calls `sync` makes, in
its order; `CreateTask` is the other path. `Fail` ends a job before any call. A call that is
applied and whose answer is lost is this failure one place later. `EditMembers` and `Drag` are
people. The code reads the task once and computes what to remove and to add from that read:
`remove` and `add` are therefore variables of the job, and the task changes under them.

- `feishu_serial`: one job at a time, as the documentation has the listening workflow run.
  Runs 1 and 2 with one attempt give every order of two events and of the two ends of
  a run; one user suffices because members are independent of each other.
- `feishu_contributors` (a finding): with one user and no failure, a contributor already
  assigned is removed by the next event and not added, because the set to add is what is
  wanted *minus who is present before the removal*.

`docs/feishu-task-board.md:57` and `docs/consume.md:193` promise that members whom people add are never
taken off. The code keeps a weaker promise, and `GuestsStay` is that one: whoever a person added stays as
long as no stored event asks for them (`guests`). Once an event does, `sync` records them as managed
although it did not have to add them (`list(desired)`, line 743), and the next event that does not ask
for them takes them off. Without the condition `GuestsStay` does not hold of the code. `SettledBoard` is about the
recorded list: whom a job adds, it records.

With two jobs at a time (`Workers` has two) the older event ends in the cursor, which is why
`NewestWins` is about serial jobs. The documented way to use the action from steps of the pipeline
itself (`docs/feishu-task-board.md:81-101`) has no concurrency group.

`EventuallyShown` needs weak fairness of a job that was started: every request has a timeout, so that a
process that is not killed goes on.
Not modelled: the completion time and the description, and the limit of fifty members to a call.
The list and its sections are there; `FeishuBoard` is about how they come to be.

### FeishuBoard

State: `board`, the task lists of the configured name, each with the role of the chat and the number of
sections of each state's name; `setup`, where each repository's job is in `ensure_board`, with what it is
to create (`todo`); `onboarded`, that some job has set the board up. `trouble` is history.

`FindList` and `FindSections` are the two reads, `CreateList`, `RemoveChat`, `AddChat` and
`CreateSection` the calls that write, one step each; `Return` is the end of the loop, or its error when a
name is there several times. `BreakOff` ends a job anywhere. The board starts as nothing or as any
incomplete list, which stands for what earlier failures and people have left, deletions included.

- `feishu_board`: three repositories, four sections, two lists. Three jobs are one that changes the role,
  one that overlaps with it, and one that comes later; a second list is enough for a duplicate.

The jobs of one workflow are serial, and the documentation has repositories provisioned one after the
other (`docs/feishu-task-board.md:132-133`): `Start` lets the first job be alone until the board is set
up. Without that two repositories create two lists (mutant `StartAnyTime`), and so they would if a list or
section were deleted under overlapping jobs. Assumed of Feishu: a write whose answer is lost was
applied before the job gave up or never is; what `remove_members` does to a chat that another job has
made an editor since is left open.

### GitOpsSnapshot

State: `branch`, the commits of the deployment branch; for every job where it is (`at`),
the loop counter of `promote_snapshot` (`attempt`), the head it cloned (`base`), and the pair it
returned (`revision`, `returned`). A tree is reduced to what the properties tell apart: for each
project the version in its deploy directory and the version of each image override.

`Clone` is the clone, the copy, the replay of the overrides and the look at the staged
difference; `Push` and `PushFails` are the push, a compare-and-swap on the branch; `RollbackClone`
and `Revert` are `rollback_snapshot`; `Stop` is any error that nothing catches; `Rerun` a
second run of the job. A project may have its kustomization inside or outside its deploy
directory (`Merged`): inside, the copy removes the overrides that others wrote.

- `gitops`: two jobs of one project that build different services and one of another; up
  to three commits beside the first, so that a push can be refused twice and a rollback can
  meet a moved branch. Every job may stop, be run again, and lose the answer to its push.

Two things the premises say about the code: with nothing to commit, `promote_snapshot` returns
the head, which may be somebody else's commit, and it does so too after its own push was
applied and reported as failed. The two returned revisions tell the caller, unless a push was
lost (`OwnCommitIsKnown`). Within one project the last push wins; the code does not order
versions.

`DeployLog` says what remains when the clones and the refused pushes are left out: a promotion is
one step, which applies the job's deployment to what the branch then holds (never to an older head)
and answers with the new commit and the one before it, or not at all; a rollback is one step of a
job that was answered with the head, and restores the tree before it. `KeepsDeployLog` is that
`GitOpsSnapshot` implements it, with the branch and the two returned revisions for the abstract
variables; clones, refused pushes and ended jobs are stutters there.

### ArgoWait

State: the branch (`head`); for each application what really runs (`live`, `workload`), the
controller's operation (`op`), whether it was asked to refresh (`asked`) and the `status` it shows,
whose parts are put together at different times; the job: `mode` (kubectl or HTTP), `expected` (who
has expected images), `pending`, `observed`, `strikes` (pod_failure_counts), the `round` of the
loop and the refresh timer (`since`, `refreshing`). `arrived`, `lag`, `lost`, `sick` and `why` are history.
Revisions are numbered; `Content` and `Image` say which of them have the same manifests of an
application, or the same image, so that a push by others need not change an application.

`TerminateOperation`, `TerminateFails`, `Drain` are `terminate_operations`; `BeginRound`,
`RequestRefresh`, `BeginPolls`, `Poll`, `Unreadable`, `EndRound` are `wait_applications`, one step for a
request. In HTTP mode the GET itself asks for the refresh; one that fails has reached the server
(`AskByGet`) or has not (`LoseRefresh`), and since the timer was set before it (`argocd.py:541-556`) the application is asked
again only an interval later. The controller (`Refresh`, `StartOperation`, `FinishOperation`) and the cluster
(`WorkloadChanges`) run on their own and are external.

- `argo_wait`: two applications, of which one is left as it is and one rolls; the revisions before
  and after the target; two polls with a refresh due at each: enough for a stale comparison, a
  refresh that finds an application unreadable, pods that fail in both polls and pods that fail
  in one. The job may begin with or without `argo-terminate`, and with the timer of a
  host that has just booted (`last_refresh = 0.0` on a small monotonic clock).

Assumed: others that push meanwhile do not change what this job deploys (`OthersCommitElsewhere`).
Without it `SuccessWasDelivered` would be too much to ask, since the controller goes on to the newer
revision. `KeepsAsking` counts what that costs: an application that was not seen waits at most the interval, and once more for each
refresh of its own that was lost, whatever becomes of the refreshes of others. `BlipIsNotFatal` goes by
`sick`, the round since which the pods fail without interruption, and not by the code's own counter.
`WaitEnds` needs weak fairness of the job's steps: a request is answered or fails. HTTP
requests have a timeout; a kubectl call has none, and one that hangs outlives the deadline.
The wait fails at its first poll on a Degraded or Failed status, also one an earlier
deployment has left; that is a failure, never a false success, and no property forbids it.

### Release

State: `main`, the release branch; `tags` and `releases` of the remote; `local`, the tags of each
job's checkout; `at` and `name`, where each job is and the tag it has chosen. Commits are numbered
along the development branch, which is taken to be linear. A tag is a scheme (`plain`
`vMAJOR.MINOR.N`, or `legacy` with the old prefix) and a patch number of one MAJOR.MINOR.

`Fetch` is `fetch_release_tags`, whose failure is not looked at, and `aggregate_release_tag`;
then follow `FastForward`, `LocalTag` and `PushTag` (`create_and_push_tag`), `Look` and `Publish`
(`create_release`). `FastForward` may bring the tags that the checkout lacks (`Followed`), because
`git fetch --unshallow` follows tags after the version was chosen; a checkout that was kept is no longer
shallow. `Stop` ends a job at any place, `Rerun` starts it again in a new checkout or,
under the fault `kept`, in the same one.

- `release_faults`: two attempts at commit 2 and a job for commit 3, one old tag at commit 1,
  three patch numbers: enough for two jobs to choose the same new number and for a third number
  to be chosen wrongly. The constraint `OneKind` does not continue a state after a failed
  fetch and a kept checkout both: `SuccessIsReleased`, `VersionsFollowHistory` and
  `OneVersionPerCommit` are true there by their premises, and `TypeOK` and `KeepsVersionLog` are proved
  for every mixture.
- `release_retry` (a finding): a job that tagged its commit and did not publish is refused
  when it is run again after the next release, although its tag is there.

When a fetch failed, numbers that old tags have left free may be given out of order;
`VersionsFollowHistory` and `OneVersionPerCommit` exclude that case. In a kept checkout a tag that
was never pushed is taken for the remote's, and the release may be published under a tag of
another job; `SuccessIsReleased` excludes that case.

`VersionLog` is the abstract specification: a version is given once and never moves, to a commit that
the release branch holds, and a release is only of a version; while nobody has guessed, the version is
the number after the highest, of a commit that has none and that comes after all that have one. There
the choice and the gift are one step, which is what the code cannot do: it chooses from a fetch,
moves the branch, and pushes the tag later. `KeepsVersionLog` is that `Release` implements it all the
same, with `guessing` for the two failures that make a job choose blindly (`fetch`, `kept`).

### ArtifactCache

State: the files of each entry that jobs on one node share: `dir`, `payload`, `meta` and the two
temporary files `tmp` and `metaTmp`; `old` and `condemned`, what cache-prune thinks of them; and
`remote`, GitHub's artifacts. A file is the set of uploads whose bytes were written into it, with
`Torn` if a writer stopped short; the digest is that of an upload only if nothing else is in the file
and nobody is still writing. `fd` follows an open file through a rename (`payload`) and a removal
(`lost`). A job has the locals of `restore_pattern` (`had`, `todo`, `phase`) and of a download
(`info`, `pick`). `crowded` and `struck` are history.

`ReadMeta`, `Check`, `Discard`, `RemoveDir` are `_read_cached` and `_discard_entry`; `Download`, `Open`,
`Write`, `Hash`, `Rename`, `WriteMeta`, `RenameMeta` are `_download_from_github`, and `Abort` its `except`;
`Extract` is `_secure_extract`. A directory that another job fills while it is removed makes `rmtree` fail:
from the entry whose digest differs (`drop`) `_read_cached` catches that and discards once more, from anywhere
else (`discard`) it ends the job. `restore_pattern` goes through `ReadMeta` and `Check` once for its scan
and once for its use of the cache. A step is one file operation, except that the two unlinks of a
`rmtree` and the reading of a whole file are one step; an open file keeps its bytes.

- `artifact_shared`: a pattern and a name, one artifact with two uploads, one failure of any kind
  beside the removals by age. Jobs of a node meet only at an entry, so that one artifact shows their
  interference; the second upload makes a mixture of old and new bytes visible. Weak fairness of a
  job that runs, and of its being run again when it has failed: `EventuallyRestored` is about
  what stays in the cache, not about somebody's patience.

Two things the code does against its comments are in the model and checked by no property.
With the fault `zlib.error`, which `zipfile` raises for a deflated member that lacks bytes, a torn
archive that two downloads published with a matching digest is replayed by every later attempt:
only `BadZipFile` becomes an `ArtifactCacheError` (line 139) and only that discards the entry (line
236), so `EventuallyRestored` is stated for errors that do. And when the listing fails,
`restore_pattern` takes any part of the artifacts that is cached for the whole (line 265).

While another job works on the same entry, a job may report a digest that is not that of the bytes it
extracts: it hashes the temporary file by name, and renames what has that name by then.
`ReportsWhatItExtracts` excludes jobs that were ever beside another.

### CacheMaintenance

State: the disk (`present`, `old`, `used`, `free`, and `other` for the rest of it), which jobs
change at any time (`Use`, `Write`, `Discard`, `OtherData`), and the locals of `prune_cache`: its place,
the listing it works from (`listed`, `rank`), `removed` and `reclaimed`. `measured` (the usage the disk
really had when the code last asked), `rewritten` and `overdue` are history.

`ListExpired`, `Expire`, `NextDir` are the retention pass, `ListPackages` and `Evict` the pressure pass,
`Mark` is `mark_for_removal`. A run may fail or be killed at any place, and is a dry run or not.

- `cache_prune`: two runs, one artifact and two packages of different size, so that the order matters and
  a run can meet what another has left; one unit of other data and two uses of files.
- `cache_watermark` (a finding): outside a dry run the bytes that were unlinked are in the new
  `statvfs` and in `reclaimed_bytes`; the run believes in the low watermark when half of the way is
  done. In the other direction the code is right, and that is `WarmCacheStays`: what counts twice
  can only spare entries. The order of eviction, `OldestFirst`, is proved and not run.

## What is proved

The theorems hold for every value of the constants that satisfies the `ASSUME` of the module
(any numbers of jobs, digests, commits, any set of failures). Each proof module states one
inductive invariant (`IInv`, or several that build on each other), shows that the initial states satisfy it and that every action
keeps it, and derives the properties.

- `HarborTagsProofs`: `IInv` adds to the types which command can be at which request
  (`PlacesInv`), what its local variables are there (`LocalsInv`), that a digest which was confirmed
  has been visible (`VisibleInv`), whose the late writes are (`WireInv`), and that whoever took the
  active tag away is past its DELETE and knows what to put back (`GapInv`). From the last come
  `AbsenceIsAccounted` and `LossIsReported`; from `AsExpected` and `WireInv` comes
  `RemovesOnlyWhatItReplaces`, and from all of them `PromiseKept`: each step of `HarborTags` maps to a step
  of `ActiveTag` or a stutter.
- `CandidateTagsProofs`: `Spared` (what the order of the two requests for active runs gives), `Standing` (no
  attempt is later than the latest; who deletes is the latest and alone, or in a window), and `Guarded`
  (a digest belongs to its commit; one attempt deploys; what is deployed and what it would be rolled
  back to are tagged; a cleanup or prune is about to delete only what is active, replaced or unused).
- `ArgoWaitProofs`: `Typed`, `Struck` (a strike was in an earlier round), `Asked` (the lag of an unseen application
  follows the one timer) and `Arrived` (what a status may show of an operation and of a comparison
  that are past, and that what is accepted has arrived).
- `CacheMaintenanceProofs`: what a listing of the run can hold and what the disk held when it was made
  (`Listing`), the ranks of what was evicted and what is left (`Ranking`), and where the artifacts that are
  overdue still are (`Remaining`).
- `FeishuTaskProofs`: `TypeOK` for any number of jobs; `UniqueTask`, `NewestWins`,
  `GuestsStay` and `SettledBoard` under the assumption that jobs are serial, without which they do not hold. `ReadInv` is what serial jobs give: what a job read is still so when it writes. `GuestInv` says that no guest is on the list of managed members or among what a job is to remove. `SettleInv` adds for
  each place which members the job still answers for (`Answers`).
- `FeishuTaskProofs` on `FeishuBoard`: `BoardInv`. Until the board is set up one job is alone, so that what it is to
  create is what is missing (`CreatesFirst`, `FillsMissing`); once it is set up nothing is missing
  (`IsSetUp`); and a role that was taken away has a job that runs and will give it (`ChatCared`).
- `GitOpsSnapshotProofs`: `RevisionInv` (a returned revision holds what its job deploys), `CloneInv`
  (what a job knows of the head it cloned), `FreshInv` (without a lost push a job that is still
  trying has no commit of its own since it began) and `MovedInv` (each failed attempt has seen
  the branch move).
- `ReleaseProofs`: `MainInv`, `SuccessInv`, and the core, `PendingInv`: while fetches succeed, every
  name chosen and not yet on the remote is the *same* name, the one after the highest, for a commit
  without a tag. So as soon as one job pushes it, no other can, and versions cannot be doubled or
  put out of order. `OrderInv` adds that its commit is not older than any tagged one.
- `ArtifactCacheProofs`: only a job at `write` has a file open (`WriterInv`), two jobs that run at once
  are marked as such (`CrowdInv`), and hence the digest of a job that is alone stays that of the file
  it stands for (`DigestInv`), unless cache-prune removes the file.

### Refinements

Three abstract specifications are implemented, each proved step by step under the invariants of its module:

- `PromiseKept` (`ActiveTag`), see `HarborTagsProofs` above.
- `VersionLogKept`: `PushTag` maps to `Number` (`LogStep`), and so does `Publish` when GitHub creates the tag of a
  release that has none, which takes a kept checkout. That the number is still the next one and the commit
  still the newest at the moment of the push, long after both were chosen, is `PendingInv` and `OrderInv`;
  `LegacyInv` adds that the tags of the old scheme are those the repository began with.
- `DeployLogKept`: `Push` maps to `Promote` because the compare-and-swap makes the head that was cloned the
  head that is pushed to (`PushIsPromote`), `Revert` to `Undo` (`RevertIsUndo`). `AnswerInv` says that a job
  which has no answer, or has given it up, knows no revisions, so that it is free to promote.

### The parts of liveness that need no fairness

Liveness under fairness is out of the prover's reach, so `EventuallyShown`, `EventuallyRestored` and `WaitEnds`
stay model-checked. What can go wrong in them apart from fairness is proved for every instance: a number of
steps left, which each step of the job lowers and which nothing that others do raises.

- `WaitIsBounded` (`ArgoWaitProofs`): the rounds that are left, times what one round costs (finitely many
  applications assumed).
- `CommandsAreBounded` (`HarborTagsProofs`): at most fourteen requests to a command, a compensation included;
  a compensation never starts another.
- `JobsAreBounded` (`FeishuTaskProofs`): at most seven steps to a job, for any number of jobs at a time; and
  `ShownCorrect`: when jobs are serial, one that ends without a failure leaves its event or a newer one in the cursor.
- `AttemptsAreBounded` (`ArtifactCacheProofs`, finitely many artifacts assumed): sixteen steps for each name that
  is still to do, counted twice while the cache is scanned (`Measure`). `AttemptInv` says that the job works on a name it has
  still to do. One attempt ends, whatever the sharing jobs do; that a *retried* attempt succeeds in the end is
  `EventuallyRestored`, which TLC checks.

What TLC adds to these is that a job that has not ended can take a step (a statement about `ENABLED`) and, with the
fairness stated above, takes it; and, for `EventuallyRestored`, that the failures stop.

### Proved or checked only

Only model-checked: those three. Proved only: `HistoryGrows` (no commit of the deployment branch is ever
lost), `GivesUpLate` (a promotion gives up only after the branch has moved under each of its attempts),
`UndoesOneCommit` and `ReleasedIsOnMain` (which the two refinements say in more detail where they are run),
`OldestFirst`, the bounds just named, and the types of `FeishuBoard`.

## Plan

Done: `HarborTags`, `FeishuTask`, `GitOpsSnapshot`, `Release`, `ArtifactCache`, then `ActiveTag` and its refinement,
`VersionLog` and `DeployLog` with theirs, `CandidateTags`, `ArgoWait`, `CacheMaintenance`, `FeishuBoard`. Left, in this order:

1. `DeployPipeline`, composing `GitOpsSnapshot` and the answers of `ArgoWait` as a consumer's deploy job
   does: snapshot, wait, and on failure terminate, rollback and wait again. `CandidateTags` has its
   effect on the tags.
2. `transport.py`, `changes.py` as functions checked against reference definitions.

## Not modelled, and why

Formatting, parsing and single requests: chart rendering, configuration, smoke checks, network
audit, notification cards, release texts and their model requests, the workflows and manifests.
They have no state that several steps or actors share; their correctness is that of a function,
which unit tests reach.

The buildx builder of `build.py` (creation, its marker file, the previous tag) belongs to one Docker
daemon, which in the documented setup (`docs/arc.md`) is that of one runner and so of one job. The age of a
candidate is left open in `CandidateTags`, so that its properties hold for any age; that the fallback
without Harbor metadata takes the time of the commit for that of the push, and so prunes a fresh build
of an old commit, is therefore no violation there. `prune_candidates` asks for active runs of the
branch `dev` and for a hundred of them only; the model is of one service and of runs it can see.
Of the listing only the result is modelled, any part of what may be pruned: neither its pages nor that without
the right to list projects (403) it is taken from the registry instead (`maintenance.py:97-102`).
`cache-prune --root`, argument checks and the lock's refusal change nothing and are left out.
