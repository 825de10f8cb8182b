------------------------------ MODULE Release ------------------------------
(***************************************************************************)
(* The release command (__main__.py, github.py, versions.py).  Jobs of     *)
(* successive commits of the development branch release them: each fetches *)
(* the tags, chooses a version, moves the release branch forward to its    *)
(* commit, creates and pushes the tag of the version, and creates the      *)
(* GitHub release.  A job that fails is run again.                         *)
(*                                                                         *)
(* Commits are numbered along the development branch, which is linear:     *)
(* a commit is an ancestor of every later one.                             *)
(***************************************************************************)
EXTENDS Naturals

CONSTANTS
  Jobs,      \* release jobs
  Commit,    \* the commit each job has checked out
  Legacy,    \* tags <prefix>-v0.0.N of the old scheme: the commit of each patch
  MaxPatch,  \* bound on the patch number of a version
  Faults     \* which failures and kinds of retry may happen

\* "fetch" git fetch --tags fails, which is not looked at
\* "kept"  a failed job is tried again in the same checkout
\* A job may fail at any place, whatever Faults is: see Stop.
AllFaults == {"fetch", "kept"}

Absent == 0
Commits == Nat \ {Absent}
Patches == 1 .. MaxPatch
Names == {"plain", "legacy"} \X Patches   \* vMAJOR.MINOR.N, <prefix>-vMAJOR.MINOR.N

ASSUME ReleaseAssumption ==
  /\ Commit \in [Jobs -> Commits]
  /\ MaxPatch \in Nat \ {0}
  /\ Legacy \in [Patches -> Nat]
  /\ Faults \subseteq AllFaults

VARIABLES
  main,      \* remote: the last commit of the release branch
  tags,      \* remote: the commit of every tag, or Absent
  releases,  \* GitHub: the tags that have a release
  local,     \* the tags of each job's checkout
  at,        \* where each job is
  name,      \* the tag each job has chosen
  struck     \* history: the failures and retries that have happened so far

vars == <<main, tags, releases, local, at, name, struck>>

Places == {"fetch", "forward", "tag", "push", "look", "publish",
           "released", "refused", "failed"}
Running == Places \ {"released", "refused", "failed"}

Strike(fault) == fault \in Faults /\ struck' = struck \cup {fault}
Goto(j, place) == at' = [at EXCEPT ![j] = place]

\* A shallow checkout has no tags.
NoTags == [t \in Names |-> Absent]

-----------------------------------------------------------------------------
Here(checkout, kind, c) == {n \in Patches : checkout[<<kind, n>>] = c}
There(checkout) == {n \in Patches : \E kind \in {"plain", "legacy"} : checkout[<<kind, n>>] # Absent}

\* The highest of some numbers, as a set of one member or none.
Highest(numbers) == {n \in numbers : \A m \in numbers : m <= n}

\* Mutation: a tag of the commit is not used again.
AggregateFresh(checkout, c) ==
  {t \in Names : t[1] = "plain" /\ t[2] - 1 \in Highest(There(checkout) \cup {0})}

\* Mutation: the highest patch itself is taken for the next one.
AggregateHighest(checkout, c) ==
  {<<"plain", n>> : n \in Highest(There(checkout) \cup {0})}

\* aggregate_release_tag: the tag of the commit, of the new scheme or else of the
\* old one; or else the patch after the highest of both.  At most one name: none
\* when the bound MaxPatch is reached.
Aggregate(checkout, c) ==
  LET plain == Here(checkout, "plain", c)
      legacy == Here(checkout, "legacy", c)
  IN  {t \in Names :
         \/ t[1] = "plain" /\ t[2] \in Highest(plain)
         \/ plain = {} /\ t[1] = "legacy" /\ t[2] \in Highest(legacy)
         \/ /\ plain = {} /\ legacy = {}
            /\ t[1] = "plain" /\ t[2] - 1 \in Highest(There(checkout) \cup {0})}

\* git fetch --tags --force.
Fetched(checkout) == [t \in Names |-> IF tags[t] # Absent THEN tags[t] ELSE checkout[t]]

Init ==
  /\ main = 1
  /\ tags = [t \in Names |-> IF t[1] = "legacy" THEN Legacy[t[2]] ELSE Absent]
  /\ releases = {}
  /\ local = [j \in Jobs |-> NoTags]
  /\ at = [j \in Jobs |-> "fetch"]
  /\ name = [j \in Jobs |-> <<"plain", 1>>]
  /\ struck = {}

\* Fetch the tags and choose the version.
Fetch(j) ==
  /\ at[j] = "fetch"
  /\ \/ local' = [local EXCEPT ![j] = Fetched(local[j])] /\ UNCHANGED struck
     \/ Strike("fetch") /\ UNCHANGED local
  /\ \E t \in Aggregate(local'[j], Commit[j]) : name' = [name EXCEPT ![j] = t]
  /\ Goto(j, "forward")
  /\ UNCHANGED <<main, tags, releases>>

\* Tags that come with the commits of a fetch: those that the checkout lacks.
Followed(checkout) == [t \in Names |-> IF checkout[t] # Absent THEN checkout[t] ELSE tags[t]]

\* Mutation: the push is forced.
FastForwardForced(j) ==
  /\ at[j] = "forward"
  /\ main' = Commit[j]
  /\ Goto(j, "tag")
  /\ UNCHANGED <<tags, releases, local, name, struck>>

\* Mutation: that the push was refused is not looked at.
FastForwardUnchecked(j) ==
  /\ at[j] = "forward"
  /\ main' = main
  /\ Goto(j, "tag")
  /\ UNCHANGED <<tags, releases, local, name, struck>>

\* fast_forward_main: git fetch, which brings tags to a shallow checkout after the
\* version was chosen; merge-base --is-ancestor, and the push, which refuses for
\* the same reason when the branch moves after the look.
FastForward(j) ==
  /\ at[j] = "forward"
  /\ \/ local' = [local EXCEPT ![j] = Followed(local[j])]
     \/ "kept" \in struck /\ UNCHANGED local      \* no longer shallow
  /\ \/ main <= Commit[j] /\ main' = Commit[j] /\ Goto(j, "tag")
     \/ main > Commit[j] /\ Goto(j, "refused") /\ UNCHANGED main
     \/ Goto(j, "failed") /\ UNCHANGED main
  /\ UNCHANGED <<tags, releases, name, struck>>

\* create_and_push_tag: a tag of the checkout is taken for the tag of the remote.
LocalTag(j) ==
  /\ at[j] = "tag"
  /\ LET tagged == local[j][name[j]] IN
       \/ /\ tagged = Absent
          /\ local' = [local EXCEPT ![j][name[j]] = Commit[j]]
          /\ Goto(j, "push")
       \/ tagged = Commit[j] /\ Goto(j, "look") /\ UNCHANGED local
       \/ tagged \notin {Absent, Commit[j]} /\ Goto(j, "failed") /\ UNCHANGED local
  /\ UNCHANGED <<main, tags, releases, name, struck>>

\* Mutation: the push is forced.
PushTagForced(j) ==
  /\ at[j] = "push"
  /\ tags' = [tags EXCEPT ![name[j]] = Commit[j]]
  /\ Goto(j, "look")
  /\ UNCHANGED <<main, releases, local, name, struck>>

\* git push origin <tag>: refused when the remote has a tag of that name.
PushTag(j) ==
  /\ at[j] = "push"
  /\ \/ /\ tags[name[j]] = Absent
        /\ tags' = [tags EXCEPT ![name[j]] = Commit[j]]
        /\ Goto(j, "look")
     \/ /\ tags[name[j]] # Absent
        /\ Goto(j, "failed") /\ UNCHANGED tags
  /\ UNCHANGED <<main, releases, local, name, struck>>

\* create_release: GET releases/tags/<tag>; a release that exists is success.
Look(j) ==
  /\ at[j] = "look"
  /\ Goto(j, IF name[j] \in releases THEN "released" ELSE "publish")
  /\ UNCHANGED <<main, tags, releases, local, name, struck>>

\* create_release: POST releases.  GitHub refuses a second release of a tag, and
\* creates a tag that is not there at target_commitish.  A lost answer is an error.
Publish(j) ==
  /\ at[j] = "publish"
  /\ \/ /\ name[j] \notin releases
        /\ releases' = releases \cup {name[j]}
        /\ tags' = [tags EXCEPT ![name[j]] = IF @ = Absent THEN Commit[j] ELSE @]
        /\ Goto(j, "released") \/ Goto(j, "failed")
     \/ /\ name[j] \in releases
        /\ Goto(j, "failed") /\ UNCHANGED <<tags, releases>>
  /\ UNCHANGED <<main, local, name, struck>>

\* A command or a request fails, or the job is killed.  An answer that is lost is
\* a job that stops at its next place.
Stop(j) ==
  /\ at[j] \in Running
  /\ Goto(j, "failed")
  /\ UNCHANGED <<main, tags, releases, local, name, struck>>

\* External: a job is run again, in a new checkout or in the same one.
Rerun(j) ==
  /\ at[j] \in {"failed", "refused"}
  /\ Goto(j, "fetch")
  /\ \/ local' = [local EXCEPT ![j] = NoTags] /\ UNCHANGED struck
     \/ Strike("kept") /\ UNCHANGED local
  /\ UNCHANGED <<main, tags, releases, name>>

Next ==
  \E j \in Jobs :
    \/ Fetch(j) \/ FastForward(j) \/ LocalTag(j) \/ PushTag(j)
    \/ Look(j) \/ Publish(j) \/ Stop(j) \/ Rerun(j)

Spec == Init /\ [][Next]_vars

-----------------------------------------------------------------------------
(***************************************************************************)
(* Properties                                                              *)
(***************************************************************************)
\* The values every variable stays in.
TypeOK ==
  /\ main \in Commits
  /\ tags \in [Names -> Nat]
  /\ releases \subseteq Names
  /\ local \in [Jobs -> [Names -> Nat]]
  /\ at \in [Jobs -> Places]
  /\ name \in [Jobs -> Names]
  /\ struck \subseteq Faults

\* A job that ends well has released its own commit: the remote tag it reports
\* is at that commit and has a release.  (A second try in the same checkout may
\* take a tag it never pushed for the remote one.)
SuccessIsReleased ==
  "kept" \notin struck =>
    \A j \in Jobs : at[j] = "released" =>
      tags[name[j]] = Commit[j] /\ name[j] \in releases

\* Every version names a commit of the release branch.
ReleasedIsOnMain == \A n \in Patches : tags[<<"plain", n>>] <= main

\* While the fetches of tags succeed, versions grow with the history, whatever
\* jobs run at once and in whatever order they fail and are run again.
VersionsFollowHistory ==
  "fetch" \notin struck =>
    \A m, n \in Patches :
      m < n /\ tags[<<"plain", m>>] # Absent /\ tags[<<"plain", n>>] # Absent =>
        tags[<<"plain", m>>] <= tags[<<"plain", n>>]

\* While the fetches of tags succeed, a commit that is released again keeps its
\* version, also the one it had in the old scheme.
OneVersionPerCommit ==
  "fetch" \notin struck =>
    \A t, u \in Names : tags[t] = tags[u] /\ tags[t] # Absent /\ t[1] = "plain" => t = u

\* docs/release.md: a retry of the same commit uses its tag and release again.
\* A job whose commit has a tag is not refused.
RetryIsAccepted ==
  \A j \in Jobs : at[j] = "refused" => \A n \in Patches : tags[<<"plain", n>>] # Commit[j]

-----------------------------------------------------------------------------
(***************************************************************************)
(* What the versions promise                                               *)
(***************************************************************************)
Log == INSTANCE VersionLog WITH
  Old <- Legacy,
  version <- [n \in Patches |-> tags[<<"plain", n>>]],
  released <- {n \in Patches : <<"plain", n>> \in releases},
  guessing <- "fetch" \in struck

\* The jobs keep what VersionLog promises: a version never moves and never goes,
\* only a version has a release, and, while the fetches of tags succeed, every
\* version is next to the highest and given to a commit that is newer than all
\* that have one, although each job chose it from a checkout that may be old.
KeepsVersionLog == Log!Spec
=============================================================================
