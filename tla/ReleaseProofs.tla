--------------------------- MODULE ReleaseProofs ---------------------------
(***************************************************************************)
(* Proofs about Release, for any jobs, commits, old tags and failures.     *)
(*                                                                         *)
(* The heart of it is PendingInv: as long as the fetches of tags succeed,  *)
(* all names that jobs have chosen and nobody has pushed are one name, the *)
(* one after the highest tag of the remote.                                *)
(***************************************************************************)
EXTENDS Release, TLAPS

\* A release that is under way has moved the branch to its commit first.
MainInv ==
  /\ ReleasedIsOnMain
  /\ \A j \in Jobs :
       at[j] \in {"tag", "push", "look", "publish", "released"} => Commit[j] <= main

\* In a new checkout, the tags are the remote's.
SuccessInv == "kept" \notin struck => \A j \in Jobs :
  /\ at[j] = "fetch" => \A t \in Names : local[j][t] = Absent
  /\ at[j] \in {"forward", "tag"} =>
       \A t \in Names : local[j][t] # Absent => tags[t] = local[j][t]
  /\ at[j] \in {"look", "publish", "released"} => tags[name[j]] = Commit[j]
  /\ at[j] = "released" => name[j] \in releases

\* A patch number that is next, and a commit that has no tag.
Candidate(tagged, n, c) ==
  /\ n - 1 \in There(tagged) \cup {0}
  /\ \A m \in There(tagged) : m < n
  /\ \A t \in Names : tagged[t] # c

Choosing == {"forward", "tag", "push", "look", "publish"}

PendingInv == "fetch" \notin struck => \A j \in Jobs :
  /\ \A t \in Names : local[j][t] # Absent /\ tags[t] = Absent =>
       t[1] = "plain" /\ local[j][t] = Commit[j] /\ Candidate(tags, t[2], Commit[j])
  /\ at[j] \in Choosing /\ tags[name[j]] = Absent =>
       name[j][1] = "plain" /\ Candidate(tags, name[j][2], Commit[j])

\* Past the release branch, a job's commit is not older than any tagged one.
OrderInv == "fetch" \notin struck => \A j \in Jobs :
  at[j] \in Choosing \ {"forward"} /\ tags[name[j]] = Absent =>
    \A n \in Patches : tags[<<"plain", n>>] <= Commit[j]

\* Nobody makes a tag of the old scheme: a job that has chosen one has it.
LegacyInv ==
  /\ \A n \in Patches : tags[<<"legacy", n>>] = Legacy[n]
  /\ \A j \in Jobs :
       /\ \A n \in Patches : local[j][<<"legacy", n>>] \in {Absent, Legacy[n]}
       /\ at[j] \in Choosing /\ name[j][1] = "legacy" => local[j][name[j]] # Absent

IInv == /\ TypeOK /\ MainInv /\ SuccessInv /\ LegacyInv
        /\ PendingInv /\ OrderInv /\ VersionsFollowHistory /\ OneVersionPerCommit

-----------------------------------------------------------------------------
\* A name is a kind and a patch number.
LEMMA NameParts ==
  ASSUME NEW t \in Names
  PROVE  t[1] \in {"plain", "legacy"} /\ t[2] \in Patches /\ t = <<t[1], t[2]>>
BY DEF Names

LEMMA PlainIsName ==
  ASSUME NEW n \in Patches
  PROVE  <<"plain", n>> \in Names /\ <<"legacy", n>> \in Names
BY DEF Names

\* At most one patch number is next.
LEMMA OneCandidate ==
  ASSUME NEW m \in Patches, NEW n \in Patches, NEW c, NEW d, NEW tagged,
         Candidate(tagged, m, c), Candidate(tagged, n, d)
  PROVE  m = n
<1>1. m \in Nat /\ n \in Nat /\ m >= 1 /\ n >= 1
  BY DEF Patches
<1>2. \A x, y \in Nat : x >= 1 /\ y >= 1 /\ x < y => y - 1 >= x /\ y - 1 # 0 /\ ~(y - 1 < x)
  OBVIOUS
<1>3. n - 1 \in There(tagged) \cup {0} /\ m - 1 \in There(tagged) \cup {0}
  BY DEF Candidate
<1>4. ~(m < n)
  BY <1>1, <1>2, <1>3 DEF Candidate
<1>5. ~(n < m)
  BY <1>1, <1>2, <1>3 DEF Candidate
<1> QED BY <1>1, <1>4, <1>5

\* A step leaves the tags of the remote alone, or one job sets the tag of its
\* name, which was absent, to its commit.
Tags(j) ==
  /\ at[j] \in {"push", "publish"}
  /\ tags[name[j]] = Absent
  /\ tags' = [tags EXCEPT ![name[j]] = Commit[j]]
  /\ \A i \in Jobs : at'[i] \in Choosing => at'[i] = at[i] \/ i = j
  /\ UNCHANGED <<main, local, name, struck>>

LEMMA TagSteps ==
  ASSUME TypeOK, [Next]_vars
  PROVE  UNCHANGED tags \/ \E j \in Jobs : Tags(j)
<1>1. CASE UNCHANGED vars
  BY <1>1 DEF vars
<1>2. ASSUME NEW j \in Jobs, PushTag(j)
      PROVE  UNCHANGED tags \/ Tags(j)
  BY <1>2 DEF PushTag, Tags, Goto, TypeOK
<1>3. ASSUME NEW j \in Jobs, Publish(j)
      PROVE  UNCHANGED tags \/ Tags(j)
  <2>1. CASE tags[name[j]] = Absent
    BY <1>3, <2>1 DEF Publish, Tags, Goto, TypeOK
  <2>2. CASE tags[name[j]] # Absent
    BY <1>3, <2>2 DEF Publish, TypeOK
  <2> QED BY <2>1, <2>2
<1>4. ASSUME NEW j \in Jobs,
             Fetch(j) \/ FastForward(j) \/ LocalTag(j) \/ Look(j) \/ Stop(j) \/ Rerun(j)
      PROVE  UNCHANGED tags
  BY <1>4 DEF Fetch, FastForward, LocalTag, Look, Stop, Rerun
<1> QED BY <1>1, <1>2, <1>3, <1>4 DEF Next

\* A tag that is there stays where it is.
LEMMA TagsStay ==
  ASSUME TypeOK, [Next]_vars, NEW t \in Names, tags[t] # Absent
  PROVE  tags'[t] = tags[t]
BY TagSteps DEF Tags, TypeOK

-----------------------------------------------------------------------------
LEMMA TypeInit ==
  ASSUME ReleaseAssumption, Init
  PROVE  TypeOK
<1>1. tags \in [Names -> Nat]
  BY NameParts DEF Init, ReleaseAssumption, Absent
<1>2. NoTags \in [Names -> Nat]
  BY DEF NoTags, Absent
<1>3. <<"plain", 1>> \in Names
  <2>1. 1 \in Patches
    BY DEF Patches, ReleaseAssumption
  <2> QED BY <2>1, PlainIsName
<1>4. main \in Commits
  BY DEF Init, Commits, Absent
<1> QED BY <1>1, <1>2, <1>3, <1>4 DEF Init, TypeOK, Places

\* Every step keeps the types.
LEMMA TypeStep ==
  ASSUME ReleaseAssumption, TypeOK, [Next]_vars
  PROVE  TypeOK'
<1> USE DEF TypeOK, Commits
<1>1. CASE UNCHANGED vars
  BY <1>1 DEF vars
<1>2. CASE Next
  <2> PICK j \in Jobs : \/ Fetch(j) \/ FastForward(j) \/ LocalTag(j) \/ PushTag(j)
                        \/ Look(j) \/ Publish(j) \/ Stop(j) \/ Rerun(j)
    BY <1>2 DEF Next
  <2>1. Commit[j] \in Nat /\ Commit[j] # Absent
    BY DEF ReleaseAssumption
  <2>2. CASE Fetch(j)
    <3>1. Fetched(local[j]) \in [Names -> Nat]
      BY DEF Fetched
    <3>2. local' \in [Jobs -> [Names -> Nat]] /\ struck' \subseteq Faults
      BY <2>2, <3>1 DEF Fetch, Strike
    <3>3. name' \in [Jobs -> Names]
      BY <2>2 DEF Fetch, Aggregate
    <3>4. at' \in [Jobs -> Places]
      BY <2>2 DEF Fetch, Goto, Places
    <3> QED BY <2>2, <3>2, <3>3, <3>4 DEF Fetch
  <2>3. CASE FastForward(j)
    <3>1. Followed(local[j]) \in [Names -> Nat]
      BY DEF Followed
    <3>2. local' \in [Jobs -> [Names -> Nat]]
      BY <2>3, <3>1 DEF FastForward
    <3> QED BY <2>1, <2>3, <3>2 DEF FastForward, Goto, Places
  <2>4. CASE LocalTag(j)
    <3>1. local' \in [Jobs -> [Names -> Nat]]
      <4>1. local' = local \/ local' = [local EXCEPT ![j][name[j]] = Commit[j]]
        BY <2>4 DEF LocalTag
      <4> QED BY <2>1, <4>1
    <3>2. at' \in [Jobs -> Places]
      BY <2>4 DEF LocalTag, Goto, Places
    <3> QED BY <2>4, <3>1, <3>2 DEF LocalTag
  <2>5. CASE PushTag(j)
    BY <2>1, <2>5 DEF PushTag, Goto, Places
  <2>6. CASE Look(j)
    BY <2>6 DEF Look, Goto, Places
  <2>7. CASE Publish(j)
    <3>1. tags' \in [Names -> Nat]
      <4>1. tags' = tags \/ tags' = [tags EXCEPT ![name[j]] = IF @ = Absent THEN Commit[j] ELSE @]
        BY <2>7 DEF Publish
      <4> QED BY <2>1, <4>1
    <3>2. at' \in [Jobs -> Places]
      BY <2>7 DEF Publish, Goto, Places
    <3> QED BY <2>7, <3>1, <3>2 DEF Publish
  <2>8. CASE Stop(j)
    BY <2>8 DEF Stop, Goto, Places
  <2>9. CASE Rerun(j)
    <3>1. NoTags \in [Names -> Nat]
      BY DEF NoTags, Absent
    <3>2. local' \in [Jobs -> [Names -> Nat]] /\ struck' \subseteq Faults
      BY <2>9, <3>1 DEF Rerun, Strike
    <3> QED BY <2>9, <3>2 DEF Rerun, Goto, Places
  <2> QED BY <2>2, <2>3, <2>4, <2>5, <2>6, <2>7, <2>8, <2>9
<1> QED BY <1>1, <1>2

-----------------------------------------------------------------------------
\* Every step keeps the versions on the release branch.
LEMMA MainStep ==
  ASSUME ReleaseAssumption, TypeOK, MainInv, [Next]_vars
  PROVE  MainInv'
<1> USE DEF TypeOK, Commits
<1>1. CASE UNCHANGED vars
  BY <1>1 DEF vars, MainInv, ReleasedIsOnMain
<1>2. CASE Next
  <2> PICK j \in Jobs : \/ Fetch(j) \/ FastForward(j) \/ LocalTag(j) \/ PushTag(j)
                        \/ Look(j) \/ Publish(j) \/ Stop(j) \/ Rerun(j)
    BY <1>2 DEF Next
  <2>1. /\ main \in Nat /\ main' \in Nat /\ main <= main'
        /\ \A i \in Jobs : Commit[i] \in Nat
    BY DEF ReleaseAssumption, Fetch, FastForward, LocalTag, PushTag, Look, Publish, Stop, Rerun
  <2>2. \A i \in Jobs : at'[i] \in {"tag", "push", "look", "publish", "released"} =>
          \/ at[i] \in {"tag", "push", "look", "publish", "released"}
          \/ Commit[i] <= main'
    BY <2>1 DEF Fetch, FastForward, LocalTag, PushTag, Look, Publish, Stop, Rerun, Goto
  <2>3. \A i \in Jobs : at'[i] \in {"tag", "push", "look", "publish", "released"} =>
          Commit[i] <= main'
    BY <2>1, <2>2 DEF MainInv
  <2>4. \A n \in Patches : tags'[<<"plain", n>>] <= main'
    <3>1. CASE UNCHANGED tags
      <4> SUFFICES ASSUME NEW n \in Patches PROVE tags'[<<"plain", n>>] <= main'
        OBVIOUS
      <4>1. tags[<<"plain", n>>] \in Nat /\ tags[<<"plain", n>>] <= main
        BY PlainIsName DEF MainInv, ReleasedIsOnMain
      <4> QED BY <2>1, <3>1, <4>1
    <3>2. ASSUME NEW i \in Jobs, Tags(i) PROVE \A n \in Patches : tags'[<<"plain", n>>] <= main'
      <4>1. Commit[i] <= main /\ main' = main
        BY <3>2 DEF MainInv, Tags
      <4> QED BY <3>2, <4>1, PlainIsName DEF Tags, MainInv, ReleasedIsOnMain
    <3> QED BY <1>2, <3>1, <3>2, TagSteps
  <2> QED BY <2>3, <2>4 DEF MainInv, ReleasedIsOnMain
<1> QED BY <1>1, <1>2

\* Every step keeps what a job knows of the remote's tags.
LEMMA SuccessStep ==
  ASSUME ReleaseAssumption, TypeOK, SuccessInv, [Next]_vars
  PROVE  SuccessInv'
<1> DEFINE Known(i) ==
      /\ at[i] = "fetch" => \A t \in Names : local[i][t] = Absent
      /\ at[i] \in {"forward", "tag"} =>
           \A t \in Names : local[i][t] # Absent => tags[t] = local[i][t]
      /\ at[i] \in {"look", "publish", "released"} => tags[name[i]] = Commit[i]
      /\ at[i] = "released" => name[i] \in releases
<1>1. CASE UNCHANGED vars
  BY <1>1 DEF vars, SuccessInv
<1>2. CASE Next
  <2> PICK j \in Jobs : \/ Fetch(j) \/ FastForward(j) \/ LocalTag(j) \/ PushTag(j)
                        \/ Look(j) \/ Publish(j) \/ Stop(j) \/ Rerun(j)
    BY <1>2 DEF Next
  <2> SUFFICES ASSUME "kept" \notin struck', NEW i \in Jobs
               PROVE  Known(i)'
    BY DEF SuccessInv
  <2>1. struck \subseteq struck'
    BY DEF Fetch, FastForward, LocalTag, PushTag, Look, Publish, Stop, Rerun, Strike
  <2>2. Known(i) /\ Commit[i] # Absent /\ Commit[i] \in Nat
    BY <2>1 DEF SuccessInv, ReleaseAssumption, Commits
  <2>3. \A t \in Names : tags[t] # Absent => tags'[t] = tags[t]
    BY TagsStay
  <2>4. releases \subseteq releases'
    BY DEF Fetch, FastForward, LocalTag, PushTag, Look, Publish, Stop, Rerun
  <2>5. CASE i # j
    <3>1. at'[i] = at[i] /\ local'[i] = local[i] /\ name'[i] = name[i]
      BY <2>5 DEF Fetch, FastForward, LocalTag, PushTag, Look, Publish, Stop, Rerun, Goto, TypeOK
    <3>2. name[i] \in Names
      BY DEF TypeOK
    <3> QED BY <2>2, <2>3, <2>4, <3>1, <3>2
  <2>6. CASE i = j
    <3>1. CASE Fetch(i)
      <4>1. at[i] = "fetch" /\ at'[i] = "forward" /\ tags' = tags
        BY <3>1 DEF Fetch, Goto, TypeOK
      <4>2. local'[i] = local[i] \/ local'[i] = Fetched(local[i])
        BY <3>1 DEF Fetch, TypeOK
      <4>3. \A t \in Names : local'[i][t] # Absent => tags[t] = local'[i][t]
        BY <2>2, <4>1, <4>2 DEF Fetched
      <4> QED BY <4>1, <4>3
    <3>2. CASE FastForward(i)
      <4>1. /\ at[i] = "forward" /\ at'[i] \in {"tag", "refused", "failed"}
            /\ tags' = tags
            /\ local'[i] = local[i] \/ local'[i] = Followed(local[i])
        BY <3>2 DEF FastForward, Goto, TypeOK
      <4>2. \A t \in Names : local'[i][t] # Absent => tags[t] = local'[i][t]
        BY <2>2, <4>1 DEF Followed
      <4> QED BY <4>1, <4>2
    <3>3. CASE LocalTag(i)
      <4>1. at[i] = "tag" /\ name' = name /\ tags' = tags /\ name[i] \in Names
        BY <3>3 DEF LocalTag, TypeOK
      <4>2. CASE local[i][name[i]] = Commit[i]
        BY <2>2, <3>3, <4>1, <4>2 DEF LocalTag, Goto, TypeOK
      <4>3. CASE local[i][name[i]] # Commit[i]
        BY <3>3, <4>3 DEF LocalTag, Goto, TypeOK
      <4> QED BY <4>2, <4>3
    <3>4. CASE PushTag(i)
      BY <3>4 DEF PushTag, Goto, TypeOK
    <3>5. CASE Look(i)
      BY <2>2, <3>5 DEF Look, Goto, TypeOK
    <3>6. CASE Publish(i)
      <4>1. at[i] = "publish" /\ tags[name[i]] = Commit[i] /\ name[i] \in Names /\ name' = name
        BY <2>2, <3>6 DEF Publish, TypeOK
      <4>2. tags'[name[i]] = Commit[i]
        BY <2>2, <2>3, <4>1
      <4>3. at'[i] \in {"released", "failed"}
            /\ (at'[i] = "released" => name[i] \in releases')
        BY <3>6 DEF Publish, Goto, TypeOK
      <4> QED BY <4>1, <4>2, <4>3
    <3>7. CASE Stop(i)
      BY <3>7 DEF Stop, Goto, TypeOK
    <3>8. CASE Rerun(i)
      <4>1. at'[i] = "fetch" /\ local'[i] = NoTags
        BY <3>8 DEF Rerun, Goto, Strike, TypeOK
      <4> QED BY <4>1 DEF NoTags
    <3> QED BY <2>6, <3>1, <3>2, <3>3, <3>4, <3>5, <3>6, <3>7, <3>8
  <2> QED BY <2>5, <2>6
<1> QED BY <1>1, <1>2

-----------------------------------------------------------------------------
\* Once a tag is set, no other name that a job has chosen is absent.
LEMMA NothingPending ==
  ASSUME ReleaseAssumption, TypeOK, PendingInv, "fetch" \notin struck,
         NEW j \in Jobs, Tags(j), NEW i \in Jobs, NEW t \in Names, tags'[t] = Absent,
         \/ local[i][t] # Absent
         \/ at[i] \in Choosing /\ t = name[i]
  PROVE  FALSE
<1>1. name[j] \in Names /\ name[j][1] = "plain" /\ Candidate(tags, name[j][2], Commit[j])
  BY DEF Tags, PendingInv, Choosing, TypeOK
<1>2. tags[t] = Absent /\ t # name[j]
  BY DEF Tags, TypeOK, ReleaseAssumption, Commits
<1>3. t[1] = "plain" /\ Candidate(tags, t[2], Commit[i])
  BY <1>2 DEF PendingInv
<1>4. t[2] \in Patches /\ name[j][2] \in Patches
  BY <1>1, NameParts
<1>5. t[2] = name[j][2]
  BY <1>1, <1>3, <1>4, OneCandidate
<1> QED BY <1>1, <1>2, <1>3, <1>5, NameParts

\* The name that a successful fetch leads to: when it is not on the remote it is
\* the next one, or the one that the checkout already has for the commit.
LEMMA FetchChooses ==
  ASSUME ReleaseAssumption, TypeOK, PendingInv, "fetch" \notin struck,
         NEW j \in Jobs, NEW t \in Aggregate(Fetched(local[j]), Commit[j]),
         tags[t] = Absent
  PROVE  t[1] = "plain" /\ Candidate(tags, t[2], Commit[j])
<1> DEFINE L == Fetched(local[j])
           c == Commit[j]
<1>1. t \in Names /\ t = <<t[1], t[2]>> /\ t[2] \in Patches /\ c # Absent
  BY NameParts DEF Aggregate, ReleaseAssumption, Commits
<1>2. \A u \in Names : /\ tags[u] # Absent => L[u] = tags[u]
                       /\ tags[u] = Absent => L[u] = local[j][u]
  BY DEF Fetched
<1>3. \A u \in Names : L[u] # Absent /\ tags[u] = Absent =>
        u[1] = "plain" /\ L[u] = c /\ Candidate(tags, u[2], c)
  BY <1>2 DEF PendingInv
<1>4. CASE L[t] = c
  BY <1>1, <1>3, <1>4
<1>5. CASE L[t] # c
  <2>1. \A kind \in {"plain", "legacy"} : t[1] = kind => t[2] \notin Here(L, kind, c)
    BY <1>1, <1>5 DEF Here
  <2>2. /\ Here(L, "plain", c) = {} /\ Here(L, "legacy", c) = {}
        /\ t[1] = "plain" /\ t[2] - 1 \in Highest(There(L) \cup {0})
    BY <2>1 DEF Aggregate, Highest
  <2>3. \A u \in Names : L[u] # c
    <3> SUFFICES ASSUME NEW u \in Names, L[u] = c PROVE FALSE
      OBVIOUS
    <3>1. u[2] \in Here(L, u[1], c) /\ u[1] \in {"plain", "legacy"}
      BY NameParts DEF Here
    <3> QED BY <2>2, <3>1
  <2>4. \A u \in Names : L[u] = tags[u]
    BY <1>2, <1>3, <2>3
  <2>5. There(L) = There(tags)
    BY <2>4, PlainIsName DEF There
  <2>6. t[2] - 1 \in There(tags) \cup {0}
    BY <2>2, <2>5 DEF Highest
  <2>7. \A m \in There(tags) : m <= t[2] - 1 /\ m \in Nat
    BY <2>2, <2>5 DEF Highest, There, Patches
  <2>8. t[2] \in Nat
    BY <1>1 DEF Patches
  <2>9. \A m \in There(tags) : m < t[2]
    BY <2>7, <2>8
  <2> QED BY <2>2, <2>3, <2>4, <2>6, <2>9 DEF Candidate
<1> QED BY <1>4, <1>5

\* Every step keeps what is known of the names chosen.
LEMMA PendingStep ==
  ASSUME ReleaseAssumption, TypeOK, PendingInv, [Next]_vars
  PROVE  PendingInv'
<1> SUFFICES ASSUME "fetch" \notin struck', NEW i \in Jobs
             PROVE  /\ \A t \in Names : local'[i][t] # Absent /\ tags'[t] = Absent =>
                         /\ t[1] = "plain" /\ local'[i][t] = Commit[i]
                         /\ Candidate(tags', t[2], Commit[i])
                    /\ at'[i] \in Choosing /\ tags'[name'[i]] = Absent =>
                         name'[i][1] = "plain" /\ Candidate(tags', name'[i][2], Commit[i])
  BY DEF PendingInv
<1>1. name[i] \in Names /\ Commit[i] \in Nat /\ Commit[i] # Absent
  BY DEF TypeOK, ReleaseAssumption, Commits
<1>2. "fetch" \notin struck
  BY DEF Next, Fetch, FastForward, LocalTag, PushTag, Look, Publish, Stop, Rerun, Strike, vars
<1>3. ASSUME NEW j \in Jobs, Tags(j)
      PROVE  /\ \A t \in Names : ~(local'[i][t] # Absent /\ tags'[t] = Absent)
             /\ ~(at'[i] \in Choosing /\ tags'[name'[i]] = Absent)
  <2>1. local' = local /\ name' = name /\ (at'[i] \in Choosing => at[i] \in Choosing)
    BY <1>3 DEF Tags, Choosing
  <2> QED BY <1>1, <1>2, <1>3, <2>1, NothingPending
<1>4. CASE UNCHANGED tags
  <2>1. /\ \A t \in Names : local[i][t] # Absent /\ tags[t] = Absent =>
             t[1] = "plain" /\ local[i][t] = Commit[i] /\ Candidate(tags, t[2], Commit[i])
        /\ at[i] \in Choosing /\ tags[name[i]] = Absent =>
             name[i][1] = "plain" /\ Candidate(tags, name[i][2], Commit[i])
    BY <1>2 DEF PendingInv
  <2>2. CASE Fetch(i)
    <3>1. local'[i] = Fetched(local[i]) /\ name'[i] \in Aggregate(Fetched(local[i]), Commit[i])
      BY <2>2 DEF Fetch, Strike, TypeOK
    <3>2. \A t \in Names : tags[t] = Absent => local'[i][t] = local[i][t]
      BY <3>1 DEF Fetched
    <3>3. tags[name'[i]] = Absent =>
            name'[i][1] = "plain" /\ Candidate(tags, name'[i][2], Commit[i])
      BY <1>2, <3>1, FetchChooses
    <3> QED BY <1>4, <2>1, <3>2, <3>3
  <2>3. CASE LocalTag(i)
    <3>1. name' = name /\ at[i] \in Choosing
      BY <2>3 DEF LocalTag, Choosing
    <3>2. local' = local \/ local' = [local EXCEPT ![i][name[i]] = Commit[i]]
      BY <2>3 DEF LocalTag
    <3>3. local'[i] = local[i] \/ local'[i] = [local[i] EXCEPT ![name[i]] = Commit[i]]
      BY <3>2 DEF TypeOK
    <3>4. \A t \in Names :
            \/ local'[i][t] = local[i][t]
            \/ t = name[i] /\ local'[i][t] = Commit[i]
      BY <1>1, <3>3 DEF TypeOK
    <3> QED BY <1>4, <2>1, <3>1, <3>4
  <2>4. CASE ~Fetch(i) /\ ~LocalTag(i)
    <3>1. /\ name'[i] = name[i]
          /\ local'[i] = local[i] \/ local'[i] = NoTags \/ local'[i] = Followed(local[i])
      BY <2>4 DEF Next, Fetch, FastForward, LocalTag, PushTag, Look, Publish, Stop, Rerun, vars, TypeOK
    <3>2. at'[i] \in Choosing => at[i] \in Choosing
      BY <2>4 DEF Next, Fetch, FastForward, LocalTag, PushTag, Look, Publish, Stop, Rerun,
                  vars, Goto, Choosing, TypeOK, Running, Places
    <3>3. \A t \in Names :
            tags[t] = Absent => local'[i][t] = local[i][t] \/ local'[i][t] = Absent
      BY <3>1 DEF NoTags, Followed
    <3> QED BY <1>4, <2>1, <3>1, <3>2, <3>3
  <2> QED BY <2>2, <2>3, <2>4
<1> QED BY <1>3, <1>4, TagSteps

\* Every step keeps the order of a job's commit and the tags.
LEMMA OrderStep ==
  ASSUME ReleaseAssumption, TypeOK, MainInv, PendingInv, OrderInv, [Next]_vars
  PROVE  OrderInv'
<1> SUFFICES ASSUME "fetch" \notin struck', NEW i \in Jobs,
                    at'[i] \in Choosing \ {"forward"}, tags'[name'[i]] = Absent,
                    NEW n \in Patches
             PROVE  tags'[<<"plain", n>>] <= Commit[i]
  BY DEF OrderInv
<1>1. name[i] \in Names /\ Commit[i] \in Nat /\ tags[<<"plain", n>>] \in Nat /\ main \in Nat
  BY PlainIsName DEF TypeOK, ReleaseAssumption, Commits
<1>2. "fetch" \notin struck
  BY DEF Next, Fetch, FastForward, LocalTag, PushTag, Look, Publish, Stop, Rerun, Strike, vars
<1>3. ASSUME NEW j \in Jobs, Tags(j) PROVE FALSE
  <2>1. name' = name /\ at[i] \in Choosing
    BY <1>3 DEF Tags, Choosing
  <2> QED BY <1>1, <1>2, <1>3, <2>1, NothingPending
<1>4. CASE UNCHANGED tags
  <2>1. CASE FastForward(i)
    <3>1. main <= Commit[i]
      BY <2>1 DEF FastForward, Goto, TypeOK, Choosing
    <3>2. tags[<<"plain", n>>] <= main
      BY DEF MainInv, ReleasedIsOnMain
    <3> QED BY <1>1, <1>4, <3>1, <3>2
  <2>2. CASE ~FastForward(i)
    <3>1. at[i] \in Choosing \ {"forward"} /\ name'[i] = name[i]
      BY <2>2 DEF Next, Fetch, FastForward, LocalTag, PushTag, Look, Publish, Stop, Rerun,
                  vars, Goto, Choosing, TypeOK, Running, Places
    <3> QED BY <1>2, <1>4, <3>1 DEF OrderInv
  <2> QED BY <2>1, <2>2
<1> QED BY <1>3, <1>4, TagSteps

\* Every step keeps the versions in the order of the history.
LEMMA VersionsStep ==
  ASSUME ReleaseAssumption, TypeOK, PendingInv, OrderInv, VersionsFollowHistory, [Next]_vars
  PROVE  VersionsFollowHistory'
<1> SUFFICES ASSUME "fetch" \notin struck', NEW m \in Patches, NEW n \in Patches, m < n,
                    tags'[<<"plain", m>>] # Absent, tags'[<<"plain", n>>] # Absent
             PROVE  tags'[<<"plain", m>>] <= tags'[<<"plain", n>>]
  BY DEF VersionsFollowHistory
<1>1. "fetch" \notin struck
  BY DEF Next, Fetch, FastForward, LocalTag, PushTag, Look, Publish, Stop, Rerun, Strike, vars
<1>2. CASE UNCHANGED tags
  BY <1>1, <1>2 DEF VersionsFollowHistory
<1>3. ASSUME NEW j \in Jobs, Tags(j)
      PROVE  tags'[<<"plain", m>>] <= tags'[<<"plain", n>>]
  <2>1. name[j] \in Names /\ name[j][1] = "plain" /\ Candidate(tags, name[j][2], Commit[j])
    BY <1>1, <1>3 DEF Tags, PendingInv, Choosing, TypeOK
  <2>2. \A t \in Names : t # name[j] => tags'[t] = tags[t]
    BY <1>3 DEF Tags, TypeOK
  <2>3. tags'[name[j]] = Commit[j]
    BY <1>3, <2>1 DEF Tags, TypeOK
  <2>4. <<"plain", m>> \in Names /\ <<"plain", n>> \in Names
    BY PlainIsName
  <2>5. CASE n = name[j][2]
    <3>1. <<"plain", n>> = name[j] /\ <<"plain", m>> # name[j]
      <4>1. m # n
        BY DEF Patches
      <4> QED BY <2>1, <2>5, <4>1, NameParts
    <3>2. tags[<<"plain", m>>] <= Commit[j]
      BY <1>1, <1>3 DEF OrderInv, Tags, Choosing
    <3> QED BY <2>2, <2>3, <2>4, <3>1, <3>2
  <2>6. CASE n # name[j][2]
    <3>1. <<"plain", n>> # name[j] /\ tags[<<"plain", n>>] # Absent
      BY <2>2, <2>4, <2>6
    <3>2. n \in There(tags)
      BY <3>1 DEF There
    <3>3. m # name[j][2]
      <4>1. n < name[j][2]
        BY <2>1, <3>2 DEF Candidate
      <4>2. m \in Nat /\ n \in Nat /\ name[j][2] \in Nat
        BY <2>1, NameParts DEF Patches
      <4> QED BY <4>1, <4>2
    <3>4. <<"plain", m>> # name[j]
      BY <3>3
    <3> QED BY <1>1, <2>2, <2>4, <3>1, <3>4 DEF VersionsFollowHistory
  <2> QED BY <2>5, <2>6
<1> QED BY <1>2, <1>3, TagSteps

\* Every step keeps one version for each commit.
LEMMA OneVersionStep ==
  ASSUME ReleaseAssumption, TypeOK, PendingInv, OneVersionPerCommit, [Next]_vars
  PROVE  OneVersionPerCommit'
<1> SUFFICES ASSUME "fetch" \notin struck', NEW t \in Names, NEW u \in Names,
                    tags'[t] = tags'[u], tags'[t] # Absent, t[1] = "plain"
             PROVE  t = u
  BY DEF OneVersionPerCommit
<1>1. "fetch" \notin struck
  BY DEF Next, Fetch, FastForward, LocalTag, PushTag, Look, Publish, Stop, Rerun, Strike, vars
<1>2. CASE UNCHANGED tags
  BY <1>1, <1>2 DEF OneVersionPerCommit
<1>3. ASSUME NEW j \in Jobs, Tags(j) PROVE t = u
  <2>1. \A v \in Names : tags[v] # Commit[j]
    BY <1>1, <1>3 DEF Tags, PendingInv, Choosing, Candidate
  <2>2. \A v \in Names : tags'[v] = IF v = name[j] THEN Commit[j] ELSE tags[v]
    BY <1>3 DEF Tags, TypeOK
  <2> QED BY <1>1, <2>1, <2>2 DEF OneVersionPerCommit
<1> QED BY <1>2, <1>3, TagSteps

-----------------------------------------------------------------------------
\* A job that is about to set a tag sets one of the new scheme.
LEMMA TagsArePlain ==
  ASSUME TypeOK, LegacyInv, NEW j \in Jobs, Tags(j)
  PROVE  name[j][1] = "plain" /\ name[j][2] \in Patches /\ name[j] = <<"plain", name[j][2]>>
<1>1. name[j] \in Names /\ at[j] \in Choosing /\ tags[name[j]] = Absent
  BY DEF TypeOK, Tags, Choosing
<1>2. name[j][1] # "legacy"
  <2> SUFFICES ASSUME name[j][1] = "legacy" PROVE FALSE
    OBVIOUS
  <2>1. name[j] = <<"legacy", name[j][2]>> /\ name[j][2] \in Patches
    BY <1>1, NameParts
  <2> DEFINE n == name[j][2]
  <2>2. /\ local[j][name[j]] # Absent
        /\ local[j][<<"legacy", n>>] \in {Absent, Legacy[n]}
        /\ tags[<<"legacy", n>>] = Legacy[n]
    BY <1>1, <2>1 DEF LegacyInv
  <2>3. local[j][<<"legacy", n>>] # Absent /\ tags[<<"legacy", n>>] = Absent
    BY <1>1, <2>1, <2>2
  <2> QED BY <2>2, <2>3
<1> QED BY <1>1, <1>2, NameParts

\* Every step leaves the tags of the old scheme alone.
LEMMA LegacyStep ==
  ASSUME ReleaseAssumption, TypeOK, LegacyInv, [Next]_vars
  PROVE  LegacyInv'
<1>1. ASSUME NEW n \in Patches PROVE tags'[<<"legacy", n>>] = Legacy[n]
  <2>1. ASSUME NEW j \in Jobs, Tags(j) PROVE tags'[<<"legacy", n>>] = tags[<<"legacy", n>>]
    <3>1. name[j] # <<"legacy", n>>
      BY <2>1, TagsArePlain
    <3> QED BY <2>1, <3>1, PlainIsName DEF Tags, TypeOK
  <2> QED BY <2>1, TagSteps DEF LegacyInv
<1>2. ASSUME NEW i \in Jobs
      PROVE  /\ \A n \in Patches : local'[i][<<"legacy", n>>] \in {Absent, Legacy[n]}
             /\ at'[i] \in Choosing /\ name'[i][1] = "legacy" => local'[i][name'[i]] # Absent
  <2>1. /\ \A n \in Patches : local[i][<<"legacy", n>>] \in {Absent, Legacy[n]}
        /\ at[i] \in Choosing /\ name[i][1] = "legacy" => local[i][name[i]] # Absent
        /\ \A n \in Patches : tags[<<"legacy", n>>] = Legacy[n]
        /\ name[i] \in Names /\ Commit[i] \in Nat /\ Commit[i] # Absent
    BY DEF LegacyInv, TypeOK, ReleaseAssumption, Commits
  <2>2. CASE Fetch(i)
    <3>1. /\ local'[i] = local[i] \/ local'[i] = Fetched(local[i])
          /\ name'[i] \in Aggregate(local'[i], Commit[i])
      BY <2>2 DEF Fetch, TypeOK
    <3>2. \A n \in Patches : local'[i][<<"legacy", n>>] \in {Absent, Legacy[n]}
      BY <2>1, <3>1, PlainIsName DEF Fetched
    <3>3. ASSUME name'[i][1] = "legacy" PROVE local'[i][name'[i]] # Absent
      <4>1. name'[i] \in Names /\ name'[i][2] \in Here(local'[i], "legacy", Commit[i])
        BY <3>1, <3>3 DEF Aggregate, Highest
      <4>2. name'[i] = <<"legacy", name'[i][2]>>
        BY <3>3, <4>1, NameParts
      <4> QED BY <2>1, <4>1, <4>2 DEF Here
    <3> QED BY <3>2, <3>3
  <2>3. CASE LocalTag(i)
    <3>1. /\ name' = name /\ at[i] \in Choosing
          /\ local' = local \/ (local[i][name[i]] = Absent
                               /\ local' = [local EXCEPT ![i][name[i]] = Commit[i]])
      BY <2>3 DEF LocalTag, Choosing
    <3>2. CASE local' = local
      BY <2>1, <3>1, <3>2
    <3>3. CASE local' # local
      <4>1. name[i][1] = "plain"
        BY <2>1, <3>1, <3>3, NameParts
      <4>2. \A t \in Names : t # name[i] => local'[i][t] = local[i][t]
        BY <2>1, <3>1, <3>3 DEF TypeOK
      <4>3. ASSUME NEW n \in Patches PROVE <<"legacy", n>> # name[i] /\ <<"legacy", n>> \in Names
        <5>1. <<"legacy", n>>[1] = "legacy"
          OBVIOUS
        <5> QED BY <4>1, <5>1, PlainIsName
      <4> QED BY <2>1, <3>1, <4>1, <4>2, <4>3
    <3> QED BY <3>2, <3>3
  <2>4. CASE ~Fetch(i) /\ ~LocalTag(i)
    <3>1. /\ name'[i] = name[i]
          /\ \/ local'[i] = local[i] \/ local'[i] = Followed(local[i])
             \/ local'[i] = NoTags /\ at'[i] = "fetch"
      BY <2>4 DEF Next, Fetch, FastForward, LocalTag, PushTag, Look, Publish, Stop, Rerun,
                  vars, Goto, TypeOK
    <3>2. at'[i] \in Choosing => at[i] \in Choosing
      BY <2>4 DEF Next, Fetch, FastForward, LocalTag, PushTag, Look, Publish, Stop, Rerun,
                  vars, Goto, Choosing, TypeOK, Running, Places
    <3>3. CASE local'[i] = local[i] \/ local'[i] = Followed(local[i])
      <4>1. /\ \A n \in Patches : local'[i][<<"legacy", n>>] \in {Absent, Legacy[n]}
            /\ local[i][name[i]] # Absent => local'[i][name[i]] # Absent
        BY <2>1, <3>3, PlainIsName DEF Followed
      <4> QED BY <2>1, <3>1, <3>2, <4>1
    <3>4. CASE local'[i] = NoTags /\ at'[i] = "fetch"
      BY <3>4, PlainIsName DEF NoTags, Choosing
    <3> QED BY <3>1, <3>3, <3>4
  <2> QED BY <2>2, <2>3, <2>4
<1> QED BY <1>1, <1>2 DEF LegacyInv

-----------------------------------------------------------------------------
\* The invariant holds of every execution.
THEOREM Invariance ==
  ASSUME ReleaseAssumption
  PROVE  Spec => []IInv
<1>1. Init => IInv
  <2> SUFFICES ASSUME Init PROVE IInv
    OBVIOUS
  <2>1. TypeOK
    BY TypeInit
  <2>2. /\ \A j \in Jobs : at[j] = "fetch" /\ \A t \in Names : local[j][t] = Absent
        /\ \A t \in Names : t[1] = "plain" => tags[t] = Absent
    BY DEF Init, NoTags
  <2>3. \A n \in Patches : tags[<<"plain", n>>] = Absent
    BY <2>2, PlainIsName
  <2>4. main = 1
    BY DEF Init
  <2>5. MainInv
    BY <2>2, <2>3, <2>4 DEF MainInv, ReleasedIsOnMain, Absent
  <2>6. SuccessInv /\ PendingInv /\ OrderInv
    BY <2>2 DEF SuccessInv, PendingInv, OrderInv, Choosing
  <2>7. VersionsFollowHistory /\ OneVersionPerCommit
    BY <2>2, <2>3 DEF VersionsFollowHistory, OneVersionPerCommit
  <2>8. LegacyInv
    BY <2>2, PlainIsName DEF LegacyInv, Init, Choosing
  <2> QED BY <2>1, <2>5, <2>6, <2>7, <2>8 DEF IInv
<1>2. IInv /\ [Next]_vars => IInv'
  BY TypeStep, MainStep, SuccessStep, LegacyStep, PendingStep, OrderStep, VersionsStep, OneVersionStep DEF IInv
<1> QED BY <1>1, <1>2, PTL DEF Spec

\* Every variable stays in its type.
THEOREM TypeCorrect ==
  ASSUME ReleaseAssumption
  PROVE  Spec => []TypeOK
BY Invariance, PTL DEF IInv

\* Every version names a commit of the release branch.
THEOREM MainCorrect ==
  ASSUME ReleaseAssumption
  PROVE  Spec => []ReleasedIsOnMain
<1>1. IInv => ReleasedIsOnMain
  BY DEF IInv, MainInv
<1> QED BY <1>1, Invariance, PTL

\* A job that ends well has released its own commit.
THEOREM SuccessCorrect ==
  ASSUME ReleaseAssumption
  PROVE  Spec => []SuccessIsReleased
<1>1. IInv => SuccessIsReleased
  BY DEF IInv, SuccessInv, SuccessIsReleased
<1> QED BY <1>1, Invariance, PTL

\* Versions grow with the history.
THEOREM VersionsCorrect ==
  ASSUME ReleaseAssumption
  PROVE  Spec => []VersionsFollowHistory
<1>1. IInv => VersionsFollowHistory
  BY DEF IInv
<1> QED BY <1>1, Invariance, PTL

\* A commit has one version.
THEOREM OneVersionCorrect ==
  ASSUME ReleaseAssumption
  PROVE  Spec => []OneVersionPerCommit
<1>1. IInv => OneVersionPerCommit
  BY DEF IInv
<1> QED BY <1>1, Invariance, PTL

-----------------------------------------------------------------------------
\* The numbers in use are those of the tags of both schemes.
LEMMA UsedIsThere ==
  ASSUME LegacyInv
  PROVE  Log!Used = There(tags)
BY DEF LegacyInv, Log!Used, There

\* A tag that a job sets is a version of VersionLog.
LEMMA TagIsNumber ==
  ASSUME ReleaseAssumption, IInv, NEW j \in Jobs, Tags(j),
         releases' \in {releases, releases \cup {name[j]}}
  PROVE  \E n \in Patches, c \in 1 .. main : Log!Number(n, c)
<1>1. PICK n \in Patches : name[j] = <<"plain", n>> /\ name[j] \in Names
  BY TagsArePlain DEF IInv, TypeOK
<1> DEFINE c == Commit[j]
           version == [m \in Patches |-> tags[<<"plain", m>>]]
           released == {m \in Patches : <<"plain", m>> \in releases}
<1>2. c \in 1 .. main /\ main' = main
  BY DEF Tags, IInv, MainInv, TypeOK, ReleaseAssumption, Commits, Absent
<1>3. ASSUME NEW m \in Patches
      PROVE  tags'[<<"plain", m>>] = IF m = n THEN c ELSE tags[<<"plain", m>>]
  <2>1. <<"plain", m>> \in Names /\ <<"plain", m>>[2] = m
    BY PlainIsName
  <2>2. tags' = [tags EXCEPT ![name[j]] = c] /\ tags \in [Names -> Nat]
    BY DEF Tags, IInv, TypeOK
  <2>3. m = n <=> <<"plain", m>> = name[j]
    BY <1>1, <2>1
  <2> QED BY <2>1, <2>2, <2>3
<1>4. version[n] = Absent /\ version' = [version EXCEPT ![n] = c]
  BY <1>1, <1>3 DEF Tags
<1>5. released' \in {released, released \cup {n}}
  <2>1. CASE releases' = releases
    BY <2>1
  <2>2. CASE releases' = releases \cup {<<"plain", n>>}
    <3>1. \A m \in Patches : <<"plain", m>> \in releases' <=> (<<"plain", m>> \in releases \/ m = n)
      BY <2>2
    <3>2. released' = released \cup {n}
      BY <1>1, <3>1
    <3> QED BY <3>2
  <2> QED BY <1>1, <2>1, <2>2
<1>6. ASSUME "fetch" \notin struck PROVE Log!IsNext(n) /\ Log!IsNewest(c)
  <2>1. Candidate(tags, n, c)
    BY <1>1, <1>6 DEF Tags, IInv, PendingInv, Choosing
  <2>2. Log!IsNext(n)
    BY <2>1, UsedIsThere DEF IInv, Candidate, Log!IsNext
  <2>3. \A m \in Patches : tags[<<"plain", m>>] <= c
    BY <1>6 DEF Tags, IInv, OrderInv, Choosing
  <2>4. \A m \in Patches : tags[<<"plain", m>>] # c /\ Legacy[m] # c
    BY <2>1, PlainIsName DEF Candidate, IInv, LegacyInv
  <2> QED BY <2>2, <2>3, <2>4 DEF Log!IsNewest
<1>7. ("fetch" \in struck)' = ("fetch" \in struck)
  BY DEF Tags
<1>8. Log!Number(n, c)
  BY <1>2, <1>4, <1>5, <1>6, <1>7 DEF Log!Number
<1> QED BY <1>1, <1>2, <1>8

\* What is not a tag or a release of the new scheme is nothing to VersionLog.
LEMMA SameLog ==
  ASSUME UNCHANGED <<tags, releases>>
  PROVE  UNCHANGED <<[n \in Patches |-> tags[<<"plain", n>>]],
                     {n \in Patches : <<"plain", n>> \in releases}>>
OBVIOUS

\* Every step of a job is a step of VersionLog, or none.
LEMMA LogStep ==
  ASSUME ReleaseAssumption, IInv, [Next]_vars
  PROVE  [Log!Next]_(Log!vars)
<1> USE DEF Log!vars
<1>1. CASE UNCHANGED vars
  BY <1>1, SameLog DEF vars
<1>2. CASE Next
  <2> PICK j \in Jobs : \/ Fetch(j) \/ FastForward(j) \/ LocalTag(j) \/ PushTag(j)
                        \/ Look(j) \/ Publish(j) \/ Stop(j) \/ Rerun(j)
    BY <1>2 DEF Next
  <2>1. CASE Fetch(j)
    <3>1. UNCHANGED <<tags, releases, main>> /\ (struck' = struck \/ struck' = struck \cup {"fetch"})
      BY <2>1 DEF Fetch, Strike
    <3>2. CASE "fetch" \in struck'
      <4>1. Log!Guess
        BY <3>1, <3>2, SameLog DEF Log!Guess
      <4> QED BY <4>1 DEF Log!Next
    <3>3. CASE "fetch" \notin struck'
      BY <3>1, <3>3, SameLog
    <3> QED BY <3>2, <3>3
  <2>2. CASE FastForward(j)
    <3>1. UNCHANGED <<tags, releases, struck>> /\ main' \in Nat /\ main' >= main
      BY <2>2 DEF FastForward, IInv, TypeOK, ReleaseAssumption, Commits
    <3>2. Log!Advance
      BY <3>1, SameLog DEF Log!Advance
    <3> QED BY <3>2 DEF Log!Next
  <2>3. CASE LocalTag(j) \/ Look(j) \/ Stop(j) \/ Rerun(j)
    <3>1. UNCHANGED <<tags, releases, main>> /\ ("fetch" \in struck' <=> "fetch" \in struck)
      BY <2>3 DEF LocalTag, Look, Stop, Rerun, Strike
    <3> QED BY <3>1, SameLog
  <2>4. CASE PushTag(j)
    <3>1. CASE Tags(j)
      <4>1. releases' = releases
        BY <2>4 DEF PushTag
      <4> QED BY <3>1, <4>1, TagIsNumber DEF Log!Next
    <3>2. CASE tags[name[j]] # Absent
      <4>1. UNCHANGED <<tags, releases, main, struck>>
        BY <2>4, <3>2 DEF PushTag
      <4> QED BY <4>1, SameLog
    <3>3. Tags(j) \/ tags[name[j]] # Absent
      BY <2>4 DEF PushTag, Tags, Goto, IInv, TypeOK
    <3> QED BY <3>1, <3>2, <3>3
  <2>5. CASE Publish(j)
    <3>1. UNCHANGED <<main, struck>> /\ (releases' = releases \/ releases' = releases \cup {name[j]})
      BY <2>5 DEF Publish
    <3>2. CASE Tags(j)
      <4>1. releases' \in {releases, releases \cup {name[j]}}
        BY <3>1
      <4> QED BY <3>2, <4>1, TagIsNumber DEF Log!Next
    <3>3. CASE ~Tags(j)
      <4>1. tags' = tags
        BY <2>5, <3>3 DEF Publish, Tags, Goto, IInv, TypeOK
      <4>2. CASE releases' = releases
        BY <3>1, <4>1, <4>2, SameLog
      <4>3. CASE releases' # releases
        <5>1. name[j] \in Names /\ tags[name[j]] # Absent /\ releases' = releases \cup {name[j]}
          BY <2>5, <3>1, <3>3, <4>3 DEF Publish, Tags, Goto, IInv, TypeOK
        <5>2. CASE name[j][1] = "plain"
          <6>1. PICK n \in Patches : name[j] = <<"plain", n>>
            BY <5>1, <5>2, NameParts
          <6> DEFINE released == {m \in Patches : <<"plain", m>> \in releases}
          <6>2. \A m \in Patches : <<"plain", m>> \in releases' <=> (<<"plain", m>> \in releases \/ m = n)
            BY <5>1, <6>1
          <6>3. released' = released \cup {n}
            BY <6>1, <6>2
          <6>4. Log!Release(n)
            <7>1. tags[<<"plain", n>>] # Absent
              BY <5>1, <6>1
            <7>2. /\ [m \in Patches |-> tags[<<"plain", m>>]][n] # Absent
                  /\ UNCHANGED [m \in Patches |-> tags[<<"plain", m>>]]
                  /\ UNCHANGED <<main, "fetch" \in struck>>
              BY <3>1, <4>1, <6>1, <7>1
            <7> QED BY <6>3, <7>2 DEF Log!Release
          <6> QED BY <6>4 DEF Log!Next
        <5>3. CASE name[j][1] # "plain"
          <6>1. \A m \in Patches : <<"plain", m>> \in releases' <=> <<"plain", m>> \in releases
            BY <5>1, <5>3
          <6> QED BY <3>1, <4>1, <6>1
        <5> QED BY <5>2, <5>3
      <4> QED BY <4>2, <4>3
    <3> QED BY <3>2, <3>3
  <2> QED BY <2>1, <2>2, <2>3, <2>4, <2>5
<1> QED BY <1>1, <1>2

\* The release jobs implement VersionLog: whatever jobs run at once, fail and are
\* run again, a version never moves, and is the next one unless a fetch failed.
THEOREM VersionLogKept ==
  ASSUME ReleaseAssumption
  PROVE  Spec => KeepsVersionLog
<1>1. Init => Log!Init
  <2> SUFFICES ASSUME Init PROVE Log!Init
    OBVIOUS
  <2>1. \A n \in Patches : tags[<<"plain", n>>] = Absent
    BY PlainIsName DEF Init
  <2> QED BY <2>1 DEF Init, Log!Init
<1>2. IInv /\ [Next]_vars => [Log!Next]_(Log!vars)
  BY LogStep
<1> QED BY <1>1, <1>2, Invariance, PTL DEF Spec, KeepsVersionLog, Log!Spec
=============================================================================
