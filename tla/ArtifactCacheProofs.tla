------------------------ MODULE ArtifactCacheProofs ------------------------
(***************************************************************************)
(* Proofs about ArtifactCache, for any jobs, artifacts and failures.       *)
(*                                                                         *)
(* A file has writers only while a job is at "write".  A job that runs     *)
(* alone is therefore the only one that writes, and from the hashing of    *)
(* the file on the digest that it goes by stays that of the file, unless   *)
(* cache-prune removes the file.                                           *)
(***************************************************************************)
EXTENDS ArtifactCache, FiniteSetTheorems, TLAPS

\* Who has a file open is writing.
WriterInv == \A j \in Jobs : fd[j] # "none" => at[j] = "write"

\* Two jobs that run at the same time know no better.
CrowdInv == \A i, j \in Jobs : Running(i) /\ Running(j) /\ i # j => j \in crowded

\* The digest that a job goes by is that of a file, if the file is still there.
Agrees(j, file) == file[name[j]] = {} \/ DigestOf(file[name[j]], {}) = info[j]

DigestInv == \A j \in Jobs \ crowded :
  /\ at[j] = "rename" => Agrees(j, tmp)
  /\ at[j] \in {"write_meta", "rename_meta", "extract"} => Agrees(j, payload)

IInv == TypeOK /\ WriterInv /\ CrowdInv /\ DigestInv

-----------------------------------------------------------------------------
LEMMA DigestType ==
  ASSUME NEW file, NEW writers
  PROVE  DigestOf(file, writers) \in Digests
<1>1. CASE writers = {} /\ \E i \in Ids : file = {i}
  <2>1. (CHOOSE i \in Ids : file = {i}) \in Ids
    BY <1>1
  <2> QED BY <1>1, <2>1 DEF DigestOf, Digests
<1>2. CASE ~(writers = {} /\ \E i \in Ids : file = {i})
  BY <1>2 DEF DigestOf, Digests
<1> QED BY <1>1, <1>2

\* A file with the digest of an upload has the bytes of that upload.
LEMMA WholeFile ==
  ASSUME NEW file, NEW writers, DigestOf(file, writers) # Torn
  PROVE  file = {DigestOf(file, writers)} /\ writers = {}
<1>1. writers = {} /\ \E i \in Ids : file = {i}
  BY DEF DigestOf
<1>2. file = {CHOOSE i \in Ids : file = {i}}
  BY <1>1
<1> QED BY <1>1, <1>2 DEF DigestOf

\* While a job is alone and does not write, nobody does.
LEMMA NoWriters ==
  ASSUME WriterInv, CrowdInv, NEW j \in Jobs, j \notin crowded,
         Running(j), at[j] # "write", NEW n, NEW place, place # "none"
  PROVE  Writers(n, place) = {}
<1>1. ASSUME NEW i \in Jobs, fd[i] = place
      PROVE  FALSE
  <2>1. at[i] = "write"
    BY <1>1 DEF WriterInv
  <2>2. Running(i) /\ i # j
    BY <2>1 DEF Running, Ended
  <2> QED BY <2>2 DEF CrowdInv
<1> QED BY <1>1 DEF Writers

-----------------------------------------------------------------------------
LEMMA InitInv == Init => IInv
<1> SUFFICES ASSUME Init PROVE IInv
  OBVIOUS
<1>1. 1 \in Ids /\ None \notin Digests /\ Names # {}
  BY CacheAssumption DEF Ids, Digests, Torn
<1>2. (CHOOSE n \in Names : TRUE) \in Names
  BY <1>1
<1>3. TypeOK
  BY <1>1, <1>2 DEF Init, TypeOK, Digests, Places, Ended
<1>4. WriterInv /\ CrowdInv /\ DigestInv
  BY DEF Init, WriterInv, CrowdInv, DigestInv, Running, Ended
<1> QED BY <1>3, <1>4 DEF IInv

Fds == {"none", "tmp", "payload", "lost"}

LEMMA MovedType ==
  ASSUME TypeOK, NEW n, NEW from, NEW to \in Fds
  PROVE  Moved(n, from, to) \in [Jobs -> Fds]
BY DEF TypeOK, Moved, Fds

LEMMA AbortType ==
  ASSUME TypeOK, NEW j \in Jobs, Abort(j)
  PROVE  /\ tmp' \in [Names -> SUBSET Digests]
         /\ fd' \in [Jobs -> Fds]
         /\ at' \in [Jobs -> Places]
<1>1. Moved(name[j], "tmp", "lost") \in [Jobs -> Fds]
  BY MovedType DEF Fds
<1>2. fd' \in [Jobs -> Fds]
  BY <1>1 DEF Abort, Fds
<1> QED BY <1>2 DEF Abort, TypeOK, Goto, Places, Ended

\* The types are preserved, action by action.
LEMMA TypeStep == TypeOK /\ [Next]_vars => TypeOK'
<1> SUFFICES ASSUME TypeOK, [Next]_vars PROVE TypeOK'
  OBVIOUS
<1> USE DEF TypeOK, dirs, files, locals
<1>c. 1 \in Ids /\ Torn \in Digests
  BY CacheAssumption DEF Ids, Digests
<1>1. ASSUME NEW j \in Jobs, Start(j) PROVE TypeOK'
  <2>1. Wanted[j] # Every => Wanted[j] \in Names
    BY CacheAssumption
  <2> QED BY <1>1, <1>c, <2>1 DEF Start, FirstNames, Goto, Places
<1>2. ASSUME NEW j \in Jobs, NextName(j) PROVE TypeOK'
  BY <1>2, <1>c DEF NextName, Goto, Places, Ended
<1>3. ASSUME NEW j \in Jobs, List(j) PROVE TypeOK'
  BY <1>3, SMTT(30) DEF List, Goto, Strike, Places, Ended
<1>4. ASSUME NEW j \in Jobs, Extract(j) PROVE TypeOK'
  <2>1. at' \in [Jobs -> Places] /\ phase' \in [Jobs -> {"scan", "use", "end"}]
    BY <1>4 DEF Extract, Unusable, Goto, Places, Ended
  <2>2. todo' \in [Jobs -> SUBSET Names] /\ got' \in [Jobs -> SUBSET Names]
    BY <1>4 DEF Extract
  <2> QED BY <1>4, <2>1, <2>2 DEF Extract
<1>5. ASSUME NEW j \in Jobs, ReadMeta(j) PROVE TypeOK'
  BY <1>5 DEF ReadMeta, Goto, Places
<1>6. ASSUME NEW j \in Jobs, Check(j) PROVE TypeOK'
  <2>1. at' \in [Jobs -> Places]
    BY <1>6 DEF Check, Scanned, Goto, Places
  <2>2. todo' \in [Jobs -> SUBSET Names] /\ had' \in [Jobs -> SUBSET Names]
    BY <1>6, SMTT(30) DEF Check, Scanned
  <2> QED BY <1>6, <2>1, <2>2 DEF Check
<1>7. ASSUME NEW j \in Jobs, Discard(j) PROVE TypeOK'
  BY <1>7 DEF Discard, Moved, Goto, Places
<1>8. ASSUME NEW j \in Jobs, RemoveDir(j) PROVE TypeOK'
  BY <1>8 DEF RemoveDir, Scanned, Goto, Places, Ended
<1>9. ASSUME NEW j \in Jobs, Download(j) PROVE TypeOK'
  <2>1. \A i \in 1 .. remote[name[j]] : i \in Ids
    BY CacheAssumption DEF Ids
  <2> QED BY <1>9, <2>1 DEF Download, Strike, Goto, Places, Ended
<1>10. ASSUME NEW j \in Jobs, Open(j) PROVE TypeOK'
  <2>1. CASE Abort(j)
    <3>1. UNCHANGED <<dirs, payload, metaTmp, meta, old, locals, struck>>
      BY <1>10 DEF Open
    <3> QED BY <2>1, <3>1, AbortType DEF Fds
  <2>2. CASE ~Abort(j)
    <3>1. pick[j] \in Digests /\ {pick[i] : i \in Writers(name[j], "tmp")} \subseteq Digests
      BY DEF Digests, Writers
    <3>2. tmp' = [tmp EXCEPT ![name[j]] = {pick[j]} \cup {pick[i] : i \in Writers(name[j], "tmp")}]
      BY <1>10, <2>2 DEF Open
    <3>3. tmp' \in [Names -> SUBSET Digests]
      BY <3>1, <3>2
    <3> QED BY <1>10, <2>2, <3>3 DEF Open, Goto, Places
  <2> QED BY <2>1, <2>2
<1>11. ASSUME NEW j \in Jobs, Write(j) PROVE TypeOK'
  BY <1>11 DEF Write, Goto, Places
<1>12. ASSUME NEW j \in Jobs, BreakOff(j) PROVE TypeOK'
  BY <1>12, <1>c DEF BreakOff, Strike, TornBy, Abort, Moved, Goto, Places, Ended
<1>13. ASSUME NEW j \in Jobs, Hash(j) PROVE TypeOK'
  <2>1. HashOf(j) \in Digests
    BY DigestType DEF HashOf
  <2>2. UNCHANGED <<dirs, payload, metaTmp, meta, old, phase, todo, name, had, pick, got, struck>>
    BY <1>13 DEF Hash
  <2>3. CASE Abort(j) /\ UNCHANGED info
    BY <2>2, <2>3, AbortType DEF Fds
  <2>4. CASE ~(Abort(j) /\ UNCHANGED info)
    <3>1. info' = [info EXCEPT ![j] = HashOf(j)] /\ UNCHANGED <<tmp, fd>>
      BY <1>13, <2>4 DEF Hash
    <3>2. Goto(j, "rename")
      BY <1>13, <2>4 DEF Hash
    <3>3. info' \in [Jobs -> Digests \cup {None}]
      BY <2>1, <3>1
    <3>4. at' \in [Jobs -> Places]
      BY <3>2 DEF Goto, Places
    <3> QED BY <2>2, <3>1, <3>3, <3>4
  <2> QED BY <2>3, <2>4
<1>14. ASSUME NEW j \in Jobs, Rename(j) PROVE TypeOK'
  <2>1. UNCHANGED <<dirs, metaTmp, meta, locals, struck>>
    BY <1>14 DEF Rename
  <2>2. CASE Abort(j) /\ UNCHANGED <<payload, old>>
    BY <2>1, <2>2, AbortType DEF Fds
  <2>3. CASE ~(Abort(j) /\ UNCHANGED <<payload, old>>)
    <3> DEFINE n == name[j]
    <3>1. /\ payload' = [payload EXCEPT ![n] = tmp[n]]
          /\ tmp' = [tmp EXCEPT ![n] = {}]
          /\ fd' = [i \in Jobs |-> IF i \in Writers(n, "tmp") THEN "payload"
                                   ELSE Moved(n, "payload", "lost")[i]]
          /\ old' = old \ {n}
          /\ Goto(j, "write_meta")
      BY <1>14, <2>3 DEF Rename
    <3>2. Moved(n, "payload", "lost") \in [Jobs -> Fds]
      BY MovedType DEF Fds
    <3>3. fd' \in [Jobs -> Fds]
      BY <3>1, <3>2 DEF Fds
    <3> QED BY <2>1, <3>1, <3>3 DEF Goto, Places, Fds
  <2> QED BY <2>2, <2>3
<1>15. ASSUME NEW j \in Jobs, WriteMeta(j) PROVE TypeOK'
  BY <1>15 DEF WriteMeta, Goto, Places
<1>16. ASSUME NEW j \in Jobs, RenameMeta(j) PROVE TypeOK'
  <2>1. UNCHANGED <<dirs, payload, old, locals, struck>>
    BY <1>16 DEF RenameMeta
  <2>2. CASE Abort(j) /\ UNCHANGED <<meta, metaTmp>>
    BY <2>1, <2>2, AbortType DEF Fds
  <2>3. CASE ~(Abort(j) /\ UNCHANGED <<meta, metaTmp>>)
    <3>1. meta' = [meta EXCEPT ![name[j]] = metaTmp[name[j]]]
      BY <1>16, <2>3 DEF RenameMeta
    <3>2. metaTmp' = [metaTmp EXCEPT ![name[j]] = None] /\ UNCHANGED <<tmp, fd>>
      BY <1>16, <2>3 DEF RenameMeta
    <3>3. Goto(j, "extract")
      BY <1>16, <2>3 DEF RenameMeta
    <3>4. at' \in [Jobs -> Places]
      BY <3>3 DEF Goto, Places
    <3>5. meta' \in [Names -> Digests \cup {None}] /\ metaTmp' \in [Names -> Digests \cup {None}]
      BY <3>1, <3>2
    <3> QED BY <2>1, <3>2, <3>4, <3>5
  <2> QED BY <2>2, <2>3
<1>17. ASSUME NEW j \in Jobs, Crash(j) PROVE TypeOK'
  BY <1>17, <1>c DEF Crash, Strike, TornBy, Goto, Places, Ended
<1>18. ASSUME NEW j \in Jobs, Rerun(j) PROVE TypeOK'
  BY <1>18 DEF Rerun, Goto, Places
<1>19. ASSUME NEW n \in Names, Upload(n) PROVE TypeOK'
  <2>1. remote[n] + 1 \in Ids
    BY <1>19, CacheAssumption DEF Upload, Ids
  <2> QED BY <1>19, <2>1 DEF Upload
<1>20. ASSUME NEW n \in Names, Condemn(n) PROVE TypeOK'
  BY <1>20 DEF Condemn
<1>21. ASSUME NEW n \in Names, PruneFile(n) PROVE TypeOK'
  BY <1>21 DEF PruneFile, Moved
<1>22. ASSUME NEW n \in Names, PruneDir(n) PROVE TypeOK'
  BY <1>22 DEF PruneDir, Strike
<1>23. CASE UNCHANGED vars
  BY <1>23 DEF vars
<1> QED
  BY <1>1, <1>2, <1>3, <1>4, <1>5, <1>6, <1>7, <1>8, <1>9, <1>10, <1>11, <1>12, <1>13,
     <1>14, <1>15, <1>16, <1>17, <1>18, <1>19, <1>20, <1>21, <1>22, <1>23
  DEF Next, Step

-----------------------------------------------------------------------------
LEMMA MovedNone ==
  ASSUME NEW n, NEW from, NEW to, from # "none", NEW i \in Jobs,
         Moved(n, from, to)[i] # "none"
  PROVE  fd[i] # "none"
BY DEF Moved, Writers

\* Only jobs that are writing have a file open after a step, too.
LEMMA WriterStep == TypeOK /\ WriterInv /\ [Next]_vars => WriterInv'
<1> SUFFICES ASSUME TypeOK, WriterInv, [Next]_vars PROVE WriterInv'
  OBVIOUS
<1> USE DEF TypeOK, WriterInv, dirs, files, locals
<1>a. ASSUME NEW j \in Jobs, Abort(j) PROVE WriterInv'
  <2>1. Moved(name[j], "tmp", "lost") \in [Jobs -> Fds]
    BY MovedType DEF Fds
  <2> SUFFICES ASSUME NEW i \in Jobs, fd'[i] # "none" PROVE at'[i] = "write"
    OBVIOUS
  <2>2. i # j /\ Moved(name[j], "tmp", "lost")[i] # "none"
    BY <1>a, <2>1 DEF Abort
  <2> QED BY <1>a, <2>2, MovedNone DEF Abort, Goto
<1>1. ASSUME NEW j \in Jobs, Start(j) \/ NextName(j) \/ List(j) PROVE WriterInv'
  BY <1>1 DEF Start, NextName, List, Goto
<1>2. ASSUME NEW j \in Jobs, Extract(j) \/ ReadMeta(j) \/ Check(j) PROVE WriterInv'
  BY <1>2 DEF Extract, Unusable, ReadMeta, Check, Scanned, Goto
<1>3. ASSUME NEW j \in Jobs, Discard(j) PROVE WriterInv'
  BY <1>3, MovedNone DEF Discard, Goto
<1>4. ASSUME NEW j \in Jobs, RemoveDir(j) \/ Download(j) PROVE WriterInv'
  BY <1>4 DEF RemoveDir, Download, Scanned, Goto
<1>5. ASSUME NEW j \in Jobs, Open(j) PROVE WriterInv'
  BY <1>5, <1>a DEF Open, Goto
<1>6. ASSUME NEW j \in Jobs, Write(j) PROVE WriterInv'
  BY <1>6 DEF Write, Goto
<1>7. ASSUME NEW j \in Jobs, BreakOff(j) PROVE WriterInv'
  BY <1>7, <1>a DEF BreakOff
<1>8. ASSUME NEW j \in Jobs, Hash(j) PROVE WriterInv'
  BY <1>8, <1>a DEF Hash, Goto
<1>9. ASSUME NEW j \in Jobs, Rename(j) PROVE WriterInv'
  <2> DEFINE n == name[j]
  <2>1. CASE fd' = [i \in Jobs |-> IF i \in Writers(n, "tmp") THEN "payload"
                                 ELSE Moved(n, "payload", "lost")[i]]
             /\ Goto(j, "write_meta")
    <3> SUFFICES ASSUME NEW i \in Jobs, fd'[i] # "none" PROVE at'[i] = "write"
      OBVIOUS
    <3>1. fd[i] # "none"
      BY <2>1, MovedNone DEF Writers
    <3> QED BY <1>9, <2>1, <3>1 DEF Rename, Goto
  <2> QED BY <1>9, <1>a, <2>1 DEF Rename
<1>10. ASSUME NEW j \in Jobs, WriteMeta(j) PROVE WriterInv'
  BY <1>10 DEF WriteMeta, Goto
<1>11. ASSUME NEW j \in Jobs, RenameMeta(j) PROVE WriterInv'
  BY <1>11, <1>a DEF RenameMeta, Goto
<1>12. ASSUME NEW j \in Jobs, Crash(j) \/ Rerun(j) PROVE WriterInv'
  BY <1>12 DEF Crash, Rerun, Goto
<1>13. ASSUME NEW n \in Names, Upload(n) \/ Condemn(n) \/ PruneDir(n) PROVE WriterInv'
  BY <1>13 DEF Upload, Condemn, PruneDir
<1>14. ASSUME NEW n \in Names, PruneFile(n) PROVE WriterInv'
  BY <1>14, MovedNone DEF PruneFile
<1>15. CASE UNCHANGED vars
  BY <1>15 DEF vars
<1> QED
  BY <1>1, <1>2, <1>3, <1>4, <1>5, <1>6, <1>7, <1>8, <1>9, <1>10, <1>11, <1>12, <1>13,
     <1>14, <1>15
  DEF Next, Step

\* What a step of one job leaves to the others.
LEMMA StepOfOne ==
  ASSUME TypeOK, NEW i \in Jobs, Step(i) \/ Crash(i) \/ Rerun(i)
  PROVE  /\ \A j \in Jobs \ {i} : at'[j] = at[j]
         /\ Start(i) \/ Rerun(i) \/ (Running(i) /\ crowded' = crowded)
<1> USE DEF TypeOK, Running, Ended, dirs, files, locals
<1>1. CASE Start(i) \/ Rerun(i)
  BY <1>1 DEF Start, Rerun, Goto
<1>2. CASE NextName(i) \/ List(i) \/ ReadMeta(i)
  BY <1>2 DEF NextName, List, ReadMeta, Goto
<1>3. CASE Extract(i)
  BY <1>3 DEF Extract, Unusable, Goto
<1>4. CASE Check(i) \/ Discard(i) \/ RemoveDir(i)
  BY <1>4 DEF Check, Scanned, Discard, RemoveDir, Goto
<1>5. CASE Download(i) \/ Open(i) \/ Write(i)
  BY <1>5 DEF Download, Open, Abort, Write, Goto
<1>6. CASE BreakOff(i) \/ Hash(i)
  BY <1>6 DEF BreakOff, Hash, Abort, Goto
<1>7. CASE Rename(i) \/ WriteMeta(i) \/ RenameMeta(i)
  BY <1>7 DEF Rename, WriteMeta, RenameMeta, Abort, Goto
<1>8. CASE Crash(i)
  BY <1>8 DEF Crash, Goto
<1> QED BY <1>1, <1>2, <1>3, <1>4, <1>5, <1>6, <1>7, <1>8 DEF Step

\* The steps that are not a job's.
World ==
  \/ \E n \in Names : Upload(n) \/ Condemn(n) \/ PruneFile(n) \/ PruneDir(n)
  \/ UNCHANGED vars

LEMMA WorldStep ==
  ASSUME World
  PROVE  /\ UNCHANGED <<at, crowded, tmp, name, info>>
         /\ \A n \in Names : TypeOK => payload'[n] \in {payload[n], {}}
<1> USE DEF dirs, files, locals
<1>1. CASE UNCHANGED vars
  BY <1>1 DEF vars
<1>2. ASSUME NEW n \in Names, Upload(n) \/ Condemn(n) \/ PruneDir(n)
      PROVE  UNCHANGED <<at, crowded, tmp, name, info, payload>>
  BY <1>2 DEF Upload, Condemn, PruneDir
<1>3. ASSUME NEW n \in Names, PruneFile(n)
      PROVE  /\ UNCHANGED <<at, crowded, tmp, name, info>>
             /\ \A m \in Names : TypeOK => payload'[m] \in {payload[m], {}}
  BY <1>3 DEF PruneFile, TypeOK
<1> QED BY <1>1, <1>2, <1>3 DEF World, vars

LEMMA NextCases ==
  ASSUME [Next]_vars
  PROVE  World \/ \E i \in Jobs : Step(i) \/ Crash(i) \/ Rerun(i)
BY DEF Next, World

LEMMA CrowdStep == TypeOK /\ CrowdInv /\ [Next]_vars => CrowdInv'
<1> SUFFICES ASSUME TypeOK, CrowdInv, [Next]_vars PROVE CrowdInv'
  OBVIOUS
<1>1. CASE World
  BY <1>1, WorldStep DEF CrowdInv, Running
<1>2. ASSUME NEW i \in Jobs, Start(i) PROVE CrowdInv'
  <2> DEFINE others == {k \in Jobs \ {i} : Running(k)}
  <2>1. \A k \in Jobs \ {i} : at'[k] = at[k]
    BY <1>2, StepOfOne DEF Step
  <2>2. crowded' = IF others = {} THEN crowded \ {i} ELSE crowded \cup others \cup {i}
    BY <1>2 DEF Start
  <2>3. \A k \in Jobs : Running(k)' => k \in others \cup {i}
    BY <2>1 DEF Running
  <2> QED BY <2>2, <2>3 DEF CrowdInv
<1>3. ASSUME NEW i \in Jobs, Rerun(i) PROVE CrowdInv'
  BY <1>3 DEF Rerun, CrowdInv, Running, Ended, Goto, TypeOK, dirs
<1>4. ASSUME NEW i \in Jobs, Running(i), crowded' = crowded,
             \A j \in Jobs \ {i} : at'[j] = at[j]
      PROVE  CrowdInv'
  BY <1>4 DEF CrowdInv, Running
<1> QED BY <1>1, <1>2, <1>3, <1>4, StepOfOne, NextCases

\* A job that is alone and has a digest goes on alone, or somebody joins it.
LEMMA OthersStep ==
  ASSUME TypeOK, CrowdInv, NEW j \in Jobs, j \notin crowded', Running(j)',
         NEW i \in Jobs \ {j}, Step(i) \/ Crash(i) \/ Rerun(i)
  PROVE  Rerun(i)
<1>1. at'[j] = at[j] /\ Running(j)
  BY StepOfOne DEF Running
<1>2. ~Start(i)
  BY <1>1 DEF Start
<1>3. ~(Running(i) /\ crowded' = crowded)
  BY <1>1 DEF CrowdInv
<1> QED BY <1>2, <1>3, StepOfOne

HasDigest == {"rename", "write_meta", "rename_meta", "extract"}

LEMMA DigestStep == IInv /\ [Next]_vars => DigestInv'
<1> SUFFICES ASSUME IInv, [Next]_vars,
                    NEW j \in Jobs, j \notin crowded', at'[j] \in HasDigest
             PROVE  /\ at'[j] = "rename" => Agrees(j, tmp)'
                    /\ at'[j] \in {"write_meta", "rename_meta", "extract"} => Agrees(j, payload)'
  BY DEF DigestInv, HasDigest
<1> USE DEF dirs, files, locals
<1>0. TypeOK /\ WriterInv /\ CrowdInv /\ DigestInv /\ Running(j)'
  BY DEF IInv, Running, HasDigest, Ended
<1>1. CASE World
  <2>1. UNCHANGED <<at, crowded, tmp, name, info>>
    BY <1>1, WorldStep
  <2>2. name[j] \in Names /\ payload'[name[j]] \in {payload[name[j]], {}}
    BY <1>0, <1>1, WorldStep DEF TypeOK
  <2> QED BY <1>0, <2>1, <2>2 DEF DigestInv, Agrees
<1>2. ASSUME NEW i \in Jobs \ {j}, Step(i) \/ Crash(i) \/ Rerun(i)
      PROVE  /\ at'[j] = "rename" => Agrees(j, tmp)'
             /\ at'[j] \in {"write_meta", "rename_meta", "extract"} => Agrees(j, payload)'
  <2>1. Rerun(i)
    BY <1>0, <1>2, OthersStep
  <2>2. UNCHANGED <<crowded, tmp, payload, name, info>> /\ at'[j] = at[j]
    BY <1>0, <1>2, <2>1, StepOfOne DEF Rerun
  <2> QED BY <1>0, <2>2 DEF DigestInv, Agrees
<1>3. ASSUME Step(j) \/ Crash(j) \/ Rerun(j)
      PROVE  /\ at'[j] = "rename" => Agrees(j, tmp)'
             /\ at'[j] \in {"write_meta", "rename_meta", "extract"} => Agrees(j, payload)'
  <2>1. Check(j) \/ Hash(j) \/ Rename(j) \/ WriteMeta(j) \/ RenameMeta(j)
    <3>1. ~(Start(j) \/ NextName(j) \/ List(j) \/ ReadMeta(j) \/ Discard(j))
      BY <1>0 DEF Start, NextName, List, ReadMeta, Discard, Goto, TypeOK, HasDigest
    <3>2. ~Extract(j)
      BY <1>0 DEF Extract, Unusable, Goto, TypeOK, HasDigest
    <3>3. ~(RemoveDir(j) \/ Download(j) \/ Write(j))
      BY <1>0 DEF RemoveDir, Scanned, Download, Write, Goto, TypeOK, HasDigest
    <3>4. ~(Open(j) \/ BreakOff(j))
      BY <1>0 DEF Open, BreakOff, Abort, Goto, TypeOK, HasDigest
    <3>5. ~(Crash(j) \/ Rerun(j))
      BY <1>0 DEF Crash, Rerun, Goto, TypeOK, HasDigest
    <3> QED BY <1>3, <3>1, <3>2, <3>3, <3>4, <3>5 DEF Step
  <2>2. crowded' = crowded /\ UNCHANGED name
    BY <2>1 DEF Check, Hash, Rename, WriteMeta, RenameMeta
  <2>3. ASSUME at[j] # "write", Running(j), NEW place, place # "none"
        PROVE  Writers(name[j], place) = {}
    BY <1>0, <2>2, <2>3, NoWriters
  <2>4. ASSUME Check(j) PROVE at'[j] = "extract" /\ Agrees(j, payload)'
    <3>1. Writers(name[j], "payload") = {}
      BY <2>3, <2>4 DEF Check, Running, Ended
    <3>2. Goto(j, "extract") /\ DigestOf(payload[name[j]], Writers(name[j], "payload")) = info[j]
      BY <1>0, <2>4 DEF Check, Matches, Scanned, Goto, TypeOK, HasDigest
    <3>3. UNCHANGED <<payload, info>>
      BY <2>4 DEF Check
    <3> QED BY <1>0, <2>2, <3>1, <3>2, <3>3 DEF Agrees, Goto, TypeOK
  <2>5. ASSUME Hash(j) PROVE at'[j] = "rename" /\ Agrees(j, tmp)'
    <3>1. Writers(name[j], "tmp") = {}
      BY <2>3, <2>5 DEF Hash, Running, Ended
    <3>2. Goto(j, "rename") /\ UNCHANGED tmp /\ info' = [info EXCEPT ![j] = HashOf(j)]
      BY <1>0, <2>5 DEF Hash, Abort, Goto, TypeOK, HasDigest
    <3> QED BY <1>0, <2>2, <3>1, <3>2 DEF Agrees, HashOf, Goto, TypeOK
  <2>6. ASSUME Rename(j) PROVE at'[j] = "write_meta" /\ Agrees(j, payload)'
    <3>1. Goto(j, "write_meta") /\ payload' = [payload EXCEPT ![name[j]] = tmp[name[j]]]
      BY <1>0, <2>6 DEF Rename, Abort, Goto, TypeOK, HasDigest
    <3>2. Agrees(j, tmp)
      BY <1>0, <2>2, <2>6 DEF Rename, DigestInv
    <3>3. UNCHANGED info
      BY <2>6 DEF Rename
    <3> QED BY <1>0, <2>2, <3>1, <3>2, <3>3 DEF Agrees, Goto, TypeOK
  <2>7. ASSUME WriteMeta(j) \/ RenameMeta(j)
        PROVE  at'[j] \in {"rename_meta", "extract"} /\ Agrees(j, payload)'
    <3>1. at[j] \in {"write_meta", "rename_meta"} /\ UNCHANGED <<payload, info>>
      BY <2>7 DEF WriteMeta, RenameMeta
    <3>2. at'[j] \in {"rename_meta", "extract"}
      BY <1>0, <2>7 DEF WriteMeta, RenameMeta, Abort, Goto, TypeOK, HasDigest
    <3> QED BY <1>0, <2>2, <3>1, <3>2 DEF DigestInv, Agrees
  <2> QED BY <2>1, <2>4, <2>5, <2>6, <2>7
<1> QED BY <1>1, <1>2, <1>3, NextCases

-----------------------------------------------------------------------------
\* The invariant holds in every state: a job that was always alone goes by the
\* digest of the bytes that are there, if they are still there.
THEOREM Invariance == Spec => []IInv
<1>1. Init => IInv
  BY InitInv
<1>2. IInv /\ [Next]_vars => IInv'
  BY TypeStep, WriterStep, CrowdStep, DigestStep DEF IInv
<1> QED BY <1>1, <1>2, PTL DEF Spec

\* Every variable stays among its values, for any number of jobs and artifacts.
THEOREM TypeCorrect == Spec => []TypeOK
<1>1. IInv => TypeOK
  BY DEF IInv
<1> QED BY <1>1, Invariance, PTL

\* Whatever earlier jobs, killed at any place, and cache-prune have left of an
\* entry: a job that was alone extracts the bytes whose digest it reports.
THEOREM ReportCorrect == Spec => ReportsWhatItExtracts
<1>1. IInv /\ [Next]_vars =>
        [\A j \in Jobs : at[j] = "extract" /\ at'[j] = "next" /\ j \notin crowded
           => payload[name[j]] = {info[j]}]_vars
  <2> SUFFICES ASSUME IInv, [Next]_vars, NEW j \in Jobs,
                      at[j] = "extract", at'[j] = "next", j \notin crowded
               PROVE  payload[name[j]] = {info[j]}
    OBVIOUS
  <2>0. TypeOK /\ DigestInv
    BY DEF IInv
  <2>1. Step(j) \/ Crash(j)
    <3>1. ~World
      BY WorldStep
    <3>2. ASSUME NEW i \in Jobs \ {j}, Step(i) \/ Crash(i) \/ Rerun(i) PROVE FALSE
      BY <2>0, <3>2, StepOfOne
    <3> QED BY <3>1, <3>2, NextCases DEF Rerun
  <2>2. Extract(j)
    <3>1. ~Crash(j)
      BY <2>0 DEF Crash, Goto, TypeOK
    <3> QED BY <2>1, <3>1
        DEF Step, Start, NextName, List, ReadMeta, Check, Discard, RemoveDir, Download, Open,
            Write, BreakOff, Hash, Rename, WriteMeta, RenameMeta
  <2>3. DigestOf(payload[name[j]], Writers(name[j], "payload")) # Torn
    BY <2>0, <2>2 DEF Extract, Unusable, Goto, TypeOK
  <2>4. /\ payload[name[j]] = {DigestOf(payload[name[j]], Writers(name[j], "payload"))}
        /\ Writers(name[j], "payload") = {}
    BY <2>3, WholeFile
  <2>5. Agrees(j, payload)
    BY <2>0 DEF DigestInv
  <2> QED BY <2>4, <2>5 DEF Agrees
<1> QED BY <1>1, Invariance, PTL DEF Spec, ReportsWhatItExtracts

-----------------------------------------------------------------------------
(***************************************************************************)
(* The part of EventuallyRestored that does not depend on fairness: one    *)
(* attempt of a job comes to an end.  The measure is what is left of the   *)
(* name the job is at, and after it sixteen steps for each name that is   *)
(* still to do, in the listing as well while the job scans the cache.      *)
(***************************************************************************)
StepsFrom == [meta |-> 15, check |-> 14, drop |-> 13, drop_dir |-> 12, discard |-> 11, rmdir |-> 10,
              download |-> 9, open |-> 8, write |-> 7, hash |-> 6, rename |-> 5, write_meta |-> 4,
              rename_meta |-> 3, extract |-> 2]
AtName == {"meta", "check", "drop", "drop_dir", "discard", "rmdir", "download", "open", "write",
           "hash", "rename", "write_meta", "rename_meta", "extract"}

Listed == 16 * Cardinality(Names) + 1

Measure(place, ph, all, others) ==
  IF place \in Ended \cup {"start"} THEN 0
  ELSE IF ph = "end" THEN (IF place = "discard" THEN 2 ELSE 1)
  ELSE IF place = "list" THEN Listed + 1
  ELSE (IF ph = "scan" THEN Listed + 1 ELSE 0)
       + (IF place = "next" THEN 16 * all + 1 ELSE 16 * others + 1 + StepsFrom[place])

StepsLeft(j) ==
  Measure(at[j], phase[j], Cardinality(todo[j]), Cardinality(todo[j] \ {name[j]}))

\* Every step of an attempt brings it nearer to its end: neither the other jobs
\* of the node nor cache-prune nor GitHub can send it back, to download a name
\* again or to scan again.
AttemptsEnd ==
  [][\A j \in Jobs :
       \/ Start(j)
       \/ IF Step(j) \/ Crash(j) THEN StepsLeft(j)' < StepsLeft(j)
                                 ELSE StepsLeft(j)' = StepsLeft(j)]_vars

\* A job works on a name that it has still to do, lists after the scan only, and
\* does nothing but remove an entry once it has given up.
AttemptInv == \A j \in Jobs :
  /\ phase[j] = "end" => at[j] \in Ended \cup {"start", "discard", "rmdir"}
  /\ at[j] = "list" => phase[j] = "scan"
  /\ at[j] \in AtName /\ phase[j] # "end" => name[j] \in todo[j]

SameAttempt(j) == phase'[j] = phase[j] /\ todo'[j] = todo[j] /\ name'[j] = name[j]

\* The ways in which a step changes where a job is.
Moves(j) ==
  \/ at'[j] = "failed"
  \/ /\ at[j] \in AtName /\ at'[j] \in AtName /\ StepsFrom[at'[j]] < StepsFrom[at[j]]
     /\ phase[j] = "end" => at[j] = "discard" /\ at'[j] = "rmdir"
     /\ SameAttempt(j)
  \/ /\ at[j] = "next" /\ at'[j] = "meta" /\ phase[j] # "end"
     /\ phase'[j] = phase[j] /\ todo'[j] = todo[j] /\ name'[j] \in todo[j]
  \/ /\ at[j] = "next" /\ at'[j] \in {"list", "ok"} /\ (at'[j] = "list" => phase[j] = "scan")
     /\ phase[j] # "end" /\ SameAttempt(j)
  \/ /\ at[j] = "list" /\ at'[j] = "next" /\ phase[j] = "scan" /\ phase'[j] = "use"
  \/ /\ at[j] \in AtName /\ at'[j] = "next" /\ phase[j] # "end"
     /\ phase'[j] = phase[j] /\ todo'[j] = todo[j] \ {name[j]}
  \/ at[j] = "extract" /\ at'[j] = "discard" /\ phase'[j] = "end"

\* Every step of an attempt but its first is one of these.
LEMMA StepMoves ==
  ASSUME TypeOK, AttemptInv, NEW j \in Jobs, Step(j) \/ Crash(j), ~Start(j)
  PROVE  Moves(j) /\ Running(j)
<1> USE DEF TypeOK, AtName, StepsFrom, SameAttempt, Goto, dirs, files, locals, Running, Ended
<1>0. phase[j] = "end" => at[j] \in Ended \cup {"start", "discard", "rmdir"}
  BY DEF AttemptInv
<1>1. CASE NextName(j)
  BY <1>0, <1>1 DEF NextName, Moves
<1>2. CASE List(j)
  BY <1>2 DEF List, Moves, AttemptInv
<1>3. CASE Extract(j)
  BY <1>0, <1>3 DEF Extract, Unusable, Moves
<1>4. CASE ReadMeta(j)
  BY <1>0, <1>4 DEF ReadMeta, Moves
<1>5. CASE Check(j)
  BY <1>0, <1>5 DEF Check, Scanned, Moves
<1>6. CASE Discard(j)
  BY <1>0, <1>6 DEF Discard, Moves
<1>7. CASE RemoveDir(j)
  BY <1>0, <1>7 DEF RemoveDir, Scanned, Moves
<1>8. CASE Download(j)
  BY <1>0, <1>8 DEF Download, Moves
<1>9. CASE Open(j) \/ Write(j)
  BY <1>0, <1>9 DEF Open, Write, Abort, Moves
<1>10. CASE BreakOff(j) \/ Hash(j)
  BY <1>0, <1>10 DEF BreakOff, Hash, Abort, Moves
<1>11. CASE Rename(j)
  BY <1>0, <1>11 DEF Rename, Abort, Moves
<1>12. CASE WriteMeta(j) \/ RenameMeta(j)
  BY <1>0, <1>12 DEF WriteMeta, RenameMeta, Abort, Moves
<1>13. CASE Crash(j)
  BY <1>13 DEF Crash, Moves
<1> QED
  BY <1>1, <1>2, <1>3, <1>4, <1>5, <1>6, <1>7, <1>8, <1>9, <1>10, <1>11, <1>12, <1>13 DEF Step

\* A step of one job, and of the world, leaves the attempts of the others alone.
LEMMA OthersKeep ==
  ASSUME TypeOK, [Next]_vars, NEW j \in Jobs, ~(Step(j) \/ Crash(j) \/ Rerun(j))
  PROVE  at'[j] = at[j] /\ SameAttempt(j)
<1> USE DEF TypeOK, SameAttempt, Goto, dirs, files, locals
<1>1. ASSUME NEW i \in Jobs \ {j}, Step(i) \/ Crash(i) \/ Rerun(i)
      PROVE  at'[j] = at[j] /\ SameAttempt(j)
  <2>1. CASE Start(i) \/ NextName(i) \/ List(i)
    BY <2>1 DEF Start, NextName, List
  <2>2. CASE Extract(i) \/ ReadMeta(i) \/ Check(i)
    BY <2>2 DEF Extract, Unusable, ReadMeta, Check, Scanned
  <2>3. CASE Discard(i) \/ RemoveDir(i)
    BY <2>3 DEF Discard, RemoveDir, Scanned
  <2>4. CASE Download(i) \/ Open(i) \/ Write(i)
    BY <2>4 DEF Download, Open, Abort, Write
  <2>5. CASE BreakOff(i) \/ Hash(i) \/ Rename(i)
    BY <2>5 DEF BreakOff, Hash, Rename, Abort
  <2>6. CASE WriteMeta(i) \/ RenameMeta(i)
    BY <2>6 DEF WriteMeta, RenameMeta, Abort
  <2>7. CASE Crash(i) \/ Rerun(i)
    BY <2>7 DEF Crash, Rerun
  <2> QED
    BY <1>1, <2>1, <2>2, <2>3, <2>4, <2>5, <2>6, <2>7 DEF Step
<1>2. CASE World
  BY <1>2 DEF World, Upload, Condemn, PruneFile, PruneDir, vars
<1> QED
  BY <1>1, <1>2, NextCases

LEMMA AttemptStep == TypeOK /\ TypeOK' /\ AttemptInv /\ [Next]_vars => AttemptInv'
<1> SUFFICES ASSUME TypeOK, TypeOK', AttemptInv, [Next]_vars, NEW j \in Jobs
             PROVE  /\ phase'[j] = "end" => at'[j] \in Ended \cup {"start", "discard", "rmdir"}
                    /\ at'[j] = "list" => phase'[j] = "scan"
                    /\ at'[j] \in AtName /\ phase'[j] # "end" => name'[j] \in todo'[j]
  BY DEF AttemptInv
<1>1. CASE at'[j] = at[j] /\ SameAttempt(j)
  BY <1>1 DEF SameAttempt, AttemptInv
<1>2. CASE Start(j)
  BY <1>2 DEF Start, Goto, TypeOK, AtName
<1>3. CASE Rerun(j)
  BY <1>3 DEF Rerun, Goto, TypeOK, AtName
<1>4. CASE Moves(j)
  BY <1>4 DEF Moves, SameAttempt, AtName, Ended, AttemptInv
<1> QED
  BY <1>1, <1>2, <1>3, <1>4, StepMoves, OthersKeep

\* What the measure counts.
LEMMA NamesToDo ==
  ASSUME IsFiniteSet(Names), NEW todos \in SUBSET Names, NEW n
  PROVE  /\ Cardinality(Names) \in Nat /\ Cardinality(todos) \in Nat
         /\ Cardinality(todos \ {n}) \in Nat
         /\ Cardinality(todos) <= Cardinality(Names)
         /\ n \in todos => Cardinality(todos \ {n}) = Cardinality(todos) - 1
<1>1. IsFiniteSet(todos) /\ Cardinality(todos) <= Cardinality(Names)
  BY FS_Subset
<1>2. IsFiniteSet(todos \ {n})
  BY <1>1, FS_RemoveElement
<1> QED
  BY <1>1, <1>2, FS_RemoveElement, FS_CardinalityType

\* The measure of the next state.
LEMMA StepsLeftNext ==
  ASSUME NEW j \in Jobs
  PROVE  StepsLeft(j)' = Measure(at'[j], phase'[j], Cardinality(todo'[j]), Cardinality(todo'[j] \ {name'[j]}))
BY DEF StepsLeft, Measure, Listed

\* What is left after each kind of move.
LEMMA MoveLeadsOn ==
  ASSUME IsFiniteSet(Names), TypeOK, TypeOK', AttemptInv, NEW j \in Jobs, Moves(j), Running(j)
  PROVE  StepsLeft(j)' < StepsLeft(j)
<1> DEFINE all == Cardinality(todo[j])
           others == Cardinality(todo[j] \ {name[j]})
           all2 == Cardinality(todo'[j])
           others2 == Cardinality(todo'[j] \ {name'[j]})
<1>1. /\ all \in Nat /\ others \in Nat /\ Listed \in Nat /\ Listed > 0
      /\ name[j] \in todo[j] => others = all - 1
      /\ all2 \in Nat /\ others2 \in Nat /\ 16 * all2 + 1 <= Listed
      /\ name'[j] \in todo'[j] => others2 = all2 - 1
  <2>1. todo[j] \in SUBSET Names /\ todo'[j] \in SUBSET Names
    BY DEF TypeOK
  <2>2. /\ Cardinality(Names) \in Nat /\ all \in Nat /\ others \in Nat
        /\ name[j] \in todo[j] => others = all - 1
    BY <2>1, NamesToDo
  <2>3. /\ all2 \in Nat /\ others2 \in Nat /\ all2 <= Cardinality(Names)
        /\ name'[j] \in todo'[j] => others2 = all2 - 1
    BY <2>1, NamesToDo
  <2> HIDE DEF all, others, all2, others2
  <2> QED
    BY <2>2, <2>3 DEF Listed
<1>2. /\ StepsLeft(j) = Measure(at[j], phase[j], all, others)
      /\ StepsLeft(j)' = Measure(at'[j], phase'[j], all2, others2)
  BY StepsLeftNext DEF StepsLeft
<1>3. /\ at[j] \in Places /\ at[j] \notin Ended \cup {"start"}
      /\ at[j] \notin {"next", "list"} => at[j] \in AtName
  BY DEF TypeOK, Running, Places, AtName
<1>4. /\ phase[j] = "end" => at[j] \in {"discard", "rmdir"}
      /\ at[j] \in AtName /\ phase[j] # "end" => name[j] \in todo[j]
  BY <1>3 DEF AttemptInv
<1> HIDE DEF all, others, all2, others2
<1>5. \A place \in AtName : StepsFrom[place] \in 2 .. 15
  BY DEF AtName, StepsFrom
<1>6. Measure(at[j], phase[j], all, others) > 0
  BY <1>1, <1>3, <1>5 DEF Measure
<1>7. CASE at'[j] = "failed"
  BY <1>2, <1>6, <1>7 DEF Measure, Ended
<1>8. CASE /\ at[j] \in AtName /\ at'[j] \in AtName /\ StepsFrom[at'[j]] < StepsFrom[at[j]]
           /\ phase[j] = "end" => at[j] = "discard" /\ at'[j] = "rmdir"
           /\ SameAttempt(j)
  <2>1. others2 = others /\ phase'[j] = phase[j]
    BY <1>8 DEF others, others2, SameAttempt
  <2> QED
    BY <1>1, <1>2, <1>3, <1>5, <1>8, <2>1 DEF Measure, AtName, Ended
<1>9. CASE /\ at[j] = "next" /\ at'[j] = "meta" /\ phase[j] # "end"
           /\ phase'[j] = phase[j] /\ todo'[j] = todo[j] /\ name'[j] \in todo[j]
  <2>1. others2 = all - 1
    BY <1>1, <1>9 DEF all, all2
  <2> QED
    BY <1>1, <1>2, <1>9, <2>1 DEF Measure, StepsFrom, Ended
<1>10. CASE /\ at[j] = "next" /\ at'[j] \in {"list", "ok"} /\ (at'[j] = "list" => phase[j] = "scan")
            /\ phase[j] # "end" /\ SameAttempt(j)
  BY <1>1, <1>2, <1>6, <1>10 DEF Measure, SameAttempt, Ended
<1>11. CASE at[j] = "list" /\ at'[j] = "next" /\ phase[j] = "scan" /\ phase'[j] = "use"
  BY <1>1, <1>2, <1>11 DEF Measure, Ended
<1>12. CASE /\ at[j] \in AtName /\ at'[j] = "next" /\ phase[j] # "end"
            /\ phase'[j] = phase[j] /\ todo'[j] = todo[j] \ {name[j]}
  <2>1. all2 = others
    BY <1>12 DEF all2, others
  <2> QED
    BY <1>1, <1>2, <1>3, <1>5, <1>12, <2>1 DEF Measure, AtName, Ended
<1>13. CASE at[j] = "extract" /\ at'[j] = "discard" /\ phase'[j] = "end"
  BY <1>1, <1>2, <1>4, <1>13 DEF Measure, StepsFrom, Ended
<1> QED
  BY <1>7, <1>8, <1>9, <1>10, <1>11, <1>12, <1>13 DEF Moves

\* One attempt of a job ends, however many jobs share the cache and whatever they,
\* cache-prune and GitHub do meanwhile.
THEOREM AttemptsAreBounded ==
  ASSUME IsFiniteSet(Names)
  PROVE  Spec => AttemptsEnd
<1>1. Init => AttemptInv
  BY DEF Init, AttemptInv, AtName
<1>2. Spec => [](TypeOK /\ AttemptInv)
  <2>1. Init => TypeOK
    BY InitInv DEF IInv
  <2> QED
    BY <1>1, <2>1, TypeStep, AttemptStep, PTL DEF Spec
<1>3. ASSUME TypeOK, TypeOK', AttemptInv, [Next]_vars, NEW j \in Jobs, ~Start(j)
      PROVE  IF Step(j) \/ Crash(j) THEN StepsLeft(j)' < StepsLeft(j)
                                    ELSE StepsLeft(j)' = StepsLeft(j)
  <2>1. CASE Step(j) \/ Crash(j)
    BY <1>3, <2>1, StepMoves, MoveLeadsOn
  <2>2. CASE Rerun(j)
    <3>1. at[j] = "failed" /\ at'[j] = "start"
      BY <2>2, <1>3 DEF Rerun, Goto, TypeOK
    <3>2. StepsLeft(j) = 0 /\ StepsLeft(j)' = 0
      BY <3>1, StepsLeftNext DEF StepsLeft, Measure, Ended
    <3>3. ~(Step(j) \/ Crash(j))
      BY <3>1, <1>3, StepMoves DEF Running, Ended
    <3> QED
      BY <3>2, <3>3
  <2>3. CASE ~(Step(j) \/ Crash(j) \/ Rerun(j))
    BY <1>3, <2>3, OthersKeep, StepsLeftNext DEF SameAttempt, StepsLeft
  <2> QED
    BY <2>1, <2>2, <2>3
<1>4. TypeOK /\ TypeOK' /\ AttemptInv /\ [Next]_vars =>
        [\A j \in Jobs :
           \/ Start(j)
           \/ IF Step(j) \/ Crash(j) THEN StepsLeft(j)' < StepsLeft(j)
                                     ELSE StepsLeft(j)' = StepsLeft(j)]_vars
  BY <1>3
<1> QED
  BY <1>2, <1>4, PTL DEF Spec, AttemptsEnd
=============================================================================
