--------------------------- MODULE ArtifactCache ---------------------------
(***************************************************************************)
(* artifact_cache.py: jobs of one workflow run restore artifacts through a *)
(* cache directory that all runners of a node share.  An entry of the      *)
(* cache is a directory with payload.zip and metadata.json, which records  *)
(* the digest of the payload.  A download writes a temporary file, hashes  *)
(* it, and renames it; nothing locks an entry, the name of the temporary   *)
(* file is the same for every job, and cache-prune removes old files and   *)
(* empty directories at any time.                                          *)
(*                                                                         *)
(* One step is one file operation or one exchange with GitHub.  Artifacts  *)
(* are numbered in the order of their names; their bytes are numbered in   *)
(* the order of the uploads of that name.                                  *)
(***************************************************************************)
EXTENDS Naturals, FiniteSets

CONSTANTS
  Jobs,        \* restore commands on one node, of one run
  Names,       \* artifacts of the run, which earlier jobs have uploaded
  Wanted,      \* what each job restores: a name, or Every
  Every,       \* restore_pattern with a pattern that all names match
  Retried,     \* jobs that are run again when they fail
  MaxUploads,  \* bound on the uploads of one name
  MaxFailures, \* bound on the failures in a behaviour, each of a different kind
  None,        \* no digest
  Faults       \* which failures may happen

\* "list" the listing of artifacts fails     "download" a download breaks off
\* "crash" a job is killed                   "prune" cache-prune removes a directory
\* "zlib.error" is raised by torn archives, and not only BadZipFile
AllFaults == {"list", "download", "crash", "prune", "zlib.error"}

Torn == 0                  \* bytes, or the digest of bytes, of no whole archive
Ids == 1 .. MaxUploads     \* bytes of an upload
Digests == Ids \cup {Torn}

ASSUME CacheAssumption ==
  /\ Names \subseteq Nat /\ Names # {}
  /\ Every \notin Names
  /\ Wanted \in [Jobs -> Names \cup {Every}]
  /\ Retried \subseteq Jobs
  /\ MaxUploads \in Nat \ {0}
  /\ None \notin Nat
  /\ MaxFailures \in Nat
  /\ Faults \subseteq AllFaults

VARIABLES
  remote,     \* GitHub: how often each artifact was uploaded
  dir,        \* the entries whose directory exists
  tmp,        \* .<name>.zip.tmp: what was written into it, {} when there is no file
  payload,    \* payload.zip, in the same way
  metaTmp,    \* .<name>.metadata.tmp: the digest in it
  meta,       \* metadata.json: the digest in it
  old,        \* entries that nothing was renamed into for the retention time
  condemned,  \* files that cache-prune has found to be old and will remove
  at,         \* where each job is
  phase,      \* restore_pattern scans the cache, then uses it; "end": it gives up
  todo,       \* the names a job has still to go through
  name,       \* the one it is at
  had,        \* restore_pattern: names found in the cache by the scan
  info,       \* the digest a job goes by
  pick,       \* the upload a job downloads
  fd,         \* where the file is that a job writes
  got,        \* the names a job has extracted
  crowded,    \* history: jobs that ran at the same time as another
  struck      \* history: the kinds of failure that have happened so far

dirs == <<remote, dir, condemned, crowded>>
files == <<tmp, payload, metaTmp, meta, old, fd>>
locals == <<phase, todo, name, had, info, pick, got>>
vars == <<dirs, files, locals, at, struck>>

Ended == {"ok", "failed"}
Places == Ended \cup {"start", "next", "meta", "check", "drop", "drop_dir", "discard", "rmdir",
                      "list", "download", "open", "write", "hash", "rename", "write_meta",
                      "rename_meta", "extract"}
Running(j) == at[j] \notin Ended \cup {"start"}

Goto(j, place) == at' = [at EXCEPT ![j] = place]
Strike(fault) ==
  /\ fault \in Faults \ struck /\ Cardinality(struck) < MaxFailures
  /\ struck' = struck \cup {fault}

\* Jobs that write into a file of an entry.  A file that is renamed or removed
\* keeps its writers.
Writers(n, place) == {j \in Jobs : fd[j] = place /\ name[j] = n}
Moved(n, from, to) == [j \in Jobs |-> IF j \in Writers(n, from) THEN to ELSE fd[j]]

\* The digest of a file.  It is whole when all that was written into it is one
\* upload, to the end.  A second job that opens it truncates it under the first,
\* so that it lacks bytes until both have finished, and for good if one never does.
DigestOf(file, writers) ==
  IF writers = {} /\ \E i \in Ids : file = {i} THEN CHOOSE i \in Ids : file = {i} ELSE Torn

Init ==
  /\ remote = [n \in Names |-> 1]
  /\ dir \in SUBSET Names
  /\ payload = [n \in Names |-> IF n \in dir THEN {1} ELSE {}]
  /\ meta = [n \in Names |-> IF n \in dir THEN 1 ELSE None]
  /\ tmp = [n \in Names |-> {}]
  /\ metaTmp = [n \in Names |-> None]
  /\ old \in SUBSET dir
  /\ condemned = {}
  /\ at = [j \in Jobs |-> "start"]
  /\ phase = [j \in Jobs |-> "use"]
  /\ todo = [j \in Jobs |-> {}]
  /\ name = [j \in Jobs |-> CHOOSE n \in Names : TRUE]
  /\ had = [j \in Jobs |-> {}]
  /\ info = [j \in Jobs |-> None]
  /\ pick = [j \in Jobs |-> 1]
  /\ fd = [j \in Jobs |-> "none"]
  /\ got = [j \in Jobs |-> {}]
  /\ crowded = {}
  /\ struck = {}

-----------------------------------------------------------------------------
(***************************************************************************)
(* restore and restore_pattern                                             *)
(***************************************************************************)
\* Mutation: a pattern is taken for a name.
FirstNamesLiteral(j) == {Wanted[j]}

\* The entries that restore_pattern scans, or the one artifact of restore.
FirstNames(j) == IF Wanted[j] = Every THEN dir ELSE {Wanted[j]}

Start(j) ==
  /\ at[j] = "start"
  /\ phase' = [phase EXCEPT ![j] = IF Wanted[j] = Every THEN "scan" ELSE "use"]
  /\ todo' = [todo EXCEPT ![j] = FirstNames(j)]
  /\ had' = [had EXCEPT ![j] = {}]
  /\ info' = [info EXCEPT ![j] = None]
  /\ pick' = [pick EXCEPT ![j] = 1]
  /\ got' = [got EXCEPT ![j] = {}]
  /\ crowded' = LET others == {i \in Jobs \ {j} : Running(i)} IN
                  IF others = {} THEN crowded \ {j} ELSE crowded \cup others \cup {j}
  /\ Goto(j, "next")
  /\ UNCHANGED <<remote, dir, condemned, files, name, struck>>

\* The next name (in order, but for the scan), or the next part of restore_pattern, or the end.
NextName(j) ==
  /\ at[j] = "next"
  /\ \/ /\ \E n \in todo[j] :
             /\ phase[j] = "use" => \A m \in todo[j] : n <= m
             /\ name' = [name EXCEPT ![j] = n]
        /\ Goto(j, "meta")
     \/ /\ todo[j] = {}
        /\ Goto(j, IF phase[j] = "scan" THEN "list" ELSE "ok")
        /\ UNCHANGED name
  /\ info' = [info EXCEPT ![j] = None]
  /\ pick' = [pick EXCEPT ![j] = 1]
  /\ UNCHANGED <<dirs, files, phase, todo, had, got, struck>>

\* The listing of GitHub's artifacts; without it, what the scan has found.
List(j) ==
  /\ at[j] = "list"
  /\ \/ /\ todo' = [todo EXCEPT ![j] = Names]
        /\ Goto(j, "next")
        /\ UNCHANGED struck
     \/ /\ Strike("list")
        /\ todo' = [todo EXCEPT ![j] = had[j]]
        /\ Goto(j, IF had[j] = {} THEN "failed" ELSE "next")
  /\ phase' = [phase EXCEPT ![j] = "use"]
  /\ UNCHANGED <<dirs, files, name, had, info, pick, got>>

\* Mutation: _secure_extract's error leaves the entry where it is.
UnusableKept(j) == Goto(j, "failed") /\ UNCHANGED phase

\* The entry of an archive that cannot be extracted is discarded.
Unusable(j) == Goto(j, "discard") /\ phase' = [phase EXCEPT ![j] = "end"]

\* _secure_extract.
Extract(j) ==
  /\ at[j] = "extract"
  /\ LET n == name[j]
         whole == DigestOf(payload[n], Writers(n, "payload")) # Torn
     IN
       \/ /\ whole
          /\ got' = [got EXCEPT ![j] = got[j] \cup {n}]
          /\ todo' = [todo EXCEPT ![j] = todo[j] \ {n}]
          /\ Goto(j, "next")
          /\ UNCHANGED phase
       \/ /\ payload[n] # {} /\ ~whole
          /\ \E error \in {"BadZipFile"} \cup (Faults \cap {"zlib.error"}) :
               IF error = "BadZipFile" THEN Unusable(j)
               ELSE Goto(j, "failed") /\ UNCHANGED phase
          /\ UNCHANGED <<todo, got>>
       \/ /\ payload[n] = {}                    \* FileNotFoundError
          /\ Goto(j, "failed")
          /\ UNCHANGED <<phase, todo, got>>
  /\ UNCHANGED <<dirs, files, name, had, info, pick, struck>>

-----------------------------------------------------------------------------
(***************************************************************************)
(* _read_cached and _discard_entry                                         *)
(***************************************************************************)
ReadMeta(j) ==
  /\ at[j] = "meta"
  /\ info' = [info EXCEPT ![j] = meta[name[j]]]
  /\ Goto(j, IF meta[name[j]] = None THEN "discard" ELSE "check")
  /\ UNCHANGED <<dirs, files, phase, todo, name, had, pick, got, struck>>

\* The scan has dealt with a name.
Scanned(j) ==
  /\ todo' = [todo EXCEPT ![j] = todo[j] \ {name[j]}]
  /\ Goto(j, "next")

\* Mutation: the digest is not compared.
MatchesAnything(j, file, digest) == file # {}

\* Two torn files may have the same bytes or not.
Matches(j, file, digest) == file # {} /\ digest = info[j]

Check(j) ==
  /\ at[j] = "check"
  /\ LET n == name[j]
         digest == DigestOf(payload[n], Writers(n, "payload"))
     IN
       \/ /\ Matches(j, payload[n], digest)
          /\ IF phase[j] = "scan"
             THEN Scanned(j) /\ had' = [had EXCEPT ![j] = had[j] \cup {n}]
             ELSE Goto(j, "extract") /\ UNCHANGED <<todo, had>>
       \/ /\ Matches(j, payload[n], digest) => digest = Torn
          /\ Goto(j, "drop")
          /\ UNCHANGED <<todo, had>>
  /\ UNCHANGED <<dirs, files, phase, name, info, pick, got, struck>>

\* rmtree: the files, and then the directory.  The entry whose digest differs is
\* at "drop", any other at "discard".
Discard(j) ==
  /\ at[j] \in {"drop", "discard"}
  /\ payload' = [payload EXCEPT ![name[j]] = {}]
  /\ meta' = [meta EXCEPT ![name[j]] = None]
  /\ fd' = Moved(name[j], "payload", "lost")
  /\ old' = old \ {name[j]}
  /\ Goto(j, IF at[j] = "drop" THEN "drop_dir" ELSE "rmdir")
  /\ UNCHANGED <<dirs, tmp, metaTmp, locals, struck>>

\* A directory that has files again is an error.  _read_cached catches it from the
\* entry whose digest differs, and discards once more; from then on nothing does.
RemoveDir(j) ==
  /\ at[j] \in {"drop_dir", "rmdir"}
  /\ LET n == name[j] IN
       \/ /\ payload[n] = {} /\ meta[n] = None
          /\ dir' = dir \ {n}
          /\ \/ phase[j] = "scan" /\ Scanned(j)
             \/ phase[j] = "use" /\ Goto(j, "download") /\ UNCHANGED todo
             \/ phase[j] = "end" /\ Goto(j, "failed") /\ UNCHANGED todo
       \/ /\ ~(payload[n] = {} /\ meta[n] = None)
          /\ Goto(j, IF at[j] = "drop_dir" THEN "discard" ELSE "failed")
          /\ UNCHANGED <<dir, todo>>
  /\ UNCHANGED <<remote, condemned, crowded, files, phase, name, had, info, pick, got, struck>>

-----------------------------------------------------------------------------
(***************************************************************************)
(* _download_from_github                                                   *)
(***************************************************************************)
\* The listing and the mkdir.  restore takes the newest upload, restore_pattern
\* the one its listing named last; a name that the scan found in the cache has no
\* download URL.
Download(j) ==
  /\ at[j] = "download"
  /\ \/ /\ name[j] \notin had[j]
        /\ \E i \in 1 .. remote[name[j]] :
             /\ Wanted[j] # Every => i = remote[name[j]]
             /\ pick' = [pick EXCEPT ![j] = i]
        /\ dir' = dir \cup {name[j]}
        /\ Goto(j, "open")
        /\ UNCHANGED struck
     \/ /\ \/ name[j] \in had[j] /\ UNCHANGED struck
           \/ Strike("list")
        /\ Goto(j, "failed")
        /\ UNCHANGED <<dir, pick>>
  /\ UNCHANGED <<remote, condemned, crowded, files, phase, todo, name, had, info, got>>

\* except: the temporary file is removed, whoever wrote it.
Abort(j) ==
  /\ tmp' = [tmp EXCEPT ![name[j]] = {}]
  /\ fd' = [Moved(name[j], "tmp", "lost") EXCEPT ![j] = "none"]
  /\ Goto(j, "failed")

\* The temporary file is truncated or created.  Jobs that are writing into it
\* go on where they are.
Open(j) ==
  /\ at[j] = "open"
  /\ LET n == name[j] IN
       \/ /\ tmp' = [tmp EXCEPT ![n] = {pick[j]} \cup {pick[i] : i \in Writers(n, "tmp")}]
          /\ fd' = [fd EXCEPT ![j] = "tmp"]
          /\ Goto(j, "write")
       \/ n \notin dir /\ Abort(j)      \* the directory above may be gone, too
  /\ UNCHANGED <<dirs, payload, metaTmp, meta, old, locals, struck>>

\* The last byte is written and the file closed.
Write(j) ==
  /\ at[j] = "write"
  /\ fd' = [fd EXCEPT ![j] = "none"]
  /\ Goto(j, "hash")
  /\ UNCHANGED <<dirs, tmp, payload, metaTmp, meta, old, locals, struck>>

\* What a job has written when it stops writing is not whole.
TornBy(j, place, file) ==
  IF fd[j] = place THEN [file EXCEPT ![name[j]] = file[name[j]] \cup {Torn}] ELSE file

\* The archive cannot be fetched, or not to its end.
BreakOff(j) ==
  /\ at[j] \in {"open", "write"}
  /\ Strike("download")
  /\ payload' = TornBy(j, "payload", payload)
  /\ Abort(j)
  /\ UNCHANGED <<dirs, metaTmp, meta, old, locals>>

HashOf(j) == DigestOf(tmp[name[j]], Writers(name[j], "tmp"))

Hash(j) ==
  /\ at[j] = "hash"
  /\ \/ /\ tmp[name[j]] # {}
        /\ info' = [info EXCEPT ![j] = HashOf(j)]
        /\ Goto(j, "rename")
        /\ UNCHANGED <<tmp, fd>>
     \/ tmp[name[j]] = {} /\ Abort(j) /\ UNCHANGED info
  /\ UNCHANGED <<dirs, payload, metaTmp, meta, old, phase, todo, name, had, pick, got, struck>>

Rename(j) ==
  /\ at[j] = "rename"
  /\ LET n == name[j] IN
       \/ /\ tmp[n] # {} /\ n \in dir
          /\ payload' = [payload EXCEPT ![n] = tmp[n]]
          /\ tmp' = [tmp EXCEPT ![n] = {}]
          /\ fd' = [i \in Jobs |-> IF i \in Writers(n, "tmp") THEN "payload"
                                   ELSE Moved(n, "payload", "lost")[i]]
          /\ old' = old \ {n}
          /\ Goto(j, "write_meta")
       \/ /\ ~(tmp[n] # {} /\ n \in dir)
          /\ Abort(j) /\ UNCHANGED <<payload, old>>
  /\ UNCHANGED <<dirs, metaTmp, meta, locals, struck>>

WriteMeta(j) ==
  /\ at[j] = "write_meta"
  /\ metaTmp' = [metaTmp EXCEPT ![name[j]] = info[j]]
  /\ Goto(j, "rename_meta")
  /\ UNCHANGED <<dirs, tmp, payload, meta, old, fd, locals, struck>>

RenameMeta(j) ==
  /\ at[j] = "rename_meta"
  /\ LET n == name[j] IN
       \/ /\ metaTmp[n] # None /\ n \in dir
          /\ meta' = [meta EXCEPT ![n] = metaTmp[n]]
          /\ metaTmp' = [metaTmp EXCEPT ![n] = None]
          /\ Goto(j, "extract")
          /\ UNCHANGED <<tmp, fd>>
       \/ /\ ~(metaTmp[n] # None /\ n \in dir)
          /\ Abort(j) /\ UNCHANGED <<meta, metaTmp>>
  /\ UNCHANGED <<dirs, payload, old, locals, struck>>

-----------------------------------------------------------------------------
(***************************************************************************)
(* Failures and the rest of the world                                      *)
(***************************************************************************)
Crash(j) ==
  /\ Running(j)
  /\ Strike("crash")
  /\ tmp' = TornBy(j, "tmp", tmp)
  /\ payload' = TornBy(j, "payload", payload)
  /\ fd' = [fd EXCEPT ![j] = "none"]
  /\ Goto(j, "failed")
  /\ UNCHANGED <<dirs, metaTmp, meta, old, locals>>

\* External: a failed job is run again.
Rerun(j) ==
  /\ j \in Retried /\ at[j] = "failed"
  /\ Goto(j, "start")
  /\ UNCHANGED <<dirs, files, locals, struck>>

\* External: another attempt of the run uploads an artifact again.
Upload(n) ==
  /\ remote[n] < MaxUploads
  /\ remote' = [remote EXCEPT ![n] = remote[n] + 1]
  /\ UNCHANGED <<dir, condemned, crowded, files, locals, at, struck>>

\* cache_prune and the retention part of prune_cache: look at the age of an entry,
\* and then remove its files, one after the other.
Condemn(n) ==
  /\ n \in old
  /\ condemned' = condemned \cup {<<n, "payload">>, <<n, "meta">>}
  /\ old' = old \ {n}
  /\ UNCHANGED <<remote, dir, crowded, tmp, payload, metaTmp, meta, fd, locals, at, struck>>

PruneFile(n) ==
  /\ \/ /\ <<n, "payload">> \in condemned
        /\ condemned' = condemned \ {<<n, "payload">>}
        /\ payload' = [payload EXCEPT ![n] = {}]
        /\ fd' = Moved(n, "payload", "lost")
        /\ UNCHANGED meta
     \/ /\ <<n, "meta">> \in condemned
        /\ condemned' = condemned \ {<<n, "meta">>}
        /\ meta' = [meta EXCEPT ![n] = None]
        /\ UNCHANGED <<payload, fd>>
  /\ UNCHANGED <<remote, dir, crowded, tmp, metaTmp, old, locals, at, struck>>

\* Empty directories go, whatever their age.
PruneDir(n) ==
  /\ n \in dir /\ payload[n] = {} /\ meta[n] = None
  /\ Strike("prune")
  /\ dir' = dir \ {n}
  /\ UNCHANGED <<remote, condemned, crowded, files, locals, at>>

Step(j) ==
  \/ Start(j) \/ NextName(j) \/ List(j) \/ Extract(j)
  \/ ReadMeta(j) \/ Check(j) \/ Discard(j) \/ RemoveDir(j)
  \/ Download(j) \/ Open(j) \/ Write(j) \/ BreakOff(j) \/ Hash(j) \/ Rename(j)
  \/ WriteMeta(j) \/ RenameMeta(j)

Next ==
  \/ \E j \in Jobs : Step(j) \/ Crash(j) \/ Rerun(j)
  \/ \E n \in Names : Upload(n) \/ Condemn(n) \/ PruneFile(n) \/ PruneDir(n)

\* A job that is not killed takes its next step, and is run again if it is one
\* of those that are.
Fairness == \A j \in Jobs : WF_vars(Step(j)) /\ WF_vars(Rerun(j))

Spec == Init /\ [][Next]_vars
FairSpec == Spec /\ Fairness

-----------------------------------------------------------------------------
(***************************************************************************)
(* Properties                                                              *)
(***************************************************************************)
\* The values every variable stays in.
TypeOK ==
  /\ remote \in [Names -> Ids]
  /\ dir \subseteq Names
  /\ tmp \in [Names -> SUBSET Digests]
  /\ payload \in [Names -> SUBSET Digests]
  /\ metaTmp \in [Names -> Digests \cup {None}]
  /\ meta \in [Names -> Digests \cup {None}]
  /\ old \subseteq Names
  /\ condemned \subseteq Names \X {"payload", "meta"}
  /\ at \in [Jobs -> Places]
  /\ phase \in [Jobs -> {"scan", "use", "end"}]
  /\ todo \in [Jobs -> SUBSET Names]
  /\ name \in [Jobs -> Names]
  /\ had \in [Jobs -> SUBSET Names]
  /\ info \in [Jobs -> Digests \cup {None}]
  /\ pick \in [Jobs -> Ids]
  /\ fd \in [Jobs -> {"none", "tmp", "payload", "lost"}]
  /\ got \in [Jobs -> SUBSET Names]
  /\ crowded \subseteq Jobs
  /\ struck \subseteq Faults

\* A job that ran alone on its node extracts the bytes whose digest it reports,
\* whatever earlier jobs, killed at any place, and cache-prune have left or
\* removed of the entry.
ReportsWhatItExtracts ==
  [][\A j \in Jobs : at[j] = "extract" /\ at'[j] = "next" /\ j \notin crowded
       => payload[name[j]] = {info[j]}]_vars

\* A job that is run again until it succeeds does succeed in the end: nothing that
\* is left in the cache can make it fail for ever.
EventuallyRestored == \A j \in Retried : <>(at[j] = "ok")
=============================================================================
