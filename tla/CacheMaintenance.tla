-------------------------- MODULE CacheMaintenance --------------------------
(***************************************************************************)
(* cache_maintenance.py: runs of cache-prune on one node, while jobs read  *)
(* and write the cache and the rest of the disk.  A run removes what is    *)
(* past its retention and then, under pressure, the least recently used    *)
(* packages.  It works from listings: the disk goes on changing under it.  *)
(*                                                                         *)
(* The flock admits one run at a time; one that does not get it fails and  *)
(* changes nothing, and is not modelled.  Directories are not modelled     *)
(* either: ArtifactCache has the rmdir that takes one from a download.     *)
(***************************************************************************)
EXTENDS Integers, Sequences, Functions

CONSTANTS
  Files,        \* paths below the cache directories
  Dirs,         \* _CACHE_DIRS, in its order
  Artifacts,    \* _ARTIFACT_CACHE_DIRS
  DirOf, Size,  \* of each file
  Capacity,     \* of the disk
  High, Low,    \* high_watermark and low_watermark, in units of Size
  MaxRuns, MaxClock, MaxOther   \* bounds: runs, uses of files, data outside the cache

ASSUME CacheAssumption ==
  /\ Dirs \in Seq(STRING) /\ Artifacts \subseteq STRING
  /\ Size \in [Files -> Nat]
  /\ \A f \in Files : \E i \in 1..Len(Dirs) : DirOf[f] = Dirs[i]
  /\ Capacity \in Nat /\ High \in Nat /\ Low \in Nat
  /\ Low < High /\ High < Capacity
  /\ MaxRuns \in Nat /\ MaxClock \in Nat /\ MaxOther \in Nat

Package(f) == DirOf[f] \notin Artifacts
Bytes(files) == FoldFunctionOnSet(+, 0, Size, files)

VARIABLES
  present,    \* the files there are
  old,        \* those past the retention of their directory, as of `now`
  used,       \* st_atime of each, by the clock
  clock,
  free,       \* f_bavail * f_frsize
  other,      \* the rest of the disk that comes and goes
  at,         \* the run: its place in prune_cache
  dry,        \* dry_run
  dir,        \* index of the directory of the retention pass
  listed,     \* candidates, or pressure_candidates, still to be marked
  rank,       \* their st_atime when they were listed under pressure
  removed,    \* removed_paths
  reclaimed,  \* reclaimed_bytes
  runs,       \* runs begun
  measured,   \* history: what the disk really held at the last projected_usage()
  rewritten,  \* history: files written since the run began
  overdue     \* history: artifacts past their retention when it began, not written since

disk == <<present, old, used, clock, free, other>>
plan == <<dir, listed, rank>>
account == <<removed, reclaimed>>
vars == <<disk, at, dry, plan, account, runs, measured, rewritten, overdue>>

Init ==
  /\ present \in SUBSET Files
  /\ old \in SUBSET present
  /\ used \in [Files -> {0}]
  /\ clock = 0
  /\ other = 0
  /\ free \in {n \in 0..Capacity : n + Bytes(present) <= Capacity}
  /\ at = "idle"
  /\ dry = FALSE
  /\ dir = 1
  /\ listed = {}
  /\ rank = [f \in {} |-> 0]
  /\ removed = {} /\ reclaimed = 0
  /\ runs = 0
  /\ measured = 0
  /\ rewritten = {} /\ overdue = {}

-----------------------------------------------------------------------------
(***************************************************************************)
(* External: the jobs of the node.                                         *)
(***************************************************************************)
Tick == clock < MaxClock /\ clock' = clock + 1

run == <<at, dry, plan, account, runs, measured>>

Use(f) ==
  /\ f \in present
  /\ Tick
  /\ used' = [used EXCEPT ![f] = clock']
  /\ UNCHANGED <<present, old, free, other, run, rewritten, overdue>>

\* A file is written, perhaps in the place of an older one.
Write(f) ==
  /\ Tick
  /\ used' = [used EXCEPT ![f] = clock']
  /\ \/ f \in present /\ UNCHANGED free
     \/ f \notin present /\ Size[f] <= free /\ free' = free - Size[f]
  /\ present' = present \cup {f}
  /\ old' = old \ {f}
  /\ rewritten' = rewritten \cup {f}
  /\ overdue' = overdue \ {f}
  /\ UNCHANGED <<other, run>>

\* A job discards a file: an unusable artifact, or a tool that cleans up.
Discard(f) ==
  /\ f \in present
  /\ present' = present \ {f} /\ old' = old \ {f}
  /\ free' = free + Size[f]
  /\ UNCHANGED <<used, clock, other, run, rewritten, overdue>>

OtherData ==
  /\ \/ other < MaxOther /\ free > 0 /\ other' = other + 1 /\ free' = free - 1
     \/ other > 0 /\ other' = other - 1 /\ free' = free + 1
  /\ UNCHANGED <<present, old, used, clock, run, rewritten, overdue>>

-----------------------------------------------------------------------------
(***************************************************************************)
(* prune_cache                                                             *)
(***************************************************************************)
\* Mutation: more may be available than the disk has.
UsageUnbounded(available) == Capacity - available

Usage(available) == IF available >= Capacity THEN 0 ELSE Capacity - available

\* projected_usage: the statvfs of the moment, and reclaimed_bytes on top.
Projected == Usage(free + reclaimed)

\* The command begins, with `now` of its own: more has grown old since the last run.
Begin ==
  /\ at \in {"idle", "done", "failed"}
  /\ runs < MaxRuns /\ runs' = runs + 1
  /\ old' \in {old \cup more : more \in SUBSET present}
  /\ dry' \in BOOLEAN
  /\ at' = "retention"
  /\ dir' = 1
  /\ listed' = {}
  /\ rank' = [f \in {} |-> 0]
  /\ removed' = {} /\ reclaimed' = 0
  /\ rewritten' = {}
  /\ overdue' = {f \in old' : ~Package(f)}
  /\ UNCHANGED <<present, used, clock, free, other, measured>>

\* Mutation: run artifacts wait for pressure too.
SkippedAtRest(d) == Projected < High

\* Package and tool caches wait for pressure.
Skipped(d) == d \notin Artifacts /\ Projected < High

\* The next directory: it is skipped, or its files are listed.
ListExpired ==
  /\ at = "retention" /\ dir <= Len(Dirs)
  /\ measured' = Usage(free)
  /\ IF Skipped(Dirs[dir])
     THEN dir' = dir + 1 /\ UNCHANGED <<at, listed>>
     ELSE /\ listed' = {f \in old : DirOf[f] = Dirs[dir]}
          /\ at' = "expire"
          /\ UNCHANGED dir
  /\ UNCHANGED <<disk, dry, rank, account, runs, rewritten, overdue>>

\* mark_for_removal.  A file that is gone is passed over; the others count
\* as reclaimed whether they are unlinked or not.
Mark(f) ==
  IF f \in present
  THEN /\ removed' = removed \cup {f}
       /\ reclaimed' = reclaimed + Size[f]
       /\ IF dry THEN UNCHANGED <<present, old, free>>
          ELSE present' = present \ {f} /\ old' = old \ {f} /\ free' = free + Size[f]
  ELSE UNCHANGED <<removed, reclaimed, present, old, free>>

Expire(f) ==
  /\ at = "expire" /\ f \in listed
  /\ Mark(f)
  /\ listed' = listed \ {f}
  /\ UNCHANGED <<used, clock, other, at, dry, dir, rank, runs, measured, rewritten, overdue>>

NextDir ==
  /\ at = "expire" /\ listed = {}
  /\ at' = "retention"
  /\ dir' = dir + 1
  /\ UNCHANGED <<disk, dry, listed, rank, account, runs, measured, rewritten, overdue>>

\* Mutation: run artifacts are candidates too.
CandidatesOfAll == present \ removed

PressureCandidates == {f \in present \ removed : Package(f)}

\* After the retention pass: is the disk still above the high watermark?
ListPackages ==
  /\ at = "retention" /\ dir > Len(Dirs)
  /\ measured' = Usage(free)
  /\ IF Projected > High /\ PressureCandidates # {}
     THEN /\ listed' = PressureCandidates
          /\ rank' = [f \in listed' |-> used[f]]
          /\ at' = "evict"
     ELSE at' = "done" /\ UNCHANGED <<listed, rank>>
  /\ UNCHANGED <<disk, dry, dir, account, runs, rewritten, overdue>>

\* Mutation: any order.
IsNextAny(f) == f \in listed

\* Sorted by atime; equal ones in either order.
IsNext(f) == f \in listed /\ \A g \in listed : rank[f] <= rank[g]

\* Mutation: the loop goes on to the end of the listing.
NeverEnough == FALSE

LowReached == Projected <= Low

Evict(f) ==
  /\ at = "evict" /\ IsNext(f)
  /\ Mark(f)
  /\ listed' = listed \ {f}
  /\ measured' = Usage(free')
  /\ at' = IF LowReached' \/ listed' = {} THEN "done" ELSE "evict"
  /\ UNCHANGED <<used, clock, other, dry, dir, rank, runs, rewritten, overdue>>

\* An unlink fails, or the process is killed; the lock goes with it.
Fail ==
  /\ at \in {"retention", "expire", "evict"}
  /\ at' = "failed"
  /\ UNCHANGED <<disk, dry, plan, account, runs, measured, rewritten, overdue>>

Prune ==
  \/ Begin \/ ListExpired \/ NextDir \/ ListPackages \/ Fail
  \/ \E f \in Files : Expire(f) \/ Evict(f)

Next == Prune \/ OtherData \/ \E f \in Files : Use(f) \/ Write(f) \/ Discard(f)

Spec == Init /\ [][Next]_vars

-----------------------------------------------------------------------------
(***************************************************************************)
(* Properties                                                              *)
(***************************************************************************)
\* The values every variable stays in.
TypeOK ==
  /\ present \subseteq Files /\ old \subseteq present
  /\ clock \in Nat /\ used \in [Files -> 0..clock]
  /\ free \in Nat /\ other \in Nat
  /\ at \in {"idle", "retention", "expire", "evict", "done", "failed"}
  /\ dry \in BOOLEAN /\ dir \in 1..(Len(Dirs) + 1)
  /\ listed \subseteq Files
  /\ DOMAIN rank \subseteq Files /\ \A f \in DOMAIN rank : rank[f] \in Nat
  /\ removed \subseteq Files /\ reclaimed \in Nat /\ runs \in 0..MaxRuns
  /\ measured \in Nat /\ Projected \in Nat
  /\ rewritten \subseteq Files /\ overdue \subseteq Files

Removed(f) == ~dry /\ f \in removed' /\ f \notin removed

\* However full the disk is, a run artifact goes only when it was past its
\* 72 hours in the listing: one that is removed fresh was written after the
\* run had begun, over the old one that had been listed.
ArtifactsKeepTheirTime ==
  [][\A f \in Files : Removed(f) /\ ~Package(f) => f \in old \/ f \in rewritten]_vars

\* A warm package cache stays useful: an entry past its retention goes only
\* if the disk was really at the high watermark when its directory was
\* listed, another one only if it was really above the low one when the entry
\* was chosen.  Bytes that are counted twice never cost an entry too many.
WarmCacheStays ==
  [][\A f \in Files : Removed(f) /\ Package(f) =>
       IF at = "expire" THEN measured >= High ELSE at = "evict" /\ measured > Low]_vars

\* Under pressure what is evicted had not been used for longer than all that
\* the run leaves of its listing.
OldestFirst ==
  \A f \in removed \cap DOMAIN rank, g \in listed \cap DOMAIN rank : rank[f] <= rank[g]

\* A run that ends has removed the artifacts that were past their retention
\* when it began, also when an earlier run was killed among them.
OverdueIsGone == at = "done" /\ ~dry => overdue \cap present = {}

\* "evicted to bring the node back to the low watermark": a run that evicts
\* ends at the low watermark, or with nothing left to evict.
ReachesLowWatermark ==
  at = "done" /\ ~dry /\ DOMAIN rank # {} => measured <= Low \/ listed = {}
=============================================================================
