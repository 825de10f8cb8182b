----------------------- MODULE CacheMaintenanceProofs -----------------------
(***************************************************************************)
(* What runs of cache-prune keep to, for any files, sizes and watermarks.  *)
(***************************************************************************)
EXTENDS CacheMaintenance, TLAPS

\* What is listed, and what the disk was found to hold.
Listing ==
  /\ at = "expire" => /\ dir <= Len(Dirs)
                      /\ \A f \in listed : DirOf[f] = Dirs[dir]
                      /\ \A f \in listed \cap present : f \in old \/ f \in rewritten
                      /\ Dirs[dir] \notin Artifacts => measured >= High
  /\ at = "evict" => (\A f \in listed : Package(f)) /\ measured > Low

\* Under pressure, and only then, entries are ranked.
Ranking ==
  /\ at \in {"retention", "expire"} => DOMAIN rank = {}
  /\ at = "evict" => listed \subseteq DOMAIN rank
  /\ OldestFirst

\* What is overdue is in a directory that is still to come, or in the listing.
Remaining ==
  /\ at \in {"evict", "done"} => dir > Len(Dirs)
  /\ at \in {"retention", "expire", "evict", "done"} /\ ~dry =>
       \A f \in overdue \cap present :
         /\ f \in old /\ ~Package(f)
         /\ \A i \in 1..Len(Dirs) : i < dir => Dirs[i] # DirOf[f]
         /\ at = "expire" /\ DirOf[f] = Dirs[dir] => f \in listed

IInv == TypeOK /\ Listing /\ Ranking /\ Remaining

-----------------------------------------------------------------------------
\* What is available bounds the usage, and more of it lowers it.
LEMMA UsageFalls ==
  ASSUME NEW a \in Nat, NEW b \in Nat
  PROVE  /\ Usage(a) \in Nat /\ Usage(a + b) \in Nat
         /\ Usage(a + b) <= Usage(a)
BY CacheAssumption DEF Usage

LEMMA InitInv == Init => IInv
<1> SUFFICES ASSUME Init PROVE IInv
  OBVIOUS
<1>1. free \in Nat /\ Projected \in Nat
  <2>1. free \in Nat /\ reclaimed = 0
    BY CacheAssumption DEF Init
  <2> QED
    BY <2>1, UsageFalls DEF Projected
<1>2. 1 \in 1..(Len(Dirs) + 1)
  BY CacheAssumption
<1>3. used \in [Files -> 0..clock] /\ clock \in Nat
  BY DEF Init
<1>4. /\ present \subseteq Files /\ old \subseteq present /\ at = "idle"
      /\ listed = {} /\ removed = {} /\ rewritten = {} /\ overdue = {}
  BY DEF Init
<1>5. DOMAIN rank = {}
  BY DEF Init
<1>6. /\ other \in Nat /\ reclaimed \in Nat /\ measured \in Nat /\ dry \in BOOLEAN
      /\ runs \in 0..MaxRuns /\ dir = 1
  <2>1. MaxRuns \in Nat
    BY CacheAssumption
  <2>2. other = 0 /\ reclaimed = 0 /\ measured = 0 /\ runs = 0 /\ dir = 1
    BY DEF Init
  <2>3. dry \in BOOLEAN
    BY Zenon DEF Init
  <2> QED
    BY <2>1, <2>2, <2>3
<1>7. TypeOK
  BY <1>1, <1>2, <1>3, <1>4, <1>5, <1>6 DEF TypeOK
<1> QED
  BY <1>4, <1>5, <1>7 DEF IInv, Listing, Ranking, OldestFirst, Remaining

-----------------------------------------------------------------------------
(***************************************************************************)
(* Types                                                                   *)
(***************************************************************************)
LEMMA MarkTyped ==
  ASSUME TypeOK, NEW f \in Files, Mark(f)
  PROVE  /\ present' \subseteq present /\ old' \subseteq old /\ old' \subseteq present'
         /\ free' \in Nat /\ reclaimed' \in Nat /\ removed' \subseteq Files
         /\ removed \subseteq removed' /\ removed' \subseteq removed \cup {f}
<1>1. Size[f] \in Nat
  BY CacheAssumption
<1> QED
  BY <1>1, SMTT(40) DEF TypeOK, Mark

LEMMA StepTyped == TypeOK /\ Listing /\ [Next]_vars => TypeOK'
<1> SUFFICES ASSUME TypeOK, Listing, [Next]_vars PROVE TypeOK'
  OBVIOUS
<1>0. ASSUME free' \in Nat, reclaimed' \in Nat PROVE Projected' \in Nat
  BY <1>0, UsageFalls DEF Projected
<1>d. Len(Dirs) \in Nat /\ dir \in 1..(Len(Dirs) + 1)
  BY CacheAssumption DEF TypeOK
<1> USE DEF TypeOK
<1>1. CASE Begin
  <2>1. old' \subseteq present' /\ overdue' \subseteq Files /\ 1 \in 1..(Len(Dirs) + 1)
    BY <1>1, <1>d DEF Begin
  <2> QED
    BY <1>0, <1>1, <2>1, CacheAssumption, SMTT(40) DEF Begin
<1>2. CASE ListExpired
  <2>1. measured' \in Nat
    BY <1>2, UsageFalls DEF ListExpired
  <2>2. /\ dir' \in 1..(Len(Dirs) + 1) /\ listed' \subseteq Files
        /\ at' \in {"retention", "expire"}
    BY <1>2, <1>d DEF ListExpired
  <2> QED
    BY <1>0, <1>2, <2>1, <2>2 DEF ListExpired, disk, account
<1>3. CASE NextDir
  <2>1. dir' \in 1..(Len(Dirs) + 1)
    BY <1>3, <1>d DEF NextDir, Listing
  <2> QED
    BY <1>0, <1>3, <2>1 DEF NextDir, disk, account
<1>4. CASE ListPackages
  <2>1. measured' \in Nat
    BY <1>4, UsageFalls DEF ListPackages
  <2>2. /\ listed' \subseteq Files /\ at' \in {"evict", "done"}
        /\ DOMAIN rank' \subseteq Files /\ \A f \in DOMAIN rank' : rank'[f] \in Nat
    BY <1>4 DEF ListPackages, PressureCandidates
  <2> QED
    BY <1>0, <1>4, <2>1, <2>2 DEF ListPackages, disk, account
<1>5. CASE Fail
  BY <1>0, <1>5 DEF Fail, disk, plan, account
<1>6. ASSUME NEW f \in Files, Expire(f) PROVE TypeOK'
  BY <1>0, <1>6, MarkTyped DEF Expire
<1>7. ASSUME NEW f \in Files, Evict(f) PROVE TypeOK'
  <2>1. Mark(f)
    BY <1>7 DEF Evict
  <2>2. measured' \in Nat
    BY <1>7, <2>1, MarkTyped, UsageFalls DEF Evict
  <2>3. at' \in {"evict", "done"} /\ listed' \subseteq Files
    BY <1>7 DEF Evict
  <2> QED
    BY <1>0, <1>7, <2>1, <2>2, <2>3, MarkTyped DEF Evict
<1>8. ASSUME NEW f \in Files, Use(f) PROVE TypeOK'
  <2>1. used' \in [Files -> 0..clock'] /\ clock' \in Nat
    BY <1>8 DEF Use, Tick
  <2> QED
    BY <1>0, <1>8, <2>1 DEF Use, run, plan, account
<1>9. ASSUME NEW f \in Files, Write(f) PROVE TypeOK'
  <2>1. used' \in [Files -> 0..clock'] /\ clock' \in Nat
    BY <1>9 DEF Write, Tick
  <2>2. free' \in Nat
    <3>1. Size[f] \in Nat
      BY CacheAssumption
    <3> QED
      BY <1>9, <3>1 DEF Write
  <2> QED
    BY <1>0, <1>9, <2>1, <2>2 DEF Write, run, plan, account
<1>10. ASSUME NEW f \in Files, Discard(f) PROVE TypeOK'
  <2>1. free' \in Nat
    BY <1>10, CacheAssumption DEF Discard
  <2> QED
    BY <1>0, <1>10, <2>1 DEF Discard, run, plan, account
<1>11. CASE OtherData
  <2>1. free' \in Nat /\ other' \in Nat
    BY <1>11 DEF OtherData
  <2> QED
    BY <1>0, <1>11, <2>1 DEF OtherData, run, plan, account
<1>12. CASE UNCHANGED vars
  BY <1>0, <1>12 DEF vars, disk, plan, account
<1> QED
  BY <1>1, <1>2, <1>3, <1>4, <1>5, <1>6, <1>7, <1>8, <1>9, <1>10, <1>11, <1>12 DEF Next, Prune

-----------------------------------------------------------------------------
(***************************************************************************)
(* What is listed                                                          *)
(***************************************************************************)
\* The real usage is never below the projected one.
LEMMA ProjectedIsLow ==
  ASSUME TypeOK
  PROVE  Projected <= Usage(free) /\ Usage(free) \in Nat /\ Projected \in Nat
BY UsageFalls DEF Projected, TypeOK

LEMMA StepListing == TypeOK /\ Listing /\ [Next]_vars => Listing'
<1> SUFFICES ASSUME TypeOK, Listing, [Next]_vars PROVE Listing'
  OBVIOUS
<1>0. TypeOK'
  BY StepTyped
<1>w. High \in Nat /\ Low \in Nat /\ Low < High /\ Len(Dirs) \in Nat
  BY CacheAssumption
<1> USE DEF Listing
<1>1. CASE Begin
  BY <1>1 DEF Begin
<1>2. CASE ListExpired
  <2>1. CASE Skipped(Dirs[dir])
    BY <1>2, <2>1 DEF ListExpired
  <2>2. CASE ~Skipped(Dirs[dir])
    <3>1. at' = "expire" /\ dir' = dir /\ listed' = {f \in old : DirOf[f] = Dirs[dir]}
          /\ measured' = Usage(free) /\ old' = old /\ dir <= Len(Dirs)
      BY <1>2, <2>2 DEF ListExpired, disk
    <3>2. Dirs[dir] \notin Artifacts => measured' >= High
      BY <1>w, <2>2, <3>1, ProjectedIsLow DEF Skipped
    <3> QED
      BY <3>1, <3>2
  <2> QED
    BY <2>1, <2>2
<1>3. CASE NextDir
  BY <1>3 DEF NextDir
<1>4. CASE ListPackages
  <2>1. CASE Projected > High /\ PressureCandidates # {}
    <3>1. at' = "evict" /\ listed' = PressureCandidates /\ measured' = Usage(free)
      BY <1>4, <2>1 DEF ListPackages
    <3>2. measured' > Low
      BY <1>w, <2>1, <3>1, ProjectedIsLow
    <3> QED
      BY <3>1, <3>2 DEF PressureCandidates
  <2>2. CASE ~(Projected > High /\ PressureCandidates # {})
    BY <1>4, <2>2 DEF ListPackages
  <2> QED
    BY <2>1, <2>2
<1>5. CASE Fail
  BY <1>5 DEF Fail
<1>6. ASSUME NEW f \in Files, Expire(f) PROVE Listing'
  <2>1. /\ at = "expire" /\ at' = at /\ dir' = dir /\ measured' = measured
        /\ listed' = listed \ {f} /\ rewritten' = rewritten /\ Mark(f)
    BY <1>6 DEF Expire
  <2>2. old \subseteq old' \cup {f} /\ present' \subseteq present
    BY <2>1, MarkTyped DEF Mark
  <2> QED
    BY <2>1, <2>2
<1>7. ASSUME NEW f \in Files, Evict(f) PROVE Listing'
  <2>1. /\ at = "evict" /\ listed' = listed \ {f} /\ measured' = Usage(free')
        /\ at' = IF LowReached' \/ listed' = {} THEN "done" ELSE "evict"
    BY <1>7 DEF Evict
  <2>2. Projected' <= Usage(free)' /\ Usage(free)' \in Nat /\ Projected' \in Nat
    BY <1>0, UsageFalls DEF Projected, TypeOK
  <2>3. at' = "evict" => measured' > Low
    BY <1>w, <2>1, <2>2 DEF LowReached
  <2> QED
    BY <2>1, <2>3
<1>8. ASSUME NEW f \in Files, Use(f) PROVE Listing'
  BY <1>8 DEF Use, run, plan
<1>9. ASSUME NEW f \in Files, Write(f) PROVE Listing'
  <2>1. UNCHANGED <<at, dir, listed, measured>>
    BY <1>9 DEF Write, run, plan
  <2>2. /\ present' = present \cup {f} /\ old' = old \ {f} /\ rewritten' = rewritten \cup {f}
    BY <1>9 DEF Write
  <2> QED
    BY <2>1, <2>2
<1>10. ASSUME NEW f \in Files, Discard(f) PROVE Listing'
  BY <1>10 DEF Discard, run, plan
<1>11. CASE OtherData
  BY <1>11 DEF OtherData, run, plan
<1>12. CASE UNCHANGED vars
  BY <1>12 DEF vars, disk, plan
<1> QED
  BY <1>1, <1>2, <1>3, <1>4, <1>5, <1>6, <1>7, <1>8, <1>9, <1>10, <1>11, <1>12 DEF Next, Prune

LEMMA StepRanking == TypeOK /\ Ranking /\ [Next]_vars => Ranking'
<1> SUFFICES ASSUME TypeOK, Ranking, [Next]_vars PROVE Ranking'
  OBVIOUS
<1> USE DEF Ranking, OldestFirst
<1>1. CASE Begin
  BY <1>1 DEF Begin
<1>2. CASE ListExpired
  BY <1>2 DEF ListExpired, account
<1>3. CASE NextDir
  BY <1>3 DEF NextDir, account
<1>4. CASE ListPackages
  BY <1>4 DEF ListPackages, account, PressureCandidates
<1>5. CASE Fail
  BY <1>5 DEF Fail, plan, account
<1>6. ASSUME NEW f \in Files, Expire(f) PROVE Ranking'
  BY <1>6 DEF Expire
<1>7. ASSUME NEW f \in Files, Evict(f) PROVE Ranking'
  <2>1. /\ at = "evict" /\ listed' = listed \ {f} /\ rank' = rank
        /\ \A g \in listed : rank[f] <= rank[g]
    BY <1>7 DEF Evict, IsNext
  <2>2. removed' \subseteq removed \cup {f} /\ at' \in {"evict", "done"}
    BY <1>7, MarkTyped DEF Evict
  <2> QED
    BY <2>1, <2>2
<1>8. ASSUME NEW f \in Files, Use(f) PROVE Ranking'
  BY <1>8 DEF Use, run, plan, account
<1>9. ASSUME NEW f \in Files, Write(f) PROVE Ranking'
  BY <1>9 DEF Write, run, plan, account
<1>10. ASSUME NEW f \in Files, Discard(f) PROVE Ranking'
  BY <1>10 DEF Discard, run, plan, account
<1>11. CASE OtherData
  BY <1>11 DEF OtherData, run, plan, account
<1>12. CASE UNCHANGED vars
  BY <1>12 DEF vars, disk, plan, account
<1> QED
  BY <1>1, <1>2, <1>3, <1>4, <1>5, <1>6, <1>7, <1>8, <1>9, <1>10, <1>11, <1>12 DEF Next, Prune

LEMMA StepRemaining == TypeOK /\ Listing /\ Remaining /\ [Next]_vars => Remaining'
<1> SUFFICES ASSUME TypeOK, Listing, Remaining, [Next]_vars PROVE Remaining'
  OBVIOUS
<1>d. Len(Dirs) \in Nat /\ dir \in 1..(Len(Dirs) + 1)
  BY CacheAssumption DEF TypeOK
<1> USE DEF Remaining
<1>1. CASE Begin
  BY <1>1, <1>d DEF Begin
<1>2. CASE ListExpired
  <2>1. UNCHANGED <<present, old, overdue, dry>> /\ at = "retention" /\ dir <= Len(Dirs)
    BY <1>2 DEF ListExpired, disk
  <2>2. CASE Skipped(Dirs[dir])
    <3>1. at' = "retention" /\ dir' = dir + 1 /\ Dirs[dir] \notin Artifacts
      BY <1>2, <2>1, <2>2 DEF ListExpired, Skipped
    <3>2. \A f \in overdue \cap present : ~dry => Dirs[dir] # DirOf[f]
      BY <2>1, <3>1 DEF Package
    <3> QED
      BY <1>d, <2>1, <3>1, <3>2
  <2>3. CASE ~Skipped(Dirs[dir])
    BY <1>2, <2>1, <2>3 DEF ListExpired
  <2> QED
    BY <2>2, <2>3
<1>3. CASE NextDir
  <2>1. /\ at = "expire" /\ listed = {} /\ at' = "retention" /\ dir' = dir + 1
        /\ UNCHANGED <<present, old, overdue, dry>>
    BY <1>3 DEF NextDir, disk
  <2> QED
    BY <1>d, <2>1
<1>4. CASE ListPackages
  BY <1>4 DEF ListPackages, disk
<1>5. CASE Fail
  BY <1>5 DEF Fail
<1>6. ASSUME NEW f \in Files, Expire(f) PROVE Remaining'
  <2>1. /\ at = "expire" /\ UNCHANGED <<at, dir, dry, overdue>> /\ listed' = listed \ {f} /\ Mark(f)
    BY <1>6 DEF Expire
  <2>2. /\ present' \subseteq present /\ \A g \in old : g \in old' \/ g = f
        /\ ~dry => f \notin present'
    BY <2>1, MarkTyped DEF Mark
  <2> QED
    BY <2>1, <2>2
<1>7. ASSUME NEW f \in Files, Evict(f) PROVE Remaining'
  <2>1. /\ at = "evict" /\ at' \in {"evict", "done"} /\ UNCHANGED <<dir, dry, overdue>> /\ Mark(f)
    BY <1>7 DEF Evict
  <2>2. /\ present' \subseteq present /\ \A g \in old : g \in old' \/ g = f
        /\ ~dry => f \notin present'
    BY <2>1, MarkTyped DEF Mark
  <2> QED
    BY <2>1, <2>2
<1>8. ASSUME NEW f \in Files, Use(f) PROVE Remaining'
  BY <1>8 DEF Use, run, plan
<1>9. ASSUME NEW f \in Files, Write(f) PROVE Remaining'
  <2>1. UNCHANGED <<at, dir, dry, listed>>
    BY <1>9 DEF Write, run, plan
  <2>2. present' = present \cup {f} /\ old' = old \ {f} /\ overdue' = overdue \ {f}
    BY <1>9 DEF Write
  <2> QED
    BY <2>1, <2>2
<1>10. ASSUME NEW f \in Files, Discard(f) PROVE Remaining'
  BY <1>10 DEF Discard, run, plan
<1>11. CASE OtherData
  BY <1>11 DEF OtherData, run, plan
<1>12. CASE UNCHANGED vars
  BY <1>12 DEF vars, disk, plan
<1> QED
  BY <1>1, <1>2, <1>3, <1>4, <1>5, <1>6, <1>7, <1>8, <1>9, <1>10, <1>11, <1>12 DEF Next, Prune

LEMMA Invariance == Spec => []IInv
<1>1. IInv /\ [Next]_vars => IInv'
  BY StepTyped, StepListing, StepRanking, StepRemaining DEF IInv
<1> QED
  BY <1>1, InitInv, PTL DEF Spec

-----------------------------------------------------------------------------
\* The variables keep their types.
THEOREM TypeCorrect == Spec => []TypeOK
<1>1. IInv => TypeOK
  BY DEF IInv
<1> QED
  BY <1>1, Invariance, PTL

\* Under pressure what is evicted was used before what is left.
THEOREM EvictsInOrder == Spec => []OldestFirst
<1>1. IInv => OldestFirst
  BY DEF IInv, Ranking
<1> QED
  BY <1>1, Invariance, PTL

\* A run that ends has removed what was overdue.
THEOREM OverdueRemoved == Spec => []OverdueIsGone
<1>1. IInv => OverdueIsGone
  <2> SUFFICES ASSUME IInv, at = "done", ~dry, NEW f \in overdue \cap present PROVE FALSE
    BY DEF OverdueIsGone
  <2>1. PICK i \in 1..Len(Dirs) : DirOf[f] = Dirs[i]
    BY CacheAssumption DEF IInv, TypeOK
  <2>2. dir > Len(Dirs) /\ dir \in Nat /\ Len(Dirs) \in Nat
    BY CacheAssumption DEF IInv, TypeOK, Remaining
  <2> QED
    BY <2>1, <2>2 DEF IInv, Remaining
<1> QED
  BY <1>1, Invariance, PTL

\* Only one step at a time marks a file.
LEMMA MarkedBy ==
  ASSUME IInv, [Next]_vars, NEW f \in Files, Removed(f)
  PROVE  f \in listed /\ f \in present /\ at \in {"expire", "evict"}
<1>1. ASSUME NEW g \in Files, Expire(g) \/ Evict(g)
      PROVE  f \in listed /\ f \in present /\ at \in {"expire", "evict"}
  <2>1. g \in listed /\ Mark(g) /\ at \in {"expire", "evict"}
    BY <1>1 DEF Expire, Evict, IsNext
  <2>2. f = g /\ f \in present
    BY <2>1 DEF Mark, Removed
  <2> QED
    BY <2>1, <2>2
<1>2. CASE Begin
  BY <1>2 DEF Begin, Removed
<1>3. CASE ListExpired \/ NextDir \/ ListPackages \/ Fail
  BY <1>3 DEF ListExpired, NextDir, ListPackages, Fail, account, Removed
<1>4. CASE OtherData \/ \E g \in Files : Use(g) \/ Write(g) \/ Discard(g)
  BY <1>4 DEF OtherData, Use, Write, Discard, run, account, Removed
<1>5. CASE UNCHANGED vars
  BY <1>5 DEF vars, account, Removed
<1> QED
  BY <1>1, <1>2, <1>3, <1>4, <1>5 DEF Next, Prune

\* A run artifact is removed only after its 72 hours.
THEOREM ArtifactsKept == Spec => ArtifactsKeepTheirTime
<1>1. IInv /\ [Next]_vars =>
        [\A f \in Files : Removed(f) /\ ~Package(f) => f \in old \/ f \in rewritten]_vars
  <2> SUFFICES ASSUME IInv, [Next]_vars, NEW f \in Files, Removed(f), ~Package(f)
               PROVE  f \in old \/ f \in rewritten
    OBVIOUS
  <2> QED
    BY MarkedBy DEF IInv, Listing
<1> QED
  BY <1>1, Invariance, PTL DEF Spec, ArtifactsKeepTheirTime

\* A package cache loses nothing unless the disk is really full.
THEOREM WarmCacheKept == Spec => WarmCacheStays
<1>1. IInv /\ [Next]_vars =>
        [\A f \in Files : Removed(f) /\ Package(f) =>
           IF at = "expire" THEN measured >= High ELSE at = "evict" /\ measured > Low]_vars
  <2> SUFFICES ASSUME IInv, [Next]_vars, NEW f \in Files, Removed(f), Package(f)
               PROVE  IF at = "expire" THEN measured >= High ELSE at = "evict" /\ measured > Low
    OBVIOUS
  <2> QED
    BY MarkedBy DEF IInv, Listing, Package
<1> QED
  BY <1>1, Invariance, PTL DEF Spec, WarmCacheStays
=============================================================================
